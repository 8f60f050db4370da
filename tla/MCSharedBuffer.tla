--------------------------- MODULE MCSharedBuffer ---------------------------
(* Instances of SharedBuffer for TLC: messages of 4 and 5 bytes in a ring  *)
(* of a size that is no multiple of either, so that the wrap falls on      *)
(* every byte of a message.                                                *)
EXTENDS SharedBuffer

CONSTANTS a, b

MCCommands == {<<a>>, <<b, a>>}
MCArgs == {<<b>>}
MCChars == {a, b}
=============================================================================
