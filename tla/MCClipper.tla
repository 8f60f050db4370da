------------------------------ MODULE MCClipper ------------------------------
(* An instance of Clipper for TLC, with the code's own hash function and   *)
(* table size: these two ids share a chain.                                *)
EXTENDS Clipper, StringHash

MCIds == {"12", "56"}
Bytes(id) == CASE id = "12" -> <<49, 50>> [] id = "56" -> <<53, 54>>
HashValues == [id \in MCIds |-> hash(Bytes(id))]
MCHash(id) == HashValues[id]
MCLess(a, b) == Bytes(a)[1] < Bytes(b)[1]
MCAtoi(text) == CASE text = "-2" -> -2 [] text = "-1" -> -1 [] text = "0" -> 0
                  [] text = "1" -> 1 [] text = "2" -> 2

\* Partly off the desktop, and wholly.
MCPlaces == {<<"-1", "0", "1", "2">>, <<"0", "-2", "2", "-1">>}
\* With delimiters in it.
MCTitles == {<<"t", ";", "u", "=", "v">>}
=============================================================================
