----------------------------- MODULE StringHash -----------------------------
(* hash() of ClientDLL/hash.cpp, on strings of 7-bit characters.           *)
EXTENDS Integers, Sequences, Bitwise

\* The two bytes that are read at i, of the last one only the character.
Pair(string, i) == IF i < Len(string) THEN string[i] + 256 * string[i + 1] ELSE string[i]

\* ret_val is an unsigned short.
hash(string) ==
    LET ret[i \in 0 .. Len(string)] ==
            IF i = 0 THEN 0 ELSE ((ret[i - 1] ^^ Pair(string, i)) * 2) % 2^16
    IN  ret[Len(string)]
=============================================================================
