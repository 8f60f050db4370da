------------------------------ MODULE Commands ------------------------------
(***************************************************************************)
(* The text of the client's commands: unescape, get_token and the dispatch *)
(* of process_cmds (ServerExe/main.c).  A string is a sequence of symbols; *)
(* a word without special characters in it is one symbol.                  *)
(***************************************************************************)
EXTENDS Integers, SequencesExt

CONSTANTS Symbols,      \* what strings are made of
          NL,           \* '\n'
          Hex,          \* the special characters, by their two hex digits
          MaxTokens     \* how many tokens of a line are taken (8 in the code)

Special == {Hex[digits] : digits \in DOMAIN Hex}

\* '%' and '\n' are special; digits are neither special nor a comma.
ASSUME SymbolsAssumption ==
    /\ {",", "%", NL} \subseteq Symbols /\ NL \notin {",", "%"}
    /\ {"%", NL} \subseteq Special /\ Special \subseteq Symbols
    /\ \A digits \in DOMAIN Hex :
          digits \in Seq(Symbols \ Special) /\ Len(digits) = 2

\* What the client does: special characters in a field are written as %XX.
Code(c) ==
    IF c \in Special THEN <<"%">> \o (CHOOSE digits \in DOMAIN Hex : Hex[digits] = c)
    ELSE <<c>>
Escape(field) == FlattenSeq([i \in DOMAIN field |-> Code(field[i])])
Line(fields) ==
    FlattenSeq([i \in DOMAIN fields |->
                   (IF i = 1 THEN <<>> ELSE <<",">>) \o Escape(fields[i])])

\* A '%' that two hex digits follow is read as one character.
Escaped(str) == Len(str) >= 3 /\ str[1] = "%" /\ SubSeq(str, 2, 3) \in DOMAIN Hex

unescape(str) ==
    LET last(k) == SubSeq(str, Len(str) - k + 1, Len(str))
        ns[k \in 0 .. Len(str)] ==  \* what the last k characters become
            IF k = 0 THEN <<>>
            ELSE IF Escaped(last(k)) THEN <<Hex[SubSeq(last(k), 2, 3)]>> \o ns[k - 3]
            ELSE <<Head(last(k))>> \o ns[k - 1]
    IN  ns[Len(str)]

\* No client writes a '%' with something else behind it.
Malformed(str) ==
    \E i \in 1 .. Len(str) : str[i] = "%" /\ ~ Escaped(SubSeq(str, i, Len(str)))

\* No token is empty, as with strtok.
Extend_(tokens, c) ==
    IF c = "," THEN IF Last(tokens) = <<>> THEN tokens ELSE Append(tokens, <<>>)
    ELSE [tokens EXCEPT ![Len(tokens)] = Append(@, c)]

\* One more character goes to the last token, or a comma begins another one.
Extend(tokens, c) ==
    IF c = "," THEN Append(tokens, <<>>)
    ELSE [tokens EXCEPT ![Len(tokens)] = Append(@, c)]

\* get_token, until there is no string left.
Tokens(s) ==
    LET split[i \in 0 .. Len(s)] ==
            IF i = 0 THEN << <<>> >> ELSE Extend(split[i - 1], s[i])
    IN  split[Len(s)]

\* How many tokens are looked at, the name included; another name is ignored.
Needed(name) ==
    CASE name \in {<<"FOCUS">>, <<"DESTROY">>, <<"SPAWN">>, <<"PERSISTENT">>} -> 3
      [] name \in {<<"STATE">>, <<"ZCHANGE">>} -> 4
      [] name = <<"POSITION">> -> 7
      [] OTHER -> 1

\* A missing token is a NULL pointer.  After the last token that is
\* taken p points into the string that is then given to free.
Falls(tokens) == Len(tokens) < Needed(tokens[1])
Spoils(tokens) == Len(tokens) > MaxTokens
=============================================================================
