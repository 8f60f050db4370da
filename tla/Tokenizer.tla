------------------------------ MODULE Tokenizer ------------------------------
(***************************************************************************)
(* CTokenizer (ClientDLL/tokenizer.cpp).  A string is a sequence of        *)
(* symbols, of which some are delimiters; m_nCurPos counts from 1 here.    *)
(***************************************************************************)
EXTENDS Integers, Sequences, FiniteSetsExt

CTokenizer(cs, delim) == [cs |-> cs, delim |-> delim, curPos |-> 1]

\* The first position from tok.curPos on whose symbol is, or is not, a delimiter.
FirstFrom(tok, curPos, isDelim) ==
    LET cs == tok.cs IN
    Min({i \in curPos .. Len(cs) : (cs[i] \in tok.delim) = isDelim} \cup {Len(cs) + 1})

\* CTokenizer::Next: the next run of symbols between delimiters, if any.
NextToken(tok) ==
    LET start == FirstFrom(tok, tok.curPos, FALSE)
        stop == FirstFrom(tok, start, TRUE)
    IN  [found |-> start <= Len(tok.cs), cs |-> SubSeq(tok.cs, start, stop - 1),
         rest |-> [tok EXCEPT !.curPos = stop]]

\* while ( tok.Next( cs ) ): all tokens from a position on.
Tokens(cs, delim) ==
    LET from[at \in 1 .. Len(cs) + 1] ==
            LET next == NextToken([CTokenizer(cs, delim) EXCEPT !.curPos = at])
            IN  IF next.found THEN <<next.cs>> \o from[next.rest.curPos] ELSE <<>>
    IN  from[1]
=============================================================================
