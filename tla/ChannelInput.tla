---------------------------- MODULE ChannelInput ----------------------------
(***************************************************************************)
(* The way of a command from the client into the shell: the client writes  *)
(* lines, the virtual channel gives them to vchannel_read in pieces of any *)
(* size (ServerExe/vchannel.c), which keeps what is not a whole line yet   *)
(* in a static buffer, and process_cmds takes them apart.                  *)
(***************************************************************************)
EXTENDS Commands

CONSTANTS
    ClientCommands,     \* what the client sends, as sequences of fields
    SIZE,               \* VCHANNEL_MAX_LINE
    NUL,                \* '\0'
    MaxCommands,        \* bound: commands on a connection
    MaxCuts             \* bound: connections that break off

\* A client's command has a name and the fields that go with it.
ASSUME InputAssumption ==
    /\ SIZE \in Nat \ {0} /\ MaxCommands \in Nat /\ MaxCuts \in Nat
    /\ NUL \notin Symbols
    /\ ClientCommands \subseteq Seq(Seq(Symbols)) \ {<<>>}
    /\ \A c \in ClientCommands : "," \notin ToSet(c[1]) /\ Len(c) >= Needed(c[1])

VARIABLES
    said,       \* the commands of the client on this connection
    wire,       \* what of them has not been read
    buffer, size, overflow_mode,    \* vchannel_read's static variables
    got,        \* the lines vchannel_read has returned on this connection
    handled,    \* the tokens process_cmds has made of them
    cuts,       \* connections that have broken off
    left,       \* history: what the last one left in the buffer, and was it in
    lost,       \*          overflow mode?
    torn,       \*          has one left a part of a line?
    crashed     \* has the shell fallen over a command?

bufferVars == <<buffer, size, overflow_mode>>
shellVars == <<got, handled, crashed>>
cutVars == <<cuts, left, lost, torn>>
inputVars == <<said, wire, bufferVars, shellVars, cutVars>>

InputInit ==
    /\ said = <<>> /\ wire = <<>>
    /\ buffer = [i \in 1 .. SIZE |-> NUL] /\ size = 0 /\ overflow_mode = FALSE
    /\ got = <<>> /\ handled = <<>> /\ crashed = FALSE
    /\ cuts = 0 /\ left = <<>> /\ lost = FALSE /\ torn = FALSE

-----------------------------------------------------------------------------
Text == [c \in ClientCommands |-> Line(c) \o <<NL>>]
TextOf(cs) == FlattenSeq([i \in DOMAIN cs |-> Text[cs[i]]])

Say(c) ==
    /\ ~ crashed /\ Len(said) < MaxCommands
    /\ said' = Append(said, c)
    /\ wire' = wire \o Text[c]
    /\ UNCHANGED <<bufferVars, shellVars, cutVars>>

\* The connection breaks off and a client comes back; vchannel_reopen does not
\* touch the buffer.
Cut ==
    /\ ~ crashed /\ cuts < MaxCuts /\ cuts' = cuts + 1
    /\ wire' = <<>> /\ said' = <<>> /\ got' = <<>> /\ handled' = <<>>
    /\ left' = SubSeq(buffer, 1, size) /\ lost' = overflow_mode
    /\ torn' = (torn \/ (size # 0 /\ buffer[size] # NL))
    /\ UNCHANGED <<bufferVars, crashed>>

-----------------------------------------------------------------------------
(* vchannel_read.  A state of the buffer is a record [b, size, overflow].  *)

\* strchr(buffer, '\n'): also what is in the buffer from earlier lines is seen.
\* Behind the buffer it may find anything, at a place that does not count.
Newline(b) ==
    LET i == SelectInSeq(b, LAMBDA c : c \in {NL, NUL})
    IN  IF i # 0 /\ b[i] = NL THEN i ELSE 0

\* memmove(buffer, newline + 1, n)
Shifted(b, newline, n) == [i \in DOMAIN b |-> IF i <= n THEN b[newline + i] ELSE b[i]]

\* The end of an overlong line is looked for in all of the buffer.
Filled_(n) ==
    LET b == [i \in 1 .. SIZE |-> IF i \in size + 1 .. size + n THEN wire[i - size] ELSE buffer[i]]
        newline == Newline(b)
    IN  IF ~ overflow_mode THEN [b |-> b, size |-> size + n, overflow |-> FALSE]
        ELSE IF newline = 0 THEN [b |-> b, size |-> size, overflow |-> TRUE]
        ELSE [b |-> b, size |-> n, overflow |-> FALSE]

\* n symbols are read behind the first size ones.  In overflow mode they are
\* dropped up to the end of the line.
Filled(n) ==
    LET b == [i \in 1 .. SIZE |-> IF i \in size + 1 .. size + n THEN wire[i - size] ELSE buffer[i]]
        newline == Newline(b)
    IN  IF ~ overflow_mode THEN [b |-> b, size |-> size + n, overflow |-> FALSE]
        ELSE IF newline = 0 \/ newline > n THEN [b |-> b, size |-> size, overflow |-> TRUE]
        ELSE [b |-> Shifted(b, newline, n - newline), size |-> n - newline, overflow |-> FALSE]

\* A full buffer without a newline: the rest of the line is dropped.
NoLine(s) ==
    IF ~ s.overflow /\ s.size = SIZE THEN [s EXCEPT !.size = 0, !.overflow = TRUE] ELSE s

\* A line is taken only when a newline was in the symbols that have just come.
HasLine_(s) == ~ s.overflow /\ Newline(s.b) > size /\ Newline(s.b) <= s.size
HasLine(s) == ~ s.overflow /\ Newline(s.b) # 0 /\ Newline(s.b) <= s.size

Rest(s) ==
    LET newline == Newline(s.b)
        n == s.size - newline
    IN  [s EXCEPT !.b = Shifted([@ EXCEPT ![newline] = NUL], newline, n), !.size = n]

Becomes(s) == buffer' = s.b /\ size' = s.size /\ overflow_mode' = s.overflow

\* process_cmds, for one line; what a spoilt heap or half an escape leads to is
\* open.
process_cmds(line) ==
    \E tokens \in {Tokens(unescape(line))} :
        /\ got' = Append(got, line)
        /\ handled' = Append(handled, tokens)
        /\ \/ crashed' = Falls(tokens)
           \/ Spoils(tokens) /\ crashed' = TRUE
           \/ Malformed(line) /\ crashed' = TRUE

\* What is on the wire comes in pieces of any size, but never past the buffer.
ReadSizes == IF wire = <<>> THEN {0} ELSE {n \in 1 .. SIZE - size : n <= Len(wire)}

\* One call; a read that finds nothing and fails changes nothing.
vchannel_read ==
    /\ ~ crashed
    /\ \E n \in ReadSizes : \E s \in {Filled(n)} :
          /\ wire' = SubSeq(wire, n + 1, Len(wire))
          /\ \/ ~ HasLine(s) /\ Becomes(NoLine(s)) /\ UNCHANGED shellVars
             \/ /\ HasLine(s)
                /\ \E rest \in {Rest(s)}, line \in {SubSeq(s.b, 1, Newline(s.b) - 1)} :
                      Becomes(rest) /\ process_cmds(line)
    /\ UNCHANGED <<said, cutVars>>

InputNext == (\E c \in ClientCommands : Say(c)) \/ Cut \/ vchannel_read

\* The main loop calls process_cmds in each turn.  That a call with nothing on
\* the wire does not fail for ever is needed: a failing one does not look at
\* the lines that are in the buffer already.
InputFairness == WF_inputVars(vchannel_read)

InputSpec == InputInit /\ [][InputNext]_inputVars /\ InputFairness

-----------------------------------------------------------------------------
(* Properties.                                                             *)

\* What a reader knows of a stream: the whole lines, what there is of another
\* one, and whether that is to be dropped, as it does not fit into the buffer
\* with its newline.
Feed(known, c) ==
    IF c = NL THEN [done |-> IF known.skip THEN known.done ELSE Append(known.done, known.part),
                    part |-> <<>>, skip |-> FALSE]
    ELSE IF known.skip \/ Len(known.part) = SIZE - 1 THEN [known EXCEPT !.part = <<>>, !.skip = TRUE]
    ELSE [known EXCEPT !.part = Append(@, c)]
Scan(known, stream) ==
    LET after[i \in 0 .. Len(stream)] == IF i = 0 THEN known ELSE Feed(after[i - 1], stream[i])
    IN  after[Len(stream)]

\* skip: the stream begins with the rest of a line that does not fit.
LinesOf(stream, skip) == Scan([done |-> <<>>, part |-> <<>>, skip |-> skip], stream).done
Due == LinesOf(left \o TextOf(said), lost)
ToCome == LinesOf(SubSeq(buffer, 1, size) \o wire, overflow_mode)

\* However the lines come in pieces, each that fits is returned once, whole and
\* in order, and nothing of an overlong one (lines 241-278), whatever older
\* lines have left in the buffer.  A client that comes back after a connection
\* that broke off finds its lines behind what that one left there.
LinesAreTheCommands == got \o ToCome = Due

\* Fields come out as the client meant them, escaped characters too, unless
\* there is a comma among these: the line is unescaped before it is split
\* (lines 369-378).
FieldsArrive ==
    \A i \in DOMAIN got, c \in ClientCommands :
        got[i] \o <<NL>> = Text[c] /\ (\A j \in DOMAIN c : "," \notin ToSet(c[j]))
            => handled[i] = c

\* What the client says is what process_cmds has to carry out.
CommandsArrive == LinesAreTheCommands /\ FieldsArrive

\* The shell falls over a client's command only if its escaped commas make more
\* tokens of it than are taken (line 402), and over another line only after a
\* connection that broke off in the middle of one (lines 380-400 do not look for
\* missing tokens).
CrashHasACause ==
    crashed => IF \E c \in ClientCommands : Last(got) \o <<NL>> = Text[c]
               THEN Spoils(Last(handled)) ELSE torn

\* Every line that fits is returned at last.
LinesAreRead == []<>(crashed \/ got = Due)
=============================================================================
