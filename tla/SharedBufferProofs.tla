------------------------- MODULE SharedBufferProofs -------------------------
(***************************************************************************)
(* Proofs about SharedBuffer, for every ring size, every set of messages   *)
(* and every bound.  The inductive invariant adds to the properties how    *)
(* the history of the writes is framed and where in it the two cursors     *)
(* stand, and, once a writer was killed, what is left of that: the         *)
(* messages before the torn one, until the reader has them.                *)
(***************************************************************************)
EXTENDS SharedBuffer, TLAPS

\* The message being written, and the one being read.
Written == Len(started)
Reading == Len(delivered) + 1

\* The frame of message k in stream: where it begins, what it holds.
Framing ==
    /\ Len(at) = Written
    /\ Written = 0 => Len(stream) = 0
    /\ Written > 0 => at[1] = 0
    /\ \A k \in 1 .. Written - 1 : /\ at[k + 1] = at[k] + Size(started[k])
                                   /\ at[k] + Size(started[k]) <= at[Written]
    /\ \A k \in 1 .. Written : \A j \in 1 .. Size(started[k]) :
          at[k] + j <= Len(stream) => stream[at[k] + j] = Byte(started[k], j)

\* The copy loops are inside their strings.
InsideLoops ==
    mode = "writing" => Written > 0 /\ copied < Size(started[Written])

\* Where the writer stands: inside the last message, or at its end.
WriterCursor ==
    /\ mode = "writing" => /\ Len(delivered) < Written
                           /\ Len(stream) = at[Written] + copied
    /\ mode # "writing" /\ Written > 0 =>
          Len(stream) = at[Written] + Size(started[Written])
    /\ \A k \in 1 .. Written : k < Written \/ mode # "writing" =>
          at[k] + Size(started[k]) <= Len(stream)

\* Where the reader stands: at the start of a message that is not read yet,
\* or in one of the two strings of a complete message.
AtBoundary ==
    consumed = IF Reading <= Written THEN at[Reading] ELSE Len(stream)

IsPrefixOf(s, t) == Len(s) <= Len(t) /\ \A i \in 1 .. Len(s) : s[i] = t[i]

InMessage(m) ==
    \/ /\ field = "command"
       /\ consumed = at[Reading] + Len(command)
       /\ IsPrefixOf(command, m.command)
       /\ args = <<>>
    \/ /\ field = "args"
       /\ consumed = at[Reading] + Len(m.command) + 1 + Len(args)
       /\ command = m.command
       /\ IsPrefixOf(args, m.args)

ReaderCursor ==
    /\ Len(delivered) <= Written
    /\ mode # "reading" => AtBoundary
    /\ mode = "reading" => Reading <= Written /\ InMessage(started[Reading])

\* While no writer has been killed: every byte and every message.
Whole ==
    /\ mode # "torn"
    /\ UnreadIntact
    /\ Framing
    /\ WriterCursor
    /\ ReaderCursor
    /\ DeliveredInOrder

\* Once one was killed: the messages before the torn one are complete in the
\* stream, and the part of them that is not read yet is still in the ring,
\* whatever the writers have put behind the torn message since.  Where the
\* reader stands matters only until it comes to that message.
CompleteFrames ==
    /\ torn \in 1 .. Written /\ Len(at) = Written
    /\ at[torn] <= Len(stream)
    /\ \A k \in 1 .. torn - 1 :
          /\ at[k + 1] = at[k] + Size(started[k])
          /\ at[k] + Size(started[k]) <= at[torn]
          /\ \A j \in 1 .. Size(started[k]) : stream[at[k] + j] = Byte(started[k], j)

StillThere ==
    /\ at[torn] <= consumed + Used
    /\ \A c \in Cells : consumed + Ahead(c) < at[torn] =>
          data[c] = stream[consumed + Ahead(c) + 1]

Kept ==
    /\ CompleteFrames
    /\ Reading < torn => /\ StillThere
                         /\ mode # "reading" => consumed = at[Reading]
                         /\ mode = "reading" => InMessage(started[Reading])

\* The inductive invariant.
IInv ==
    /\ TypeOK /\ InsideLoops /\ RoomForRest
    /\ torn = 0 => Whole
    /\ torn > 0 => Kept

-----------------------------------------------------------------------------
USE DEF Cells

\* Advancing an index: the remainder is a test for the end of the ring.
LEMMA NextCell ==
    ASSUME NEW p \in Cells
    PROVE  /\ Next1(p) \in Cells
           /\ Next1(p) = IF p + 1 = BufferSize THEN 0 ELSE p + 1
BY BufferAssumption DEF Next1

LEMMA SizeIsPositive ==
    ASSUME NEW m \in Messages
    PROVE  /\ Size(m) \in Nat /\ Size(m) >= 3 /\ Size(m) < BufferSize
           /\ m.command \in Seq(Chars) /\ m.args \in Seq(Chars)
           /\ Len(m.command) \in Nat /\ Len(m.args) \in Nat
<1>1. m.command \in Seq(Chars) /\ m.args \in Seq(Chars) /\ m.args # <<>>
  BY CommandsAssumption, ArgsAssumption DEF Messages
<1>2. Len(m.command) \in Nat /\ Len(m.args) \in Nat /\ Len(m.args) > 0
  BY <1>1
<1>3. Size(m) < BufferSize
  BY SizeAssumption
<1>4. Size(m) \in Nat /\ Size(m) >= 3
  BY <1>2 DEF Size, Messages
<1> QED BY <1>1, <1>2, <1>3, <1>4

LEMMA ByteType ==
    ASSUME NEW m \in Messages, NEW j \in 1 .. Size(m)
    PROVE  /\ Byte(m, j) \in Chars \cup {NUL}
           /\ Byte(m, j) = NUL <=> j = Len(m.command) + 1 \/ j = Size(m)
<1>1. /\ m.command \in Seq(Chars) /\ m.args \in Seq(Chars)
      /\ Len(m.command) \in Nat /\ Len(m.args) \in Nat
  BY SizeIsPositive
<1>2. \A i \in 1 .. Len(m.command) : m.command[i] \in Chars
  BY <1>1
<1>3. \A i \in 1 .. Len(m.args) : m.args[i] \in Chars
  BY <1>1
<1> QED BY <1>1, <1>2, <1>3, CharsAssumption DEF Byte, Size, Messages

\* The fit test of vchannel_write, for every state of the two indices: it
\* accepts n bytes exactly if they leave a cell free.
THEOREM FitsExactly ==
    ASSUME pw \in Cells, pr \in Cells
    PROVE  FitsIsExact
<1> SUFFICES ASSUME NEW n \in 1 .. BufferSize - 1
             PROVE  Fits(n) <=> Used + n < BufferSize
  BY DEF FitsIsExact
<1>1. CASE pw + n < BufferSize
  BY <1>1, BufferAssumption DEF Fits, Used, Ahead
<1>2. CASE pw + n >= BufferSize
  <2>1. (pw + n) % BufferSize = pw + n - BufferSize
    BY <1>2, BufferAssumption
  <2> QED BY <1>2, <2>1, BufferAssumption DEF Fits, Used, Ahead
<1> QED BY <1>1, <1>2, BufferAssumption

-----------------------------------------------------------------------------

LEMMA TypeInit == Init => TypeOK /\ InsideLoops
BY BufferAssumption DEF Init, TypeOK, InsideLoops, Written

LEMMA TypeStep ==
    ASSUME TypeOK, InsideLoops, [Next]_vars
    PROVE  TypeOK' /\ InsideLoops'
<1> USE DEF TypeOK, InsideLoops, Written
<1>1. ASSUME NEW m \in Messages, WriteStart(m)
      PROVE  TypeOK' /\ InsideLoops'
  <2>1. Size(m) \in Nat /\ Size(m) > 0
    BY SizeIsPositive
  <2>2. /\ Len(started') = Len(started) + 1
        /\ started'[Len(started')] = m
        /\ started' \in Seq(Messages)
        /\ at' \in Seq(Nat)
    BY <1>1 DEF WriteStart
  <2> QED BY <1>1, <2>1, <2>2 DEF WriteStart, ringVars, readerVars
<1>2. CASE WriteByte
  <2> DEFINE m == started[Len(started)]
  <2>1. m \in Messages /\ Size(m) \in Nat /\ copied + 1 \in 1 .. Size(m)
    <3>1. Len(started) \in 1 .. Len(started)
      BY <1>2 DEF WriteByte
    <3>2. m \in Messages
      BY <3>1
    <3> QED BY <1>2, <3>2, SizeIsPositive DEF WriteByte
  <2>2. Byte(m, copied + 1) \in Chars \cup {NUL}
    BY <2>1, ByteType
  <2>3. Next1(pw) \in Cells
    BY NextCell
  <2>4. stream' \in Seq(Chars \cup {NUL})
    BY <1>2, <2>2 DEF WriteByte
  <2>5. data' \in [Cells -> Chars \cup {NUL}]
    BY <1>2, <2>2 DEF WriteByte
  <2>6. started' = started /\ mode' = "writing" => copied' < Size(m)
    BY <1>2, <2>1 DEF WriteByte
  <2>7. InsideLoops'
    BY <2>1, <2>6, <1>2 DEF WriteByte
  <2>8. TypeOK'
    BY <1>2, <2>3, <2>4, <2>5 DEF WriteByte, readerVars
  <2> QED BY <2>7, <2>8
<1>3. CASE ReadStart
  BY <1>3 DEF ReadStart, ringVars, writerVars
<1>4. CASE ReadNothing
  BY <1>4 DEF ReadNothing, ringVars, writerVars, readerVars
<1>5. CASE ReadByte
  <2>1. Next1(pr) \in Cells
    BY NextCell
  <2>2. data[pr] \in Chars \cup {NUL}
    OBVIOUS
  <2>3. CASE ReadChar
    <3>1. data[pr] \in Chars
      BY <2>2, <2>3 DEF ReadChar
    <3>2. /\ Append(command, data[pr]) \in Seq(Chars)
          /\ Append(args, data[pr]) \in Seq(Chars)
      BY <3>1
    <3>3. command' \in Seq(Chars) /\ args' \in Seq(Chars)
      BY <3>2, <2>3 DEF ReadChar
    <3> QED BY <1>5, <2>1, <3>3, <2>3 DEF ReadByte, ReadChar, writerVars
  <2>4. CASE EndOfCommand
    BY <1>5, <2>1, <2>4 DEF ReadByte, EndOfCommand, writerVars
  <2>5. CASE EndOfArgs
    BY <1>5, <2>1, <2>5 DEF ReadByte, EndOfArgs, writerVars
  <2> QED BY <1>5, <2>3, <2>4, <2>5 DEF ReadByte
<1>6. CASE Crash
  BY <1>6 DEF Crash, ringVars, writerVars, readerVars
<1>7. CASE UNCHANGED vars
  BY <1>7 DEF vars, ringVars, writerVars, readerVars
<1> QED BY <1>1, <1>2, <1>3, <1>4, <1>5, <1>6, <1>7 DEF Next

\* Type correctness, crashes included.
THEOREM TypeCorrect == Spec => []TypeOK
<1>1. Init => TypeOK /\ InsideLoops
  BY TypeInit
<1>2. TypeOK /\ InsideLoops /\ [Next]_vars => (TypeOK /\ InsideLoops)'
  BY TypeStep
<1> QED BY <1>1, <1>2, PTL DEF Spec

\* The fit test is exact in every reachable state, crashes included.
THEOREM FitsIsAlwaysExact == Spec => []FitsIsExact
<1>1. TypeOK => FitsIsExact
  BY FitsExactly DEF TypeOK
<1> QED BY <1>1, TypeCorrect, PTL

-----------------------------------------------------------------------------
\* What one turn of a copy loop does to the geometry of the ring.
LEMMA AdvanceWrite ==
    ASSUME pw \in Cells, pr \in Cells, Used + 1 < BufferSize,
           pw' = Next1(pw), pr' = pr
    PROVE  /\ Used' = Used + 1
           /\ \A c \in Cells : Ahead(c)' = Ahead(c) /\ (Ahead(c) = Used <=> c = pw)
<1>1. Next1(pw) = IF pw + 1 = BufferSize THEN 0 ELSE pw + 1
  BY NextCell
<1> QED BY <1>1, BufferAssumption DEF Used, Ahead

\* And one turn of a read loop.
LEMMA AdvanceRead ==
    ASSUME pw \in Cells, pr \in Cells, Used > 0, pr' = Next1(pr), pw' = pw
    PROVE  /\ Used' = Used - 1
           /\ \A c \in Cells : IF c = pr THEN Ahead(c)' = BufferSize - 1
                                          ELSE Ahead(c)' = Ahead(c) - 1
<1>1. Next1(pr) = IF pr + 1 = BufferSize THEN 0 ELSE pr + 1
  BY NextCell
<1> QED BY <1>1, BufferAssumption DEF Used, Ahead

LEMMA UsedRange ==
    ASSUME pw \in Cells, pr \in Cells
    PROVE  /\ Used \in 0 .. BufferSize - 1
           /\ Used = 0 <=> pw = pr
           /\ Ahead(pr) = 0
           /\ \A c \in Cells : Ahead(c) \in 0 .. BufferSize - 1
BY BufferAssumption DEF Used, Ahead

LEMMA InvInit == Init => IInv
<1> SUFFICES ASSUME Init PROVE IInv
  OBVIOUS
<1>1. TypeOK /\ InsideLoops
  BY TypeInit
<1>2. Used = 0 /\ \A c \in Cells : Ahead(c) \in 0 .. BufferSize - 1
  BY <1>1, UsedRange DEF Init, TypeOK
<1>3. Whole
  BY <1>2 DEF Init, Whole, UnreadIntact, Framing, WriterCursor,
     ReaderCursor, AtBoundary, DeliveredInOrder, Written, Reading
<1>4. RoomForRest /\ torn = 0
  BY DEF Init, RoomForRest
<1> QED BY <1>1, <1>3, <1>4 DEF IInv

\* The room for the rest of a message is there, whether or not a writer was
\* killed before: the test is made with the mutex held, and nobody else moves
\* an index until the message is complete.
LEMMA RoomStep ==
    ASSUME TypeOK, InsideLoops, RoomForRest, [Next]_vars
    PROVE  RoomForRest'
<1>1. /\ pw \in Cells /\ pr \in Cells /\ Used \in Nat
      /\ started \in Seq(Messages) /\ Len(started) \in Nat /\ copied \in Nat
  BY UsedRange DEF TypeOK
<1>2. ASSUME NEW m \in Messages, WriteStart(m) PROVE RoomForRest'
  <2>1. Size(m) \in 1 .. BufferSize - 1
    BY SizeIsPositive, BufferAssumption
  <2>2. Used + Size(m) < BufferSize
    BY <1>1, <1>2, <2>1, FitsExactly DEF WriteStart, FitsIsExact
  <2>3. Used' = Used /\ copied' = 0 /\ started'[Len(started')] = m
    BY <1>1, <1>2 DEF WriteStart, ringVars, Used, Ahead
  <2> QED BY <1>1, <2>1, <2>2, <2>3 DEF RoomForRest
<1>3. CASE WriteByte
  <2> DEFINE m == started[Len(started)]
  <2>1. /\ mode = "writing" /\ pw' = Next1(pw) /\ pr' = pr
        /\ copied' = copied + 1 /\ started' = started
    BY <1>3 DEF WriteByte
  <2>2. Used + (Size(m) - copied) < BufferSize /\ copied < Size(m)
    BY <2>1 DEF RoomForRest, InsideLoops, Written
  <2>3. m \in Messages
    BY <1>1, <2>1 DEF InsideLoops, Written
  <2>4. Size(m) \in Nat
    BY <2>3, SizeIsPositive
  <2> HIDE DEF m
  <2>5. Used' = Used + 1
    BY <1>1, <2>1, <2>2, <2>4, BufferAssumption, AdvanceWrite
  <2>6. Used' + (Size(m) - copied') < BufferSize
    BY <1>1, <2>1, <2>2, <2>4, <2>5, BufferAssumption
  <2> QED BY <2>1, <2>6 DEF RoomForRest, m
<1>4. CASE UNCHANGED vars
  BY <1>4 DEF vars, ringVars, writerVars, RoomForRest, Used, Ahead
<1>5. CASE ReadStart \/ ReadNothing \/ ReadByte \/ Crash
  <2>1. mode' # "writing"
    BY <1>5 DEF ReadStart, ReadNothing, ReadByte, ReadChar, EndOfCommand,
       EndOfArgs, Crash
  <2> QED BY <2>1 DEF RoomForRest
<1> QED BY <1>2, <1>3, <1>4, <1>5 DEF Next

LEMMA WriteStartStep ==
    ASSUME TypeOK, Whole, torn = 0, NEW m \in Messages, WriteStart(m)
    PROVE  Whole'
<1>1. /\ Size(m) \in Nat /\ Size(m) >= 3 /\ Size(m) < BufferSize
  BY SizeIsPositive
<1>2. /\ started' = Append(started, m) /\ at' = Append(at, Len(stream))
      /\ started \in Seq(Messages) /\ at \in Seq(Nat) /\ Len(stream) \in Nat
      /\ Len(at) = Len(started) /\ Len(started) \in Nat
  BY DEF WriteStart, TypeOK, Whole, Framing, Written
<1>3. /\ Len(started') = Len(started) + 1 /\ Len(at') = Len(at) + 1
      /\ started'[Len(started) + 1] = m /\ at'[Len(started) + 1] = Len(stream)
      /\ \A k \in 1 .. Len(started) : started'[k] = started[k] /\ at'[k] = at[k]
  BY <1>2
<1>4. /\ mode = "idle" /\ mode' = "writing" /\ copied' = 0
      /\ UNCHANGED <<data, pw, pr, field, command, args, delivered, consumed,
                     stream, torn>>
  BY DEF WriteStart, ringVars, readerVars
<1>5. UnreadIntact'
  BY <1>4 DEF Whole, UnreadIntact, Used, Ahead
<1>7. Framing'
  <2>1. Len(stream) = IF Written = 0 THEN 0 ELSE at[Written] + Size(started[Written])
    BY <1>4 DEF Whole, Framing, WriterCursor
  <2>2. Len(at') = Written' /\ Written' = Written + 1
    BY <1>2, <1>3 DEF Written
  <2>3. at'[1] = 0
    BY <1>2, <1>3, <2>1 DEF Whole, Framing, Written
  <2>4. ASSUME NEW k \in 1 .. Written' - 1
        PROVE  /\ at'[k + 1] = at'[k] + Size(started'[k])
               /\ at'[k] + Size(started'[k]) <= at'[Written']
    <3> SUFFICES at'[k + 1] = at'[k] + Size(started'[k])
      <4>1. k \in 1 .. Written /\ at'[Written'] = Len(stream)
        BY <1>2, <1>3, <2>2 DEF Written
      <4>2. at[k] + Size(started[k]) <= Len(stream)
        BY <1>4, <4>1 DEF Whole, WriterCursor
      <4> QED BY <1>3, <4>1, <4>2 DEF Written
    <3>1. CASE k = Written
      BY <1>2, <1>3, <2>1, <2>2, <3>1 DEF Written
    <3>2. CASE k \in 1 .. Written - 1
      BY <1>2, <1>3, <2>2, <3>2 DEF Whole, Framing, Written
    <3> QED BY <1>2, <2>2, <2>4, <3>1, <3>2 DEF Written
  <2>5. ASSUME NEW k \in 1 .. Written', NEW j \in 1 .. Size(started'[k]),
               at'[k] + j <= Len(stream)
        PROVE  stream[at'[k] + j] = Byte(started'[k], j)
    <3>1. CASE k = Written'
      BY <1>1, <1>2, <1>3, <2>2, <2>5, <3>1 DEF Written
    <3>2. CASE k \in 1 .. Written
      BY <1>2, <1>3, <2>2, <2>5, <3>2 DEF Whole, Framing, Written
    <3> QED BY <1>2, <2>2, <2>5, <3>1, <3>2 DEF Written
  <2>6. Written \in Nat /\ stream' = stream
    BY <1>2, <1>4 DEF Written
  <2> QED BY <2>2, <2>3, <2>4, <2>5, <2>6 DEF Framing
<1>8. WriterCursor'
  <2>1. Written' = Written + 1 /\ Written \in Nat /\ Len(delivered) \in Nat
    BY <1>2, <1>3 DEF Written, TypeOK
  <2>2. \A k \in 1 .. Written : at'[k] + Size(started'[k]) <= Len(stream)
    BY <1>3, <1>4 DEF Whole, WriterCursor, Written
  <2>3. Len(delivered) <= Written
    BY DEF Whole, ReaderCursor
  <2> QED BY <1>2, <1>3, <1>4, <2>1, <2>2, <2>3 DEF WriterCursor, Written
<1>9. ReaderCursor'
  <2>1. Len(delivered) \in Nat /\ Len(delivered) <= Len(started)
    BY <1>2 DEF Whole, ReaderCursor, TypeOK, Written
  <2> QED BY <1>2, <1>3, <1>4, <2>1 DEF Whole, ReaderCursor, AtBoundary, Reading, Written
<1>10. DeliveredInOrder'
  <2>1. /\ Len(delivered) \in Nat /\ Len(delivered) <= Len(started)
        /\ \A k \in 1 .. Len(delivered) : delivered[k] = started[k]
    BY DEF Whole, DeliveredInOrder, TypeOK
  <2>2. \A k \in 1 .. Len(delivered) : delivered[k] = started'[k]
    BY <1>2, <1>3, <2>1
  <2> QED BY <1>2, <1>3, <1>4, <2>1, <2>2 DEF DeliveredInOrder
<1> QED BY <1>4, <1>5, <1>7, <1>8, <1>9, <1>10 DEF Whole

LEMMA WriteByteStep ==
    ASSUME TypeOK, InsideLoops, RoomForRest, Whole, torn = 0, WriteByte
    PROVE  Whole'
<1> DEFINE m == started[Written]
           b == Byte(m, copied + 1)
<1>1. /\ m \in Messages /\ Size(m) \in Nat /\ copied + 1 \in 1 .. Size(m)
      /\ Written \in Nat /\ Written > 0
  <2>1. Len(started) \in 1 .. Len(started)
    BY DEF WriteByte, InsideLoops, TypeOK, Written
  <2>2. m \in Messages
    BY <2>1 DEF TypeOK, Written
  <2>3. Size(m) \in Nat
    BY <2>2, SizeIsPositive
  <2>4. copied \in Nat /\ copied < Size(m)
    BY DEF WriteByte, InsideLoops, TypeOK
  <2>5. Written \in Nat /\ Written > 0
    BY <2>1 DEF Written
  <2> HIDE DEF m
  <2> QED BY <2>2, <2>3, <2>4, <2>5
<1>2. /\ mode = "writing" /\ data' = [data EXCEPT ![pw] = b]
      /\ pw' = Next1(pw) /\ copied' = copied + 1 /\ stream' = Append(stream, b)
      /\ mode' = IF copied + 1 = Size(m) THEN "idle" ELSE "writing"
      /\ UNCHANGED <<pr, field, command, args, delivered, consumed, started, at, torn>>
  BY DEF WriteByte, Written, readerVars
<1>3. /\ Len(stream') = Len(stream) + 1 /\ Len(stream) \in Nat
      /\ stream'[Len(stream) + 1] = b
      /\ \A i \in 1 .. Len(stream) : stream'[i] = stream[i]
  BY <1>2 DEF TypeOK
<1>4. /\ pw \in Cells /\ pr \in Cells /\ consumed \in Nat /\ Used \in Nat
      /\ \A c \in Cells : Ahead(c) \in Nat
  BY UsedRange DEF TypeOK
<1>5. Used + (Size(m) - copied) < BufferSize
  BY <1>2 DEF RoomForRest, Written
<1>6. /\ Used' = Used + 1
      /\ \A c \in Cells : Ahead(c)' = Ahead(c) /\ (Ahead(c) = Used <=> c = pw)
  <2>1. Used + 1 < BufferSize
    <3>1. copied \in Nat /\ Size(m) \in Nat /\ copied < Size(m)
      BY <1>1 DEF TypeOK
    <3> HIDE DEF m
    <3> QED BY <1>4, <1>5, <3>1, BufferAssumption
  <2> QED BY <1>2, <1>4, <2>1, AdvanceWrite
<1>7. UnreadIntact'
  <2>1. Len(stream) = consumed + Used
    BY DEF Whole, UnreadIntact
  <2>2. ASSUME NEW c \in Cells, Ahead(c)' < Used'
        PROVE  data'[c] = stream'[consumed + Ahead(c)' + 1]
    <3>1. CASE c = pw
      BY <1>2, <1>3, <1>4, <1>6, <2>1, <3>1 DEF TypeOK
    <3>2. CASE c # pw
      <4>1. Ahead(c) < Used /\ Ahead(c)' = Ahead(c)
        BY <1>4, <1>6, <2>2, <3>2
      <4>2. data[c] = stream[consumed + Ahead(c) + 1]
        BY <4>1 DEF Whole, UnreadIntact
      <4>3. consumed + Ahead(c) + 1 \in 1 .. Len(stream)
        BY <1>4, <2>1, <4>1
      <4>4. data'[c] = data[c]
        BY <1>2, <3>2 DEF TypeOK
      <4> QED BY <1>3, <4>1, <4>2, <4>3, <4>4
    <3> QED BY <3>1, <3>2
  <2>3. Len(stream') = consumed' + Used'
    BY <1>2, <1>3, <1>4, <1>6, <2>1
  <2>4. consumed' = consumed
    BY <1>2
  <2> QED BY <2>2, <2>3, <2>4 DEF UnreadIntact
<1>9. /\ Len(stream) = at[Written] + copied /\ Len(delivered) < Written
      /\ Written' = Written
  BY <1>2 DEF Whole, WriterCursor, Written
<1>10. /\ \A k \in 1 .. Written : at[k] \in Nat /\ Size(started[k]) \in Nat
       /\ \A k \in 1 .. Written - 1 : at[k] + Size(started[k]) <= Len(stream)
       /\ at[Written] \in Nat /\ copied \in Nat
  <2>1. Len(at) = Written
    BY DEF Whole, Framing
  <2>2. \A k \in 1 .. Written : at[k] \in Nat /\ started[k] \in Messages
    BY <2>1 DEF TypeOK, Written
  <2>3. at[Written] \in Nat /\ copied \in Nat
    BY <1>1, <2>2 DEF TypeOK
  <2> QED BY <1>1, <2>2, <2>3, SizeIsPositive DEF Whole, WriterCursor
<1>11. Framing'
  <2>1. ASSUME NEW k \in 1 .. Written, NEW j \in 1 .. Size(started[k]),
               at[k] + j <= Len(stream')
        PROVE  stream'[at[k] + j] = Byte(started[k], j)
    <3>1. CASE at[k] + j <= Len(stream)
      <4>1. stream[at[k] + j] = Byte(started[k], j)
        BY <3>1 DEF Whole, Framing
      <4> QED BY <1>3, <1>10, <3>1, <4>1
    <3>2. CASE at[k] + j = Len(stream) + 1
      <4>1. k = Written
        BY <1>1, <1>10, <3>2
      <4>2. j = copied + 1
        BY <1>9, <1>10, <3>2, <4>1
      <4> QED BY <1>3, <3>2, <4>1, <4>2
    <3> QED BY <1>3, <1>10, <2>1, <3>1, <3>2
  <2>2. /\ Len(at) = Written /\ Written # 0 /\ at[1] = 0
        /\ \A k \in 1 .. Written - 1 : /\ at[k + 1] = at[k] + Size(started[k])
                                       /\ at[k] + Size(started[k]) <= at[Written]
    BY <1>1 DEF Whole, Framing
  <2>3. started' = started /\ at' = at
    BY <1>2
  <2> QED BY <1>9, <2>1, <2>2, <2>3 DEF Framing
<1>12. WriterCursor'
  <2>1. Len(stream') = at[Written] + (copied + 1)
    <3>1. at[Written] \in Nat /\ copied \in Nat
      BY <1>10
    <3>2. Len(stream') = Len(stream) + 1 /\ Len(stream) = at[Written] + copied
      BY <1>3, <1>9
    <3> QED BY <3>1, <3>2
  <2>2. /\ mode' = "writing" => Len(stream') = at[Written] + copied'
        /\ mode' # "writing" => Len(stream') = at[Written] + Size(started[Written])
    BY <1>2, <2>1
  <2>3. ASSUME NEW k \in 1 .. Written, k < Written \/ mode' # "writing"
        PROVE  at[k] + Size(started[k]) <= Len(stream')
    <3>1. CASE k < Written
      <4>1. at[k] + Size(started[k]) <= Len(stream)
        BY <1>1, <1>10, <3>1
      <4> QED BY <1>3, <1>10, <4>1
    <3>2. CASE k = Written /\ mode' # "writing"
      BY <1>1, <1>10, <2>2, <3>2
    <3> QED BY <1>1, <2>3, <3>1, <3>2
  <2>4. started' = started /\ at' = at /\ delivered' = delivered
    BY <1>2
  <2> QED BY <1>9, <2>2, <2>3, <2>4 DEF WriterCursor
<1>13. ReaderCursor'
  <2>1. Reading <= Written /\ consumed = at[Reading]
    <3>1. Len(delivered) < Written
      BY <1>2 DEF Whole, WriterCursor
    <3>2. Reading <= Written
      BY <1>1, <3>1 DEF Reading, TypeOK
    <3>3. AtBoundary
      BY <1>2 DEF Whole, ReaderCursor
    <3> QED BY <3>2, <3>3 DEF AtBoundary
  <2>2. /\ mode' # "reading" /\ Len(delivered') <= Written'
        /\ Reading' = Reading /\ Written' = Written
    BY <1>1, <1>2, <2>1 DEF Reading, Written, TypeOK
  <2>3. AtBoundary'
    BY <1>2, <2>1, <2>2 DEF AtBoundary
  <2> QED BY <2>2, <2>3 DEF ReaderCursor
<1>14. DeliveredInOrder'
  BY <1>2 DEF Whole, DeliveredInOrder
<1>15. mode' # "torn"
  BY <1>2
<1> QED BY <1>7, <1>11, <1>12, <1>13, <1>14, <1>15 DEF Whole

-----------------------------------------------------------------------------

LEMMA PrefixGrows ==
    ASSUME NEW s \in Seq(Chars), NEW t \in Seq(Chars),
           IsPrefixOf(s, t), Len(s) < Len(t)
    PROVE  IsPrefixOf(Append(s, t[Len(s) + 1]), t)
<1> DEFINE u == Append(s, t[Len(s) + 1])
<1>1. /\ Len(u) = Len(s) + 1 /\ Len(s) \in Nat /\ Len(t) \in Nat
      /\ u[Len(s) + 1] = t[Len(s) + 1]
      /\ \A i \in 1 .. Len(s) : u[i] = s[i]
  OBVIOUS
<1>2. \A i \in 1 .. Len(u) : u[i] = t[i]
  BY <1>1 DEF IsPrefixOf
<1> QED BY <1>1, <1>2 DEF IsPrefixOf

LEMMA FullPrefix ==
    ASSUME NEW s \in Seq(Chars), NEW t \in Seq(Chars),
           IsPrefixOf(s, t), Len(s) >= Len(t)
    PROVE  s = t
<1>1. Len(s) = Len(t) /\ Len(s) \in Nat /\ Len(t) \in Nat
  BY DEF IsPrefixOf
<1> QED BY <1>1 DEF IsPrefixOf

LEMMA ReadStartStep ==
    ASSUME TypeOK, Whole, torn = 0, ReadStart
    PROVE  Whole'
<1>1. /\ mode = "idle" /\ mode' = "reading" /\ pr # pw
      /\ field' = "command" /\ command' = <<>> /\ args' = <<>>
      /\ UNCHANGED <<data, pw, pr, copied, started, stream, at, delivered,
                     consumed, torn>>
  BY DEF ReadStart, Whole, ringVars, writerVars
<1>2. Reading <= Written /\ consumed = at[Reading]
  <2>1. Used > 0 /\ Len(stream) = consumed + Used /\ consumed \in Nat
    BY <1>1, UsedRange DEF TypeOK, Whole, UnreadIntact
  <2>2. consumed # Len(stream)
    BY <2>1, UsedRange DEF TypeOK
  <2> QED BY <1>1, <2>2 DEF Whole, ReaderCursor, AtBoundary
<1>3. ReaderCursor'
  <2>1. Reading \in 1 .. Written /\ Reading' = Reading /\ Written' = Written
    BY <1>1, <1>2 DEF Reading, Written, TypeOK
  <2>2. Len(started[Reading].command) \in Nat /\ at[Reading] \in Nat
    <3>1. started[Reading] \in Messages
      BY <2>1 DEF TypeOK, Written
    <3>2. at[Reading] \in Nat
      BY <2>1 DEF TypeOK, Whole, Framing
    <3> QED BY <3>1, <3>2, SizeIsPositive
  <2>3. IsPrefixOf(command', started[Reading].command)
    BY <1>1, <2>2 DEF IsPrefixOf
  <2>4. InMessage(started[Reading])'
    BY <1>1, <1>2, <2>1, <2>2, <2>3 DEF InMessage
  <2>5. Len(delivered) <= Written
    BY DEF Whole, ReaderCursor
  <2> QED BY <1>1, <2>1, <2>4, <2>5, <1>2 DEF ReaderCursor
<1> QED BY <1>1, <1>3 DEF Whole, UnreadIntact, Used, Ahead, Framing,
        WriterCursor, DeliveredInOrder, Written

\* The byte under pr belongs to the message being read, and is the next one
\* of it: the reader depends on the NULs alone, and they are where it looks.
LEMMA ByteRead ==
    ASSUME TypeOK, Whole, torn = 0, mode = "reading",
           NEW m, m = started[Reading]
    PROVE  /\ m \in Messages /\ Reading \in 1 .. Written /\ at[Reading] \in Nat
           /\ consumed < at[Reading] + Size(m) /\ consumed >= at[Reading]
           /\ at[Reading] + Size(m) <= Len(stream) /\ Len(stream) \in Nat
           /\ Used > 0 /\ Used \in Nat /\ Len(stream) = consumed + Used
           /\ data[pr] = Byte(m, consumed - at[Reading] + 1)
<1>1. Reading \in 1 .. Written
  BY DEF Whole, ReaderCursor, Reading, Written, TypeOK
<1>2. m \in Messages
  BY <1>1 DEF TypeOK, Written
<1>3. at[Reading] \in Nat
  BY <1>1 DEF TypeOK, Whole, Framing
<1>4. /\ Size(m) = Len(m.command) + 1 + Len(m.args) + 1
      /\ Len(m.command) \in Nat /\ Len(m.args) \in Nat
  BY <1>2, SizeIsPositive DEF Size
<1>5. at[Reading] + Size(m) <= Len(stream) /\ Len(stream) \in Nat
  BY <1>1 DEF Whole, WriterCursor, TypeOK
<1>6. consumed < at[Reading] + Size(m) /\ consumed >= at[Reading]
  <2> DEFINE lc == Len(m.command)
             la == Len(m.args)
             base == at[Reading]
  <2>1. \/ consumed = base + Len(command) /\ Len(command) <= lc
        \/ consumed = base + lc + 1 + Len(args) /\ Len(args) <= la
    BY DEF Whole, ReaderCursor, InMessage, IsPrefixOf
  <2>2. /\ Size(m) = lc + 1 + la + 1 /\ lc \in Nat /\ la \in Nat /\ base \in Nat
        /\ Len(command) \in Nat /\ Len(args) \in Nat
    <3>1. Len(command) \in Nat /\ Len(args) \in Nat
      BY DEF TypeOK
    <3> QED BY <1>3, <1>4, <3>1
  <2> HIDE DEF lc, la, base
  <2>3. consumed < base + Size(m) /\ consumed >= base
    BY <2>1, <2>2
  <2> QED BY <2>3 DEF base
<1>7. Len(stream) = consumed + Used /\ Used \in Nat /\ consumed \in Nat
  BY UsedRange DEF Whole, UnreadIntact, TypeOK
<1>8. Size(m) \in Nat
  BY <1>2, SizeIsPositive
<1>9. Used > 0
  BY <1>3, <1>5, <1>6, <1>7, <1>8
<1>10. data[pr] = stream[consumed + 1]
  <2>1. Ahead(pr) = 0 /\ pr \in Cells
    BY UsedRange DEF TypeOK
  <2>2. data[pr] = stream[consumed + Ahead(pr) + 1]
    BY <1>9, <2>1 DEF Whole, UnreadIntact
  <2> QED BY <1>7, <2>1, <2>2
<1>11. stream[consumed + 1] = Byte(m, consumed - at[Reading] + 1)
  <2> DEFINE j == consumed - at[Reading] + 1
  <2>1. j \in 1 .. Size(m) /\ at[Reading] + j = consumed + 1
        /\ at[Reading] + j <= Len(stream)
    BY <1>3, <1>5, <1>6, <1>7, <1>8
  <2>2. stream[at[Reading] + j] = Byte(m, j)
    BY <1>1, <2>1 DEF Whole, Framing
  <2> QED BY <2>1, <2>2
<1> QED BY <1>1, <1>2, <1>3, <1>5, <1>6, <1>7, <1>9, <1>10, <1>11

\* One turn of a read loop leaves the rest of the unread bytes as they were.
LEMMA ReadByteKeepsRest ==
    ASSUME TypeOK, Whole, torn = 0, ReadByte
    PROVE  UnreadIntact'
<1>1. /\ mode = "reading" /\ pr' = Next1(pr) /\ consumed' = consumed + 1
      /\ data' = data /\ pw' = pw /\ stream' = stream
  BY DEF ReadByte, writerVars
<1>2. /\ Used > 0 /\ Used \in Nat /\ Len(stream) = consumed + Used
      /\ Used < BufferSize /\ consumed \in Nat
  <2>1. Used > 0 /\ Used \in Nat /\ Len(stream) = consumed + Used
    BY <1>1, ByteRead
  <2>2. Used \in 0 .. BufferSize - 1 /\ consumed \in Nat
    BY UsedRange DEF TypeOK
  <2> QED BY <2>1, <2>2, BufferAssumption
<1>3. /\ Used' = Used - 1
      /\ \A c \in Cells : IF c = pr THEN Ahead(c)' = BufferSize - 1
                                     ELSE Ahead(c)' = Ahead(c) - 1
  BY <1>1, <1>2, AdvanceRead DEF TypeOK
<1>4. Len(stream') = consumed' + Used'
  BY <1>1, <1>2, <1>3
<1>5. ASSUME NEW c \in Cells, Ahead(c)' < Used'
      PROVE  data'[c] = stream'[consumed' + Ahead(c)' + 1]
  <2>1. Ahead(c) \in Nat
    BY UsedRange DEF TypeOK
  <2>2. Ahead(c)' = Ahead(c) - 1 /\ Ahead(c) < Used
    BY <1>2, <1>3, <1>5, <2>1, BufferAssumption
  <2>3. data[c] = stream[consumed + Ahead(c) + 1]
    BY <2>2 DEF Whole, UnreadIntact
  <2>4. consumed' + Ahead(c)' + 1 = consumed + Ahead(c) + 1
    BY <1>1, <1>2, <2>1, <2>2
  <2> QED BY <1>1, <2>3, <2>4
<1> QED BY <1>4, <1>5 DEF UnreadIntact

\* The reader is inside message m, and the byte under pr is m's next one.
ReadingIn(m) ==
    /\ InMessage(m)
    /\ at[Reading] \in Nat
    /\ consumed >= at[Reading] /\ consumed < at[Reading] + Size(m)
    /\ data[pr] = Byte(m, consumed - at[Reading] + 1)

\* Inside a message, the byte read is the next character of the string being
\* read, and NUL exactly at that string's end.
LEMMA CharRead ==
    ASSUME TypeOK, NEW m \in Messages, ReadingIn(m)
    PROVE  /\ field = "command" =>
                IF Len(command) < Len(m.command)
                THEN data[pr] = m.command[Len(command) + 1] /\ data[pr] # NUL
                ELSE data[pr] = NUL /\ command = m.command
           /\ field = "args" =>
                IF Len(args) < Len(m.args)
                THEN data[pr] = m.args[Len(args) + 1] /\ data[pr] # NUL
                ELSE data[pr] = NUL /\ args = m.args
<1> DEFINE lc == Len(m.command)
           la == Len(m.args)
           base == at[Reading]
           j == consumed - base + 1
<1>1. /\ m \in Messages /\ base \in Nat /\ data[pr] = Byte(m, j)
      /\ consumed < base + Size(m) /\ consumed >= base
  BY DEF ReadingIn
<1>2. /\ m.command \in Seq(Chars) /\ m.args \in Seq(Chars)
      /\ lc \in Nat /\ la \in Nat /\ Size(m) \in Nat
      /\ Size(m) = lc + 1 + la + 1
  BY <1>1, SizeIsPositive DEF Size
<1>3. /\ Len(command) \in Nat /\ Len(args) \in Nat /\ consumed \in Nat
      /\ command \in Seq(Chars) /\ args \in Seq(Chars)
  BY DEF TypeOK
<1>4. /\ field = "command" => /\ consumed = base + Len(command)
                              /\ IsPrefixOf(command, m.command)
                              /\ Len(command) <= lc
      /\ field = "args" => /\ consumed = base + lc + 1 + Len(args)
                           /\ IsPrefixOf(args, m.args)
                           /\ Len(args) <= la
  BY DEF ReadingIn, InMessage, IsPrefixOf
<1>5. data[pr] = IF j <= lc THEN m.command[j]
                 ELSE IF j = lc + 1 THEN NUL
                 ELSE IF j < Size(m) THEN m.args[j - lc - 1]
                 ELSE NUL
  BY <1>1 DEF Byte
<1>6. j \in 1 .. Size(m)
  <2>1. Size(m) \in Nat /\ consumed \in Nat
    BY <1>2, <1>3
  <2> HIDE DEF base
  <2> QED BY <1>1, <2>1
<1>7. data[pr] = NUL <=> j = lc + 1 \/ j = Size(m)
  BY <1>1, <1>6, ByteType
<1>8. /\ field = "command" /\ Len(command) >= lc => command = m.command
      /\ field = "args" /\ Len(args) >= la => args = m.args
  BY <1>2, <1>3, <1>4, FullPrefix
<1> HIDE DEF lc, la, base
<1>9. CASE field = "command"
  <2>1. j = Len(command) + 1
    <3>1. base \in Nat /\ Len(command) \in Nat
      BY <1>1, <1>3
    <3>2. consumed = base + Len(command)
      BY <1>4, <1>9
    <3> QED BY <3>1, <3>2
  <2>2. IF Len(command) < lc
        THEN data[pr] = m.command[Len(command) + 1] /\ data[pr] # NUL
        ELSE data[pr] = NUL /\ command = m.command
    BY <1>2, <1>3, <1>4, <1>5, <1>7, <1>8, <1>9, <2>1
  <2> QED BY <1>9, <2>2 DEF lc
<1>10. CASE field = "args"
  <2>1. j = lc + 1 + Len(args) + 1
    <3>1. base \in Nat /\ lc \in Nat /\ Len(args) \in Nat
      BY <1>1, <1>2, <1>3
    <3>2. consumed = base + lc + 1 + Len(args)
      BY <1>4, <1>10
    <3> QED BY <3>1, <3>2
  <2>2. j - lc - 1 = Len(args) + 1
    BY <1>2, <1>3, <2>1
  <2>3. Len(args) <= la /\ j > lc + 1 /\ (j < Size(m) <=> Len(args) < la)
    BY <1>2, <1>3, <1>4, <1>10, <2>1
  <2>4. CASE Len(args) < la
    <3>1. data[pr] # NUL
      BY <1>2, <1>7, <2>3, <2>4
    <3>2. data[pr] = m.args[j - lc - 1]
      BY <1>2, <1>5, <1>6, <2>3, <2>4
    <3> QED BY <1>10, <2>2, <2>4, <3>1, <3>2 DEF la
  <2>5. CASE ~ (Len(args) < la)
    <3>1. Len(args) >= la
      BY <1>2, <1>3, <2>5
    <3>2. j = Size(m)
      <4>1. /\ lc \in Nat /\ la \in Nat /\ Size(m) = lc + 1 + la + 1
            /\ Len(args) \in Nat
        BY <1>2, <1>3
      <4>2. Len(args) = la
        BY <2>3, <3>1, <4>1
      <4> HIDE DEF j
      <4> QED BY <2>1, <4>1, <4>2
    <3> QED BY <1>7, <1>8, <1>10, <2>5, <3>1, <3>2 DEF la
  <2> QED BY <2>4, <2>5
<1> QED BY <1>9, <1>10

\* The three ways a turn of a read loop can end keep the reader inside the
\* message it reads, or finish that message.
Finished(m) ==
    /\ delivered' = Append(delivered, m)
    /\ consumed' = at[Reading] + Size(m)
    /\ field' = "command" /\ command' = <<>> /\ args' = <<>>
    /\ mode' \in {"idle", "reading"}
    /\ mode' = "reading" => Next1(pr) # pw

LEMMA ReadByteInMessage ==
    ASSUME TypeOK, ReadByte, NEW m \in Messages, ReadingIn(m)
    PROVE  \/ InMessage(m)' /\ mode' = "reading" /\ delivered' = delivered
           \/ Finished(m)
<1> DEFINE base == at[Reading]
           lc == Len(m.command)
           la == Len(m.args)
<1>1. mode = "reading" /\ consumed' = consumed + 1 /\ at' = at
  BY DEF ReadByte, writerVars
<1>2. base \in Nat /\ consumed \in Nat /\ InMessage(m)
  BY DEF ReadingIn, TypeOK
<1>3. /\ m.command \in Seq(Chars) /\ m.args \in Seq(Chars)
      /\ lc \in Nat /\ la \in Nat /\ Size(m) = lc + 1 + la + 1
  BY SizeIsPositive DEF Size
<1>4. /\ field = "command" =>
           IF Len(command) < lc
           THEN data[pr] = m.command[Len(command) + 1] /\ data[pr] # NUL
           ELSE data[pr] = NUL /\ command = m.command
      /\ field = "args" =>
           IF Len(args) < la
           THEN data[pr] = m.args[Len(args) + 1] /\ data[pr] # NUL
           ELSE data[pr] = NUL /\ args = m.args
  BY CharRead
<1>5. /\ field = "command" => /\ consumed = base + Len(command) /\ args = <<>>
                              /\ IsPrefixOf(command, m.command)
      /\ field = "args" => /\ consumed = base + lc + 1 + Len(args)
                           /\ command = m.command /\ IsPrefixOf(args, m.args)
      /\ field \in {"command", "args"}
  BY <1>2 DEF InMessage
<1>6. /\ command \in Seq(Chars) /\ args \in Seq(Chars)
      /\ Len(command) \in Nat /\ Len(args) \in Nat
  BY DEF TypeOK
<1>7. ASSUME delivered' = delivered,
             \/ /\ field' = "command" /\ args' = <<>> /\ command' \in Seq(Chars)
                /\ IsPrefixOf(command', m.command)
                /\ consumed' = base + Len(command')
             \/ /\ field' = "args" /\ command' = m.command /\ args' \in Seq(Chars)
                /\ IsPrefixOf(args', m.args)
                /\ consumed' = base + lc + 1 + Len(args')
      PROVE  InMessage(m)'
  BY <1>1, <1>7 DEF InMessage, Reading
<1> HIDE DEF base, lc, la
<1>8. CASE ReadChar
  <2>1. /\ data[pr] # NUL /\ mode' = mode /\ field' = field /\ delivered' = delivered
        /\ IF field = "command"
           THEN command' = Append(command, data[pr]) /\ args' = args
           ELSE args' = Append(args, data[pr]) /\ command' = command
    BY <1>8 DEF ReadChar
  <2>2. CASE field = "command"
    <3>1. /\ command' = Append(command, m.command[Len(command) + 1])
          /\ Len(command) < Len(m.command)
      BY <1>4, <2>1, <2>2 DEF lc
    <3>2. IsPrefixOf(command', m.command)
      BY <1>3, <1>5, <1>6, <2>2, <3>1, PrefixGrows
    <3>3. command' \in Seq(Chars) /\ Len(command') = Len(command) + 1
      BY <1>3, <1>6, <3>1
    <3>4. consumed' = base + Len(command')
      BY <1>1, <1>2, <1>5, <1>6, <2>2, <3>3
    <3> QED BY <1>1, <1>5, <1>7, <2>1, <2>2, <3>2, <3>3, <3>4
  <2>3. CASE field = "args"
    <3>1. /\ args' = Append(args, m.args[Len(args) + 1])
          /\ Len(args) < Len(m.args)
      BY <1>4, <2>1, <2>3 DEF la
    <3>2. IsPrefixOf(args', m.args)
      BY <1>3, <1>5, <1>6, <2>3, <3>1, PrefixGrows
    <3>3. args' \in Seq(Chars) /\ Len(args') = Len(args) + 1
      BY <1>3, <1>6, <3>1
    <3>4. consumed' = base + lc + 1 + Len(args')
      BY <1>1, <1>2, <1>3, <1>5, <1>6, <2>3, <3>3
    <3> QED BY <1>1, <1>5, <1>7, <2>1, <2>3, <3>2, <3>3, <3>4
  <2> QED BY <1>5, <2>2, <2>3
<1>9. CASE EndOfCommand
  <2>1. /\ data[pr] = NUL /\ field = "command" /\ field' = "args" /\ mode' = mode
        /\ command' = command /\ args' = args /\ delivered' = delivered
    BY <1>9 DEF EndOfCommand
  <2>2. command = m.command /\ args = <<>> /\ consumed = base + lc
    BY <1>4, <1>5, <2>1 DEF lc
  <2>3. Len(args') = 0 /\ IsPrefixOf(args', m.args)
    BY <1>3, <2>1, <2>2 DEF IsPrefixOf
  <2>4. consumed' = base + lc + 1 + Len(args')
    BY <1>1, <1>2, <1>3, <2>2, <2>3
  <2> QED BY <1>1, <1>6, <1>7, <2>1, <2>2, <2>3, <2>4
<1>10. CASE EndOfArgs
  <2>1. /\ data[pr] = NUL /\ field = "args"
        /\ delivered' = Append(delivered, [command |-> command, args |-> args])
        /\ field' = "command" /\ command' = <<>> /\ args' = <<>>
        /\ mode' \in {"idle", "reading"}
        /\ mode' = "reading" => Next1(pr) # pw
    BY <1>10 DEF EndOfArgs
  <2>2. command = m.command /\ args = m.args /\ consumed = base + lc + 1 + la
    BY <1>4, <1>5, <2>1 DEF la
  <2>3. delivered' = Append(delivered, m)
    BY <2>1, <2>2 DEF Messages
  <2>4. consumed' = base + Size(m)
    BY <1>1, <1>2, <1>3, <2>2
  <2> QED BY <2>1, <2>3, <2>4 DEF Finished, base
<1> QED BY <1>8, <1>9, <1>10 DEF ReadByte

LEMMA ReadByteMovesReader ==
    ASSUME TypeOK, Whole, torn = 0, ReadByte
    PROVE  ReaderCursor' /\ DeliveredInOrder'
<1>1. /\ mode = "reading" /\ pr' = Next1(pr) /\ consumed' = consumed + 1
      /\ UNCHANGED <<data, pw, copied, started, stream, at, torn>>
  BY DEF ReadByte, writerVars
<1> PICK m : m = started[Reading]
  OBVIOUS
<1>2. /\ m \in Messages /\ Reading \in 1 .. Written /\ at[Reading] \in Nat
      /\ Len(stream) = consumed + Used /\ consumed \in Nat /\ Written \in Nat
      /\ consumed >= at[Reading] /\ consumed < at[Reading] + Size(m)
      /\ data[pr] = Byte(m, consumed - at[Reading] + 1)
  <2>1. consumed \in Nat /\ Written \in Nat
    BY DEF TypeOK, Written
  <2> QED BY <1>1, <2>1, ByteRead
<1>3. InMessage(m) /\ Len(delivered) <= Written /\ DeliveredInOrder
  BY <1>1 DEF Whole, ReaderCursor
<1>4. \/ InMessage(m)' /\ mode' = "reading" /\ delivered' = delivered
      \/ Finished(m)
  <2>1. ReadingIn(m)
    BY <1>2, <1>3 DEF ReadingIn
  <2> QED BY <1>2, <2>1, ReadByteInMessage
<1>5. Written' = Written
  BY <1>1 DEF Written
<1>6. CASE InMessage(m)' /\ mode' = "reading" /\ delivered' = delivered
  BY <1>1, <1>2, <1>3, <1>5, <1>6 DEF ReaderCursor, DeliveredInOrder, Reading
<1>7. CASE Finished(m)
  <2>1. /\ delivered' = Append(delivered, m) /\ consumed' = at[Reading] + Size(m)
        /\ field' = "command" /\ command' = <<>> /\ args' = <<>>
        /\ mode' \in {"idle", "reading"}
        /\ mode' = "reading" => Next1(pr) # pw
    BY <1>7 DEF Finished
  <2>2. /\ Len(delivered') = Reading /\ delivered'[Reading] = m
        /\ \A k \in 1 .. Len(delivered) : delivered'[k] = delivered[k]
        /\ Len(delivered) \in Nat
    BY <2>1 DEF Reading, TypeOK
  <2>3. DeliveredInOrder'
    <3>1. \A k \in 1 .. Len(delivered) : delivered[k] = started[k]
      BY <1>3 DEF DeliveredInOrder
    <3>2. \A k \in 1 .. Reading : delivered'[k] = started[k]
      BY <2>2, <3>1 DEF Reading
    <3> QED BY <1>1, <1>2, <2>2, <3>2 DEF DeliveredInOrder, Written
  <2>4. Reading' = Reading + 1
    BY <2>2 DEF Reading
  <2>5. Reading < Written => consumed' = at[Reading + 1]
    BY <1>2, <2>1 DEF Whole, Framing
  <2>6. Reading = Written => consumed' = Len(stream)
    BY <1>1, <1>2, <2>1 DEF Whole, WriterCursor
  <2>7. AtBoundary'
    BY <1>1, <1>2, <1>5, <2>4, <2>5, <2>6 DEF AtBoundary
  <2>8. mode' = "reading" => Reading < Written
    <3> SUFFICES ASSUME Next1(pr) # pw PROVE consumed' # Len(stream)
      BY <1>2, <2>1, <2>6
    <3>1. Used > 0 /\ pw \in Cells /\ pr \in Cells
      BY <1>1, ByteRead DEF TypeOK
    <3>2. Next1(pr) = IF pr + 1 = BufferSize THEN 0 ELSE pr + 1
      BY <3>1, NextCell
    <3>3. Used > 1 /\ Used \in Nat
      BY <3>1, <3>2, BufferAssumption DEF Used, Ahead
    <3>4. /\ Len(stream) = consumed + Used /\ consumed' = consumed + 1
          /\ consumed \in Nat
      BY <1>1, <1>2
    <3> QED BY <3>3, <3>4
  <2>9. mode' = "reading" => InMessage(started[Reading])'
    <3> SUFFICES ASSUME mode' = "reading" PROVE InMessage(started[Reading])'
      OBVIOUS
    <3>1. /\ Reading + 1 \in 1 .. Written /\ consumed' = at[Reading + 1]
      BY <1>2, <2>5, <2>8
    <3>2. started[Reading + 1] \in Messages /\ at[Reading + 1] \in Nat
      BY <3>1 DEF TypeOK, Whole, Framing, Written
    <3>3. Len(started[Reading + 1].command) \in Nat
      BY <3>2, SizeIsPositive
    <3>4. IsPrefixOf(command', started[Reading + 1].command)
      BY <2>1, <3>3 DEF IsPrefixOf
    <3>5. consumed' = at[Reading + 1] + Len(command')
      BY <2>1, <3>1, <3>2
    <3> QED BY <1>1, <2>1, <2>4, <3>4, <3>5 DEF InMessage
  <2> QED BY <1>2, <1>5, <2>2, <2>3, <2>4, <2>7, <2>8, <2>9 DEF ReaderCursor
<1> QED BY <1>4, <1>6, <1>7

LEMMA ReadByteStep ==
    ASSUME TypeOK, Whole, torn = 0, ReadByte
    PROVE  Whole'
<1>1. /\ mode = "reading" /\ mode' \in {"idle", "reading"}
      /\ UNCHANGED <<started, stream, at, torn>>
  BY DEF ReadByte, ReadChar, EndOfCommand, EndOfArgs, writerVars
<1>2. Framing' /\ WriterCursor'
  BY <1>1 DEF Whole, Framing, WriterCursor, Written
<1> QED BY <1>1, <1>2, ReadByteKeepsRest, ReadByteMovesReader DEF Whole

-----------------------------------------------------------------------------
(***************************************************************************)
(* After a writer was killed.                                              *)
(***************************************************************************)

\* The history of the writes only grows.
LEMMA HistoryGrows ==
    ASSUME TypeOK, Len(at) = Written, [Next]_vars
    PROVE  /\ Written' >= Written /\ Written \in Nat /\ Written' \in Nat
           /\ Len(at') = Written'
           /\ \A k \in 1 .. Written : started'[k] = started[k] /\ at'[k] = at[k]
           /\ Len(stream') >= Len(stream)
           /\ Len(stream) \in Nat /\ Len(stream') \in Nat
           /\ \A i \in 1 .. Len(stream) : stream'[i] = stream[i]
<1>1. /\ started \in Seq(Messages) /\ at \in Seq(Nat)
      /\ Len(started) \in Nat /\ Len(stream) \in Nat
      /\ stream \in Seq(Chars \cup {NUL})
  BY DEF TypeOK
<1>2. ASSUME NEW m \in Messages, WriteStart(m)
      PROVE  /\ started' = Append(started, m) /\ at' = Append(at, Len(stream))
             /\ stream' = stream
  BY <1>2 DEF WriteStart
<1>3. CASE \E m \in Messages : WriteStart(m)
  <2>1. PICK m \in Messages : WriteStart(m)
    BY <1>3
  <2>2. /\ started' = Append(started, m) /\ at' = Append(at, Len(stream))
        /\ stream' = stream
    BY <1>2, <2>1
  <2>3. /\ Len(started') = Len(started) + 1 /\ Len(at') = Len(at) + 1
        /\ \A k \in 1 .. Len(started) : started'[k] = started[k]
        /\ \A k \in 1 .. Len(at) : at'[k] = at[k]
    BY <1>1, <2>2
  <2> QED BY <1>1, <2>2, <2>3 DEF Written
<1>4. CASE WriteByte
  <2>1. /\ started' = started /\ at' = at
        /\ stream' = Append(stream, Byte(started[Len(started)], copied + 1))
    BY <1>4 DEF WriteByte
  <2> QED BY <1>1, <2>1 DEF Written
<1>5. CASE ReadStart \/ ReadNothing \/ ReadByte \/ Crash \/ UNCHANGED vars
  <2>1. started' = started /\ at' = at /\ stream' = stream
    BY <1>5 DEF ReadStart, ReadNothing, ReadByte, Crash, vars, writerVars
  <2> QED BY <1>1, <2>1 DEF Written
<1> QED BY <1>3, <1>4, <1>5 DEF Next

\* A second writer killed is not in the bounds: torn stays what it is.
LEMMA TornStays ==
    ASSUME torn > 0, torn \in Nat, [Next]_vars
    PROVE  torn' = torn
BY DEF Next, WriteStart, WriteByte, ReadStart, ReadNothing, ReadByte, Crash, vars

LEMMA FramesStay ==
    ASSUME TypeOK, torn > 0, CompleteFrames, [Next]_vars
    PROVE  /\ CompleteFrames'
           /\ \A k \in 1 .. torn : at'[k] = at[k] /\ started'[k] = started[k]
<1>1. torn' = torn /\ torn \in 1 .. Written /\ Len(at) = Written
  BY TornStays DEF TypeOK, CompleteFrames
<1>2. /\ Written' >= Written /\ Written \in Nat /\ Written' \in Nat
      /\ Len(at') = Written'
      /\ \A k \in 1 .. Written : started'[k] = started[k] /\ at'[k] = at[k]
      /\ Len(stream') >= Len(stream)
      /\ Len(stream) \in Nat /\ Len(stream') \in Nat
      /\ \A i \in 1 .. Len(stream) : stream'[i] = stream[i]
  BY <1>1, HistoryGrows
<1>3. \A k \in 1 .. torn : at'[k] = at[k] /\ started'[k] = started[k] /\ at[k] \in Nat
  <2> SUFFICES ASSUME NEW k \in 1 .. torn
               PROVE  at'[k] = at[k] /\ started'[k] = started[k] /\ at[k] \in Nat
    OBVIOUS
  <2>1. k \in 1 .. Written
    BY <1>1, <1>2
  <2>2. at[k] \in Nat
    BY <1>1, <2>1 DEF TypeOK
  <2> QED BY <1>2, <2>1, <2>2
<1>4. torn' \in 1 .. Written' /\ at'[torn'] <= Len(stream')
  BY <1>1, <1>2, <1>3 DEF CompleteFrames
<1>5. ASSUME NEW k \in 1 .. torn - 1
      PROVE  /\ at'[k + 1] = at'[k] + Size(started'[k])
             /\ at'[k] + Size(started'[k]) <= at'[torn]
             /\ \A j \in 1 .. Size(started'[k]) :
                   stream'[at'[k] + j] = Byte(started'[k], j)
  <2>1. /\ at[k + 1] = at[k] + Size(started[k])
        /\ at[k] + Size(started[k]) <= at[torn] /\ at[torn] <= Len(stream)
        /\ \A j \in 1 .. Size(started[k]) : stream[at[k] + j] = Byte(started[k], j)
    BY <1>1 DEF CompleteFrames
  <2>2. k \in 1 .. torn /\ k + 1 \in 1 .. torn /\ torn \in 1 .. torn
    BY <1>1, <1>2
  <2>3. at[k] \in Nat /\ at[torn] \in Nat /\ Size(started[k]) \in Nat
    <3>1. started[k] \in Messages
      BY <1>1, <1>2, <2>2 DEF TypeOK, Written
    <3> QED BY <1>3, <2>2, <3>1, SizeIsPositive
  <2>4. ASSUME NEW j \in 1 .. Size(started[k])
        PROVE  stream'[at[k] + j] = Byte(started[k], j)
    <3>1. at[k] + j \in 1 .. Len(stream)
      BY <1>2, <2>1, <2>3
    <3> QED BY <1>2, <2>1, <3>1
  <2> QED BY <1>3, <2>1, <2>2, <2>4
<1> QED BY <1>1, <1>2, <1>3, <1>4, <1>5 DEF CompleteFrames

\* Where one of the complete messages is being read.
LEMMA KeptFacts ==
    ASSUME TypeOK, Kept, Reading < torn
    PROVE  /\ Reading \in 1 .. torn - 1 /\ Reading \in 1 .. Written
           /\ started[Reading] \in Messages
           /\ at[Reading] \in Nat /\ at[torn] \in Nat /\ Len(stream) \in Nat
           /\ at[Reading] + Size(started[Reading]) <= at[torn]
           /\ at[Reading + 1] = at[Reading] + Size(started[Reading])
           /\ at[torn] <= Len(stream)
           /\ Used \in Nat /\ consumed \in Nat
<1>1. Reading \in 1 .. torn - 1 /\ torn \in 1 .. Written /\ Len(at) = Written
  <2>1. torn \in 1 .. Written /\ Len(at) = Written
    BY DEF Kept, CompleteFrames
  <2>2. Len(delivered) \in Nat /\ torn \in Nat
    BY DEF TypeOK
  <2>3. Reading \in 1 .. torn - 1
    BY <2>2 DEF Reading
  <2> QED BY <2>1, <2>3
<1>2. Reading \in 1 .. Written /\ Written \in Nat
  BY <1>1 DEF Written, TypeOK
<1>3. started[Reading] \in Messages /\ at[Reading] \in Nat /\ at[torn] \in Nat
  <2>1. \A k \in 1 .. Len(started) : started[k] \in Messages
    BY DEF TypeOK
  <2>2. \A k \in 1 .. Len(at) : at[k] \in Nat
    BY DEF TypeOK
  <2> QED BY <1>1, <1>2, <2>1, <2>2 DEF Written
<1> QED BY <1>1, <1>2, <1>3, UsedRange DEF Kept, CompleteFrames, TypeOK

LEMMA KeptByteRead ==
    ASSUME TypeOK, Kept, Reading < torn, mode = "reading",
           NEW m \in Messages, m = started[Reading]
    PROVE  /\ ReadingIn(m) /\ Used > 0
           /\ consumed >= at[Reading] /\ consumed < at[Reading] + Size(m)
<1> DEFINE base == at[Reading]
           lc == Len(m.command)
           la == Len(m.args)
<1>1. /\ base \in Nat /\ base + Size(m) <= at[torn] /\ at[torn] <= Len(stream)
      /\ at[torn] \in Nat /\ Len(stream) \in Nat /\ Used \in Nat /\ consumed \in Nat
      /\ Reading \in 1 .. torn - 1 /\ Size(m) \in Nat
  BY KeptFacts, SizeIsPositive
<1>2. InMessage(m) /\ StillThere
  BY DEF Kept
<1>3. Size(m) = lc + 1 + la + 1 /\ lc \in Nat /\ la \in Nat /\ Size(m) \in Nat
  BY SizeIsPositive DEF Size
<1>4. \/ consumed = base + Len(command) /\ Len(command) <= lc
      \/ consumed = base + lc + 1 + Len(args) /\ Len(args) <= la
  BY <1>2 DEF InMessage, IsPrefixOf
<1>5. Len(command) \in Nat /\ Len(args) \in Nat
  BY DEF TypeOK
<1>6. consumed >= base /\ consumed < base + Size(m)
  <2> HIDE DEF base, lc, la
  <2> QED BY <1>1, <1>3, <1>4, <1>5
<1>7. Used > 0
  <2>1. at[torn] <= consumed + Used
    BY <1>2 DEF StillThere
  <2> HIDE DEF base
  <2> QED BY <1>1, <1>6, <2>1
<1>8. data[pr] = stream[consumed + 1]
  <2>1. Ahead(pr) = 0 /\ pr \in Cells
    BY UsedRange DEF TypeOK
  <2>2. consumed + 0 < at[torn]
    <3> HIDE DEF base
    <3> QED BY <1>1, <1>6
  <2>3. data[pr] = stream[consumed + Ahead(pr) + 1]
    BY <1>2, <2>1, <2>2 DEF StillThere
  <2> QED BY <1>1, <2>1, <2>3
<1>9. stream[consumed + 1] = Byte(m, consumed - base + 1)
  <2> DEFINE j == consumed - base + 1
  <2>1. j \in 1 .. Size(m) /\ base + j = consumed + 1
    <3> HIDE DEF base
    <3> QED BY <1>1, <1>6
  <2>2. stream[base + j] = Byte(m, j)
    BY <1>1, <2>1 DEF Kept, CompleteFrames
  <2> QED BY <2>1, <2>2
<1> QED BY <1>1, <1>2, <1>6, <1>7, <1>8, <1>9 DEF ReadingIn

\* Writers put their bytes behind pw, and that is behind the complete ones.
LEMMA KeptWrite ==
    ASSUME TypeOK, InsideLoops, RoomForRest, Kept, torn > 0,
           (\E m \in Messages : WriteStart(m)) \/ WriteByte, [Next]_vars
    PROVE  Kept'
<1>1. CompleteFrames' /\ \A k \in 1 .. torn : at'[k] = at[k] /\ started'[k] = started[k]
  BY FramesStay DEF Kept
<1>2. /\ UNCHANGED <<field, command, args, delivered, consumed, torn, pr>>
      /\ mode \in {"idle", "writing"} /\ mode' \in {"idle", "writing"}
  BY DEF WriteStart, WriteByte, ringVars, readerVars
<1> SUFFICES ASSUME Reading < torn
             PROVE  StillThere' /\ consumed' = at'[Reading]
  BY <1>1, <1>2 DEF Kept, Reading
<1>3. /\ Reading \in 1 .. torn - 1 /\ at[torn] \in Nat /\ consumed \in Nat
      /\ Used \in Nat /\ at[torn] <= Len(stream) /\ Len(stream) \in Nat
      /\ pw \in Cells /\ pr \in Cells /\ torn \in Nat
      /\ \A c \in Cells : Ahead(c) \in Nat
  <2>1. \A c \in Cells : Ahead(c) \in 0 .. BufferSize - 1
    BY UsedRange DEF TypeOK
  <2>2. \A c \in Cells : Ahead(c) \in Nat
    BY <2>1
  <2>3. pw \in Cells /\ pr \in Cells /\ torn \in Nat
    BY DEF TypeOK
  <2> QED BY <2>2, <2>3, KeptFacts
<1>4. StillThere /\ consumed = at[Reading]
  BY <1>2 DEF Kept
<1>5. at'[torn] = at[torn] /\ at'[Reading] = at[Reading] /\ torn' = torn
  BY <1>1, <1>2, <1>3
<1>6. \A i \in 1 .. Len(stream) : stream'[i] = stream[i]
  BY HistoryGrows DEF Kept, CompleteFrames
<1>7. ASSUME NEW c \in Cells, consumed + Ahead(c) < at[torn]
      PROVE  data[c] = stream'[consumed + Ahead(c) + 1]
  <2>1. data[c] = stream[consumed + Ahead(c) + 1]
    BY <1>4, <1>7 DEF StillThere
  <2>2. Ahead(c) \in Nat
    BY <1>3
  <2>3. consumed + Ahead(c) + 1 \in 1 .. Len(stream)
    <3>1. /\ consumed \in Nat /\ Len(stream) \in Nat /\ at[torn] \in Nat
          /\ at[torn] <= Len(stream)
      BY <1>3
    <3> QED BY <1>7, <2>2, <3>1
  <2> QED BY <1>6, <2>1, <2>3
<1>8. CASE \E m \in Messages : WriteStart(m)
  <2>1. UNCHANGED <<data, pw, pr>>
    BY <1>8 DEF WriteStart, ringVars
  <2>2. Used' = Used /\ \A c \in Cells : Ahead(c)' = Ahead(c)
    BY <2>1 DEF Used, Ahead
  <2> QED BY <1>2, <1>4, <1>5, <1>7, <2>1, <2>2 DEF StillThere
<1>9. CASE WriteByte
  <2> DEFINE m == started[Len(started)]
  <2>1. /\ mode = "writing" /\ pw' = Next1(pw)
        /\ data' = [data EXCEPT ![pw] = Byte(m, copied + 1)]
    BY <1>9 DEF WriteByte
  <2>2. Used + 1 < BufferSize
    <3>1. Used + (Size(m) - copied) < BufferSize /\ copied < Size(m) /\ copied \in Nat
      BY <2>1 DEF RoomForRest, InsideLoops, Written, TypeOK
    <3>2. m \in Messages
      BY <2>1 DEF InsideLoops, Written, TypeOK
    <3>3. Size(m) \in Nat
      BY <3>2, SizeIsPositive
    <3> HIDE DEF m
    <3> QED BY <1>3, <3>1, <3>3, BufferAssumption
  <2>3. /\ Used' = Used + 1
        /\ \A c \in Cells : Ahead(c)' = Ahead(c) /\ (Ahead(c) = Used <=> c = pw)
    BY <1>2, <1>3, <2>1, <2>2, AdvanceWrite
  <2>4. at[torn] <= consumed + Used
    BY <1>4 DEF StillThere
  <2>5. ASSUME NEW c \in Cells, consumed + Ahead(c) < at[torn]
        PROVE  data'[c] = data[c]
    <3>1. c # pw
      BY <1>3, <2>3, <2>4, <2>5
    <3> QED BY <2>1, <3>1 DEF TypeOK
  <2>6. at[torn] <= consumed + Used'
    BY <1>3, <2>3, <2>4
  <2> QED BY <1>2, <1>4, <1>5, <1>7, <2>3, <2>5, <2>6 DEF StillThere
<1> QED BY <1>8, <1>9

LEMMA KeptReadStart ==
    ASSUME TypeOK, Kept, torn > 0, ReadStart, [Next]_vars
    PROVE  Kept'
<1>1. /\ mode # "reading" /\ mode' = "reading"
      /\ field' = "command" /\ command' = <<>> /\ args' = <<>>
      /\ UNCHANGED <<data, pw, pr, started, stream, at, delivered, consumed, torn>>
  BY DEF ReadStart, ringVars, writerVars
<1>2. CompleteFrames'
  BY FramesStay DEF Kept
<1>3. ASSUME Reading < torn
      PROVE  StillThere' /\ InMessage(started[Reading])'
  <2>1. StillThere /\ consumed = at[Reading]
    BY <1>1, <1>3 DEF Kept
  <2>2. StillThere'
    BY <1>1, <2>1 DEF StillThere, Used, Ahead
  <2>3. started[Reading] \in Messages /\ at[Reading] \in Nat
    BY <1>3, KeptFacts
  <2>4. Len(started[Reading].command) \in Nat
    BY <2>3, SizeIsPositive
  <2>5. IsPrefixOf(command', started[Reading].command)
    BY <1>1, <2>4 DEF IsPrefixOf
  <2>6. consumed' = at[Reading] + Len(command')
    BY <1>1, <2>1, <2>3
  <2>7. Reading' = Reading
    BY <1>1 DEF Reading
  <2> QED BY <1>1, <2>2, <2>5, <2>6, <2>7 DEF InMessage
<1> QED BY <1>1, <1>2, <1>3 DEF Kept, Reading

LEMMA KeptReadByte ==
    ASSUME TypeOK, Kept, torn > 0, ReadByte, [Next]_vars
    PROVE  Kept'
<1>1. /\ mode = "reading" /\ pr' = Next1(pr) /\ consumed' = consumed + 1
      /\ UNCHANGED <<data, pw, copied, started, stream, at, torn>>
  BY DEF ReadByte, writerVars
<1>2. CompleteFrames'
  BY FramesStay DEF Kept
<1>3. Len(delivered) \in Nat /\ Len(delivered') >= Len(delivered) /\ torn \in Nat
  BY DEF ReadByte, ReadChar, EndOfCommand, EndOfArgs, TypeOK
<1>4. CASE Reading >= torn
  <2>1. Reading' >= torn'
    BY <1>1, <1>3, <1>4 DEF Reading
  <2>2. Reading' \in Nat
    <3>1. Len(delivered') \in Nat
      BY DEF ReadByte, ReadChar, EndOfCommand, EndOfArgs, TypeOK
    <3> QED BY <3>1 DEF Reading
  <2> QED BY <1>1, <1>2, <1>3, <2>1, <2>2 DEF Kept
<1>5. CASE Reading < torn
  <2> PICK m : m = started[Reading]
    OBVIOUS
  <2>1. /\ Reading \in 1 .. torn - 1 /\ m \in Messages
        /\ at[Reading] \in Nat /\ at[torn] \in Nat /\ Used \in Nat /\ consumed \in Nat
        /\ at[Reading + 1] = at[Reading] + Size(m)
        /\ at[Reading] + Size(m) <= at[torn]
    BY <1>5, KeptFacts
  <2>2. ReadingIn(m) /\ Used > 0 /\ consumed < at[Reading] + Size(m)
    BY <1>1, <1>5, <2>1, KeptByteRead
  <2>3. \/ InMessage(m)' /\ mode' = "reading" /\ delivered' = delivered
        \/ Finished(m)
    BY <2>1, <2>2, ReadByteInMessage
  <2>4. /\ Used' = Used - 1
        /\ \A c \in Cells : IF c = pr THEN Ahead(c)' = BufferSize - 1
                                       ELSE Ahead(c)' = Ahead(c) - 1
    BY <1>1, <2>2, AdvanceRead DEF TypeOK
  <2>5. StillThere'
    <3>1. StillThere
      BY <1>5 DEF Kept
    <3>2. at[torn] <= consumed' + Used'
      BY <1>1, <2>1, <2>4, <3>1 DEF StillThere
    <3>3. Used < BufferSize /\ \A c \in Cells : Ahead(c) \in Nat
      <4>1. /\ Used \in 0 .. BufferSize - 1
            /\ \A c \in Cells : Ahead(c) \in 0 .. BufferSize - 1
        BY UsedRange DEF TypeOK
      <4> HIDE DEF Cells
      <4> QED BY <4>1, BufferAssumption
    <3>4. ASSUME NEW c \in Cells, consumed' + Ahead(c)' < at[torn]
          PROVE  data[c] = stream[consumed' + Ahead(c)' + 1]
      <4>1. at[torn] <= consumed + Used
        BY <3>1 DEF StillThere
      <4>2. c # pr
        BY <1>1, <2>1, <2>4, <3>3, <3>4, <4>1, BufferAssumption
      <4>3. Ahead(c)' = Ahead(c) - 1 /\ Ahead(c) \in Nat
        BY <2>4, <3>3, <4>2
      <4>4. consumed' + Ahead(c)' = consumed + Ahead(c)
        BY <1>1, <2>1, <4>3
      <4>5. data[c] = stream[consumed + Ahead(c) + 1]
        BY <3>1, <3>4, <4>4 DEF StillThere
      <4> QED BY <4>4, <4>5
    <3> QED BY <1>1, <3>2, <3>4 DEF StillThere
  <2>6. CASE InMessage(m)' /\ mode' = "reading" /\ delivered' = delivered
    <3>1. m = started'[Reading'] /\ Reading' = Reading
      BY <1>1, <2>6 DEF Reading
    <3> QED BY <1>2, <2>5, <2>6, <3>1 DEF Kept
  <2>7. CASE Finished(m)
    <3>1. /\ delivered' = Append(delivered, m) /\ consumed' = at[Reading] + Size(m)
          /\ field' = "command" /\ command' = <<>> /\ args' = <<>>
      BY <2>7 DEF Finished
    <3>2. Reading' = Reading + 1 /\ Len(delivered) \in Nat
      BY <3>1 DEF Reading, TypeOK
    <3>3. ASSUME Reading' < torn'
          PROVE  /\ consumed' = at'[Reading']
                 /\ InMessage(started[Reading])'
      <4>1. consumed' = at[Reading + 1]
        BY <2>1, <3>1
      <4>2. Reading + 1 \in 1 .. Written /\ Reading + 1 \in 1 .. Len(at)
        BY <1>1, <1>3, <2>1, <3>2, <3>3 DEF Kept, CompleteFrames, Written, TypeOK
      <4>3. started[Reading + 1] \in Messages /\ at[Reading + 1] \in Nat
        <5>1. started \in Seq(Messages) /\ at \in Seq(Nat)
          BY DEF TypeOK
        <5> QED BY <4>2, <5>1 DEF Written
      <4>4. Len(started[Reading + 1].command) \in Nat
        BY <4>3, SizeIsPositive
      <4>5. IsPrefixOf(command', started[Reading + 1].command)
        BY <3>1, <4>4 DEF IsPrefixOf
      <4>6. consumed' = at[Reading + 1] + Len(command')
        BY <3>1, <4>1, <4>3
      <4> QED BY <1>1, <3>1, <3>2, <4>1, <4>5, <4>6 DEF InMessage
    <3> QED BY <1>2, <2>5, <3>3 DEF Kept
  <2> QED BY <2>3, <2>6, <2>7
<1>6. Reading \in Nat
  BY <1>3 DEF Reading
<1> QED BY <1>3, <1>4, <1>5, <1>6

\* The writer is killed: all that was there before its message is complete.
LEMMA KeptCrash ==
    ASSUME TypeOK, InsideLoops, Whole, torn = 0, Crash
    PROVE  Kept'
<1>1. /\ mode = "writing" /\ mode' = "torn" /\ torn' = Written /\ Written > 0
      /\ UNCHANGED <<data, pw, pr, copied, started, stream, at, field, command,
                     args, delivered, consumed>>
  BY DEF Crash, ringVars, writerVars, readerVars, InsideLoops, Written
<1>2. /\ Written \in Nat /\ Len(at) = Written /\ Len(stream) \in Nat
      /\ \A k \in 1 .. Written : started[k] \in Messages /\ at[k] \in Nat
  BY DEF TypeOK, Whole, Framing, Written
<1>3. at[Written] <= Len(stream)
  BY <1>1, <1>2 DEF Whole, WriterCursor, TypeOK
<1>4. ASSUME NEW k \in 1 .. Written - 1
      PROVE  /\ at[k + 1] = at[k] + Size(started[k])
             /\ at[k] + Size(started[k]) <= at[Written]
             /\ \A j \in 1 .. Size(started[k]) :
                   stream[at[k] + j] = Byte(started[k], j)
  <2>1. /\ at[k + 1] = at[k] + Size(started[k])
        /\ at[k] + Size(started[k]) <= at[Written]
    BY DEF Whole, Framing
  <2>2. k \in 1 .. Written /\ Written \in 1 .. Written
    BY <1>1, <1>2
  <2>3. /\ at[k] \in Nat /\ at[Written] \in Nat /\ Size(started[k]) \in Nat
    BY <1>2, <2>2, SizeIsPositive
  <2>4. ASSUME NEW j \in 1 .. Size(started[k])
        PROVE  stream[at[k] + j] = Byte(started[k], j)
    <3>1. at[k] + j <= Len(stream)
      BY <1>2, <1>3, <2>1, <2>3
    <3> QED BY <2>2, <3>1 DEF Whole, Framing
  <2> QED BY <2>1, <2>4
<1>5. CompleteFrames'
  BY <1>1, <1>2, <1>3, <1>4 DEF CompleteFrames, Written
<1>6. /\ StillThere'
      /\ Reading < Written => consumed = at[Reading]
  <2>1. Len(stream) = consumed + Used /\ Used \in Nat /\ consumed \in Nat
    BY UsedRange DEF Whole, UnreadIntact, TypeOK
  <2>2. ASSUME NEW c \in Cells, consumed + Ahead(c) < at[Written]
        PROVE  data[c] = stream[consumed + Ahead(c) + 1]
    <3>1. Ahead(c) \in Nat /\ Written \in 1 .. Written
      BY <1>1, <1>2, UsedRange DEF TypeOK
    <3>2. Ahead(c) < Used
      BY <1>2, <1>3, <2>1, <2>2, <3>1
    <3> QED BY <3>2 DEF Whole, UnreadIntact
  <2>3. StillThere'
    BY <1>1, <1>3, <2>1, <2>2 DEF StillThere, Used, Ahead
  <2> QED BY <1>1, <1>2, <2>3 DEF Whole, ReaderCursor, AtBoundary, Reading, TypeOK
<1> QED BY <1>1, <1>5, <1>6 DEF Kept, Reading, Written

-----------------------------------------------------------------------------

LEMMA InvStep == IInv /\ [Next]_vars => IInv'
<1> SUFFICES ASSUME IInv, [Next]_vars PROVE IInv'
  OBVIOUS
<1>1. TypeOK /\ InsideLoops /\ TypeOK' /\ InsideLoops'
  BY TypeStep DEF IInv
<1>2. RoomForRest /\ RoomForRest'
  BY <1>1, RoomStep DEF IInv
<1>3. CASE torn > 0
  <2>1. torn' = torn /\ torn' \in Nat /\ Kept
    BY <1>1, <1>3, TornStays DEF TypeOK, IInv
  <2> SUFFICES Kept'
    BY <1>1, <1>2, <1>3, <2>1 DEF IInv
  <2>2. CASE (\E m \in Messages : WriteStart(m)) \/ WriteByte
    BY <1>1, <1>2, <1>3, <2>1, <2>2, KeptWrite
  <2>3. CASE ReadStart
    BY <1>1, <1>3, <2>1, <2>3, KeptReadStart
  <2>4. CASE ReadByte
    BY <1>1, <1>3, <2>1, <2>4, KeptReadByte
  <2>5. CASE ReadNothing \/ UNCHANGED vars
    <3>1. /\ UNCHANGED <<ringVars, writerVars, readerVars, torn>>
          /\ mode = "reading" <=> mode' = "reading"
      BY <2>5 DEF ReadNothing, vars
    <3> QED BY <2>1, <3>1 DEF ringVars, writerVars, readerVars, Kept, CompleteFrames,
        StillThere, Used, Ahead, InMessage, Written, Reading
  <2>6. ~ Crash
    BY <1>3 DEF Crash
  <2> QED BY <2>2, <2>3, <2>4, <2>5, <2>6 DEF Next
<1>4. CASE torn = 0
  <2>1. Whole
    BY <1>4 DEF IInv
  <2>2. ASSUME NEW m \in Messages, WriteStart(m) PROVE Whole' /\ torn' = 0
    BY <1>1, <1>4, <2>1, <2>2, WriteStartStep DEF WriteStart
  <2>3. CASE WriteByte
    <3>1. Whole'
      BY <1>1, <1>2, <1>4, <2>1, <2>3, WriteByteStep
    <3> QED BY <1>1, <1>2, <1>4, <2>3, <3>1 DEF IInv, WriteByte
  <2>4. CASE ReadStart
    <3>1. Whole'
      BY <1>1, <1>4, <2>1, <2>4, ReadStartStep
    <3> QED BY <1>1, <1>2, <1>4, <2>4, <3>1 DEF IInv, ReadStart
  <2>5. CASE ReadNothing \/ UNCHANGED vars
    <3>1. UNCHANGED <<ringVars, writerVars, readerVars, torn>>
      BY <2>5 DEF ReadNothing, vars
    <3>2. mode' = mode
      BY <2>1, <2>5 DEF ReadNothing, vars, Whole
    <3>3. Whole'
      BY <2>1, <3>1, <3>2 DEF ringVars, writerVars, readerVars, Whole,
        UnreadIntact, Used, Ahead, Framing, WriterCursor, ReaderCursor,
        AtBoundary, InMessage, DeliveredInOrder, Written, Reading
    <3> QED BY <1>1, <1>2, <1>4, <3>1, <3>3 DEF IInv
  <2>6. CASE ReadByte
    <3>1. Whole'
      BY <1>1, <1>4, <2>1, <2>6, ReadByteStep
    <3> QED BY <1>1, <1>2, <1>4, <2>6, <3>1 DEF IInv, ReadByte
  <2>7. CASE Crash
    <3>1. torn' = Written /\ Written > 0
      BY <1>1, <2>7 DEF Crash, InsideLoops, Written
    <3>2. Kept'
      BY <1>1, <1>4, <2>1, <2>7, KeptCrash
    <3> QED BY <1>1, <1>2, <3>1, <3>2 DEF IInv
  <2>8. CASE \E m \in Messages : WriteStart(m)
    BY <1>1, <1>2, <2>2, <2>8 DEF IInv
  <2> QED BY <2>3, <2>4, <2>5, <2>6, <2>7, <2>8 DEF Next
<1> QED BY <1>1, <1>3, <1>4 DEF TypeOK

\* The inductive invariant holds throughout.
THEOREM Invariance == Spec => []IInv
<1>1. Init => IInv
  BY InvInit
<1> QED BY <1>1, InvStep, PTL DEF Spec

\* No unread byte is ever overwritten, and the reader never passes the
\* writers, as long as no writer is killed inside its copy loops.
THEOREM UnreadStaysIntact == Spec => []UnreadIntact
<1>1. IInv => UnreadIntact
  BY DEF IInv, Whole, UnreadIntact
<1> QED BY <1>1, Invariance, PTL

\* What vchannel_process reads back is what vchannel_write was given, message
\* by message, in order, none twice and none left out.
THEOREM MessagesComeOutInOrder == Spec => []DeliveredInOrder
<1>1. IInv => DeliveredInOrder
  BY DEF IInv, Whole, DeliveredInOrder
<1> QED BY <1>1, Invariance, PTL

-----------------------------------------------------------------------------
(***************************************************************************)
(* The ring implements the abstract message queue.                         *)
(***************************************************************************)

LEMMA FifoInitial == Init => Fifo!FifoInit
BY DEF Init, Fifo!FifoInit, Accepted, Taken

LEMMA FifoStep ==
    ASSUME IInv, torn = 0, torn' = 0, [Next]_vars
    PROVE  [Fifo!FifoNext]_(Fifo!fifoVars)
<1> USE DEF Fifo!fifoVars
<1>1. TypeOK /\ InsideLoops /\ Whole
  BY DEF IInv
<1>2. started \in Seq(Messages) /\ Len(started) \in Nat /\ Len(delivered) \in Nat
  BY <1>1 DEF TypeOK
<1> DEFINE Given == SubSeq(delivered, 1, Taken)
<1>8. Taken = Len(delivered) /\ Given = delivered
  BY <1>1 DEF TypeOK, Taken
<1>9. Taken' = Len(delivered') /\ Given' = delivered'
  BY <1>1, TypeStep DEF TypeOK, Taken
<1> HIDE DEF Given
<1>3. ASSUME NEW m \in Messages, WriteStart(m)
      PROVE  UNCHANGED Fifo!fifoVars
  <2>1. /\ mode = "idle" /\ mode' = "writing" /\ delivered' = delivered
        /\ started' = Append(started, m)
    BY <1>3 DEF WriteStart, readerVars
  <2>2. SubSeq(started', 1, Len(started') - 1) = started
    BY <1>2, <2>1
  <2> QED BY <1>8, <1>9, <2>1, <2>2 DEF Accepted, Given
<1>4. CASE WriteByte
  <2>1. /\ mode = "writing" /\ started' = started /\ delivered' = delivered
        /\ mode' \in {"idle", "writing"} /\ Len(started) > 0
    BY <1>1, <1>4 DEF WriteByte, readerVars, InsideLoops, Written
  <2>2. CASE mode' = "writing"
    BY <1>8, <1>9, <2>1, <2>2 DEF Accepted, Given
  <2>3. CASE mode' = "idle"
    <3> DEFINE m == started[Len(started)]
    <3>1. m \in Messages
      BY <1>2, <2>1
    <3>2. started = Append(SubSeq(started, 1, Len(started) - 1), m)
      BY <1>2, <2>1
    <3>3. Accepted' = Append(Accepted, m)
      BY <2>1, <2>3, <3>2 DEF Accepted
    <3>4. Fifo!Accept(m)
      BY <1>8, <1>9, <2>1, <3>3 DEF Fifo!Accept, Given
    <3> QED BY <3>1, <3>4 DEF Fifo!FifoNext
  <2> QED BY <2>1, <2>2, <2>3
<1>5. CASE ReadStart \/ ReadNothing \/ UNCHANGED vars
  <2>1. /\ started' = started /\ delivered' = delivered
        /\ mode = "writing" <=> mode' = "writing"
    BY <1>5 DEF ReadStart, ReadNothing, vars, writerVars, readerVars
  <2> QED BY <1>8, <1>9, <2>1 DEF Accepted, Given
<1>6. CASE ReadByte
  <2>1. /\ mode = "reading" /\ mode' \in {"idle", "reading"} /\ started' = started
    BY <1>6 DEF ReadByte, ReadChar, EndOfCommand, EndOfArgs, writerVars
  <2>2. Accepted = started /\ Accepted' = started
    BY <2>1 DEF Accepted
  <2>3. CASE delivered' = delivered
    BY <1>8, <1>9, <2>2, <2>3 DEF Given
  <2>4. CASE EndOfArgs
    <3>1. ReaderCursor' /\ DeliveredInOrder' /\ Reading <= Written
      BY <1>1, <1>6, <2>1, ReadByteMovesReader DEF Whole, ReaderCursor
    <3>2. /\ delivered' = Append(delivered, [command |-> command, args |-> args])
          /\ Len(delivered') = Len(delivered) + 1
      BY <1>1, <2>4 DEF EndOfArgs, TypeOK
    <3>3. delivered'[Len(delivered) + 1] = started[Len(delivered) + 1]
      BY <1>2, <2>1, <3>1, <3>2 DEF DeliveredInOrder
    <3>4. delivered' = Append(delivered, started[Len(delivered) + 1])
      BY <1>1, <3>2, <3>3 DEF TypeOK
    <3>5. Len(delivered) < Len(started)
      BY <1>2, <3>1 DEF Reading, Written
    <3>6. Fifo!Deliver
      BY <1>8, <1>9, <2>2, <3>2, <3>4, <3>5 DEF Fifo!Deliver, Given
    <3> QED BY <3>6 DEF Fifo!FifoNext
  <2> QED BY <1>6, <2>3, <2>4 DEF ReadByte, ReadChar, EndOfCommand
<1>7. CASE Crash
  BY <1>1, <1>7 DEF Crash, InsideLoops, Written
<1> QED BY <1>3, <1>4, <1>5, <1>6, <1>7 DEF Next

\* Killing a writer withdraws nothing: its message was not accepted yet, and
\* the reader had not come to it.
LEMMA FifoCrash ==
    ASSUME IInv, torn = 0, Crash
    PROVE  UNCHANGED Fifo!fifoVars
<1>1. TypeOK /\ InsideLoops /\ Whole
  BY DEF IInv
<1>2. /\ mode = "writing" /\ torn' = Len(started) /\ Len(started) > 0
      /\ started' = started /\ delivered' = delivered
  BY <1>1 DEF Crash, InsideLoops, Written, writerVars, readerVars
<1>3. Len(delivered) < Len(started) /\ Len(delivered) \in Nat /\ Len(started) \in Nat
  BY <1>1, <1>2 DEF Whole, WriterCursor, Written, TypeOK
<1>4. Accepted' = Accepted
  BY <1>2 DEF Accepted
<1>5. Taken' = Taken
  BY <1>2, <1>3 DEF Taken
<1> QED BY <1>2, <1>4, <1>5 DEF Fifo!fifoVars

\* A prefix of the messages that were there before a step.
LEMMA PrefixStays ==
    ASSUME NEW S, NEW s \in Seq(S), NEW e \in S, NEW n \in Nat, n <= Len(s)
    PROVE  SubSeq(Append(s, e), 1, n) = SubSeq(s, 1, n)
OBVIOUS

\* From then on the abstract queue takes no message any more, and delivers
\* those it has.
LEMMA FifoTornStep ==
    ASSUME IInv, torn > 0, [Next]_vars
    PROVE  [Fifo!FifoNext]_(Fifo!fifoVars)
<1> USE DEF Fifo!fifoVars
<1> DEFINE Given == SubSeq(delivered, 1, Taken)
           D == [command : Seq(Chars), args : Seq(Chars)]
<1>1. TypeOK /\ Kept /\ torn' = torn /\ torn \in Nat
  BY TornStays DEF IInv, TypeOK
<1>2. /\ started \in Seq(Messages) /\ Len(started) \in Nat
      /\ delivered \in Seq(D) /\ Len(delivered) \in Nat
      /\ torn - 1 \in Nat /\ torn <= Len(started)
  BY <1>1 DEF TypeOK, Kept, CompleteFrames, Written
<1>3. Accepted = SubSeq(started, 1, torn - 1) /\ Len(Accepted) = torn - 1
  BY <1>2 DEF Accepted
<1>4. Accepted' = Accepted
  <2>1. Accepted' = SubSeq(started', 1, torn - 1)
    BY <1>1 DEF Accepted
  <2>2. CASE started' = started
    BY <1>3, <2>1, <2>2
  <2>3. CASE \E m \in Messages : started' = Append(started, m)
    <3>1. PICK m \in Messages : started' = Append(started, m)
      BY <2>3
    <3>2. torn - 1 <= Len(started)
      BY <1>1, <1>2
    <3>3. SubSeq(Append(started, m), 1, torn - 1) = SubSeq(started, 1, torn - 1)
      BY <1>2, <3>2, PrefixStays
    <3> QED BY <1>3, <2>1, <3>1, <3>3
  <2> QED BY <2>2, <2>3 DEF Next, WriteStart, WriteByte, ReadStart, ReadNothing,
      ReadByte, Crash, vars, writerVars
<1>5. CASE delivered' = delivered
  <2>1. Taken' = Taken
    BY <1>1, <1>5 DEF Taken
  <2> QED BY <1>4, <1>5, <2>1
<1>6. CASE ReadByte /\ EndOfArgs
  <2>1. mode = "reading" /\ ReadByte
    BY <1>6 DEF ReadByte
  <2> DEFINE e == [command |-> command, args |-> args]
  <2>2. delivered' = Append(delivered, e) /\ e \in D
    BY <1>1, <1>6 DEF EndOfArgs, TypeOK
  <2> HIDE DEF e, D
  <2>3. Len(delivered') = Len(delivered) + 1
    BY <1>2, <2>2
  <2>4. CASE Len(delivered) >= torn - 1
    <3>1. Taken = torn - 1 /\ Taken' = torn - 1
      BY <1>1, <1>2, <2>3, <2>4 DEF Taken
    <3>2. Given' = Given
      BY <1>2, <2>2, <2>4, <3>1, PrefixStays
    <3> QED BY <1>4, <3>1, <3>2
  <2>5. CASE Len(delivered) < torn - 1
    <3>1. Taken = Len(delivered) /\ Taken' = Len(delivered) + 1
      BY <1>1, <1>2, <2>3, <2>5 DEF Taken
    <3>2. Given = delivered /\ Given' = delivered'
      BY <1>2, <2>2, <2>3, <3>1
    <3> PICK m : m = started[Reading]
      OBVIOUS
    <3>3. Reading < torn /\ Reading \in 1 .. torn - 1
      BY <1>1, <1>2, <2>5 DEF Reading
    <3>4. m \in Messages /\ ReadingIn(m)
      BY <1>1, <2>1, <3>3, KeptFacts, KeptByteRead
    <3>5. delivered' = Append(delivered, m)
      <4>1. delivered' # delivered
        BY <2>3, <1>2
      <4> QED BY <1>1, <2>1, <3>4, <4>1, ReadByteInMessage DEF Finished
    <3>6. m = Accepted[Taken + 1]
      BY <1>2, <1>3, <3>1, <3>3 DEF Reading
    <3>7. Fifo!Deliver
      BY <1>2, <1>3, <1>4, <2>5, <3>1, <3>2, <3>5, <3>6 DEF Fifo!Deliver
    <3> QED BY <3>7 DEF Fifo!FifoNext
  <2>6. Len(delivered) >= torn - 1 \/ Len(delivered) < torn - 1
    BY <1>1, <1>2
  <2> QED BY <2>4, <2>5, <2>6
<1>7. CASE ReadByte /\ ~ EndOfArgs
  <2>1. delivered' = delivered
    BY <1>7 DEF ReadByte, ReadChar, EndOfCommand
  <2> QED BY <1>5, <2>1
<1>8. CASE ~ ReadByte
  <2>1. delivered' = delivered
    BY <1>8 DEF Next, WriteStart, WriteByte, ReadStart, ReadNothing, Crash, vars,
       readerVars
  <2> QED BY <1>5, <2>1
<1> QED BY <1>6, <1>7, <1>8

\* The ring's steps are steps of the abstract queue that vchannel_write and
\* vchannel_process promise together.  That includes the death of a writer in
\* the middle of a message: those accepted before it still come out of the
\* ring whole, in their order, and before anything else.
THEOREM RingImplementsFifo == Spec => ImplementsSafeFifo
<1>1. Init => Fifo!FifoInit
  BY FifoInitial
<1>2. IInv /\ IInv' /\ [Next]_vars => [Fifo!FifoNext]_(Fifo!fifoVars)
  <2> SUFFICES ASSUME IInv, IInv', [Next]_vars
               PROVE  [Fifo!FifoNext]_(Fifo!fifoVars)
    OBVIOUS
  <2>1. torn \in Nat
    BY DEF IInv, TypeOK
  <2>2. CASE torn > 0
    BY <2>2, FifoTornStep
  <2>3. CASE torn = 0 /\ Crash
    BY <2>3, FifoCrash
  <2>4. CASE torn = 0 /\ ~ Crash
    <3>1. torn' = 0
      BY <2>4 DEF Next, WriteStart, WriteByte, ReadStart, ReadNothing, ReadByte, vars
    <3> QED BY <2>4, <3>1, FifoStep
  <2> QED BY <2>1, <2>2, <2>3, <2>4
<1> QED BY <1>1, <1>2, Invariance, PTL DEF Spec, ImplementsSafeFifo, Fifo!SafeFifoSpec

=============================================================================
