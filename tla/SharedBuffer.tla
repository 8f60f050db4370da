---------------------------- MODULE SharedBuffer ----------------------------
(***************************************************************************)
(* The ring in shared memory through which every hooked process hands its  *)
(* messages to seamlessrdpshell (ServerExe/vchannel.c, struct buffer_t),   *)
(* byte by byte: the test whether a message fits, the two copy loops of    *)
(* vchannel_write and the two read loops of vchannel_process.              *)
(*                                                                         *)
(* The mutex around all of this is module VChannel's subject; here it is   *)
(* the variable mode, which says what the holder is doing.  A writer may   *)
(* be killed between two bytes (Crash).  If the shell gets the mutex next  *)
(* it goes on: it ignores WAIT_ABANDONED (line 427) and looks for a NUL    *)
(* only.  If a writer gets it, it keeps it (lines 351-355) and nobody      *)
(* touches the ring any more: here, the steps simply stop.  So this module *)
(* says what comes out of the ring, and VChannel that something does.      *)
(***************************************************************************)
EXTENDS Naturals, Sequences

CONSTANTS
    Chars,        \* the characters of commands and arguments
    NUL,          \* the terminator, '\0'
    Commands,     \* the commands written
    Args,         \* the formatted arguments written
    BufferSize,   \* BUFFER_SIZE
    MaxWrites,    \* bound: calls of vchannel_write
    MaxReads,     \* bound: messages read; matters after a crash only
    MayCrash      \* may a writer be killed inside the copy loops (once)?

Messages == [command : Commands, args : Args]

\* Definitions that end in _ are the next one with a slip in it; the
\* properties have to tell the two apart.

\* The arguments go without their terminator.
Size_(m) == Len(m.command) + 1 + Len(m.args)

\* Bytes a message takes in the ring, both terminators included.
Size(m) == Len(m.command) + 1 + Len(m.args) + 1

ASSUME CharsAssumption == NUL \notin Chars
ASSUME CommandsAssumption == Commands \subseteq Seq(Chars)
\* vchannel_write asserts that the formatted arguments are not empty.
ASSUME ArgsAssumption == Args \subseteq Seq(Chars) \ {<<>>}
ASSUME BufferAssumption == BufferSize \in Nat \ {0}
\* A message has two strings of less than VCHANNEL_MAX_LINE (1024) bytes and
\* the ring 96 kB.
ASSUME SizeAssumption == \A m \in Messages : Size(m) < BufferSize
ASSUME BoundsAssumption ==
    MaxWrites \in Nat /\ MaxReads \in Nat /\ MayCrash \in BOOLEAN

VARIABLES
    data, pw, pr,     \* g_buffer
    mode,             \* what the holder of the mutex does; "torn": it was
                      \* killed while writing, and nobody has had it since
    copied,           \* bytes of the current message copied (the two i loops)
    field,            \* the string vchannel_process is reading
    command, args,    \* its local buffers, up to pd
    \* History: never read by the code's steps.
    started,          \* messages whose copying has begun
    stream,           \* every byte ever stored
    at,               \* length of stream when a message was begun
    consumed,         \* number of bytes read
    delivered,        \* messages read back
    torn              \* index in started of a message cut off by a crash

ringVars == <<data, pw, pr>>
readerVars == <<field, command, args, delivered, consumed>>
writerVars == <<copied, started, stream, at>>
vars == <<ringVars, mode, writerVars, readerVars, torn>>

Cells == 0 .. BufferSize - 1
Next1_(p) == p + 1
Next1(p) == (p + 1) % BufferSize

\* Byte j of a message: command, terminator, arguments, terminator.
Byte(m, j) ==
    IF j <= Len(m.command) THEN m.command[j]
    ELSE IF j = Len(m.command) + 1 THEN NUL
    ELSE IF j < Size(m) THEN m.args[j - Len(m.command) - 1]
    ELSE NUL

\* The write index may catch up with the read index.
Fits_(n) ==
    /\ ~ (pw < pr /\ pw + n > pr)
    /\ ~ (pw + n >= BufferSize /\ (pw + n) % BufferSize > pr)

\* The test of vchannel_write, its two rejecting branches as they stand.
Fits(n) ==
    /\ ~ (pw < pr /\ pw + n >= pr)
    /\ ~ (pw + n >= BufferSize /\ (pw + n) % BufferSize >= pr)

\* The mapping is created zero-filled and vchannel_open resets the indices.
Init ==
    /\ data = [c \in Cells |-> NUL]
    /\ pw = 0 /\ pr = 0
    /\ mode = "idle"
    /\ copied = 0
    /\ field = "command" /\ command = <<>> /\ args = <<>>
    /\ started = <<>> /\ stream = <<>> /\ at = <<>>
    /\ consumed = 0 /\ delivered = <<>>
    /\ torn = 0

\* vchannel_write leaves its retry loop with the mutex held.
WriteStart(m) ==
    /\ mode = "idle"
    /\ Len(started) < MaxWrites
    /\ Fits(Size(m))
    /\ mode' = "writing"
    /\ copied' = 0
    /\ started' = Append(started, m)
    /\ at' = Append(at, Len(stream))
    /\ UNCHANGED <<ringVars, readerVars, stream, torn>>

\* One turn of a copy loop; after the last one the mutex is released.
WriteByte ==
    LET m == started[Len(started)]
        byte == Byte(m, copied + 1)
    IN  /\ mode = "writing"
        /\ data' = [data EXCEPT ![pw] = byte]
        /\ pw' = Next1(pw)
        /\ copied' = copied + 1
        /\ stream' = Append(stream, byte)
        /\ mode' = IF copied + 1 = Size(m) THEN "idle" ELSE "writing"
        /\ UNCHANGED <<pr, readerVars, started, at, torn>>

\* vchannel_process has the mutex, and the indices differ.
ReadStart ==
    /\ mode \in {"idle", "torn"}
    /\ pr # pw
    /\ Len(delivered) < MaxReads
    /\ mode' = "reading"
    /\ field' = "command" /\ command' = <<>> /\ args' = <<>>
    /\ UNCHANGED <<ringVars, writerVars, delivered, consumed, torn>>

\* It has the mutex and finds nothing.  Without a crash this changes nothing.
ReadNothing ==
    /\ mode \in {"idle", "torn"}
    /\ pr = pw
    /\ mode' = "idle"
    /\ UNCHANGED <<ringVars, writerVars, readerVars, torn>>

ReadChar ==
    /\ data[pr] # NUL
    /\ IF field = "command"
       THEN command' = Append(command, data[pr]) /\ UNCHANGED args
       ELSE args' = Append(args, data[pr]) /\ UNCHANGED command
    /\ UNCHANGED <<mode, field, delivered>>

EndOfCommand ==
    /\ data[pr] = NUL /\ field = "command"
    /\ field' = "args"
    /\ UNCHANGED <<mode, command, args, delivered>>

\* The message is complete.  The loop goes on while the indices differ,
\* unless writing to the virtual channel failed.
EndOfArgs ==
    /\ data[pr] = NUL /\ field = "args"
    /\ delivered' = Append(delivered, [command |-> command, args |-> args])
    /\ field' = "command" /\ command' = <<>> /\ args' = <<>>
    /\ \/ mode' = "idle"
       \/ mode' = "reading" /\ Next1(pr) # pw /\ Len(delivered') < MaxReads

\* One turn of a read loop: nothing compares pr with pw here.
ReadByte ==
    /\ mode = "reading"
    /\ ReadChar \/ EndOfCommand \/ EndOfArgs
    /\ pr' = Next1(pr)
    /\ consumed' = consumed + 1
    /\ UNCHANGED <<data, pw, writerVars, torn>>

\* The writing process is killed: its mutex is abandoned, the bytes stay.
Crash ==
    /\ mode = "writing"
    /\ MayCrash /\ torn = 0
    /\ mode' = "torn"
    /\ torn' = Len(started)
    /\ UNCHANGED <<ringVars, writerVars, readerVars>>

Next ==
    \/ \E m \in Messages : WriteStart(m)
    \/ WriteByte
    \/ ReadStart \/ ReadNothing \/ ReadByte
    \/ Crash

Spec == Init /\ [][Next]_vars

-----------------------------------------------------------------------------
(***************************************************************************)
(* Properties.                                                             *)
(***************************************************************************)

\* The types of the variables.
TypeOK ==
    /\ data \in [Cells -> Chars \cup {NUL}]
    /\ pw \in Cells /\ pr \in Cells
    /\ mode \in {"idle", "writing", "reading", "torn"}
    /\ copied \in Nat
    /\ field \in {"command", "args"}
    /\ command \in Seq(Chars) /\ args \in Seq(Chars)
    /\ started \in Seq(Messages)
    /\ stream \in Seq(Chars \cup {NUL})
    /\ at \in Seq(Nat)
    /\ consumed \in Nat
    /\ delivered \in Seq([command : Seq(Chars), args : Seq(Chars)])
    /\ torn \in Nat

\* Bytes between the indices, and how far a cell is ahead of pr.
Ahead(c) == IF c >= pr THEN c - pr ELSE c - pr + BufferSize
Used == Ahead(pw)

\* The two-branch test of vchannel_write accepts exactly the messages that
\* leave one cell free: neither does it let a full ring look empty (pr = pw),
\* nor does it make a writer wait for room that is there.  In particular an
\* empty ring takes any message, so a writer never waits for a read event
\* that no reader has a reason to send.
FitsIsExact == \A n \in 1 .. BufferSize - 1 : Fits(n) <=> Used + n < BufferSize

\* The bytes that were written and not yet read lie between pr and pw, in
\* order and unchanged: no writer overwrites them across the wrap, and the
\* reader is never ahead of the writers.
UnreadIntact ==
    torn = 0 =>
        /\ Len(stream) = consumed + Used
        /\ \A c \in Cells : Ahead(c) < Used =>
              data[c] = stream[consumed + Ahead(c) + 1]

\* A message being copied always has its room, up to the last byte.
RoomForRest ==
    mode = "writing" => Used + (Size(started[Len(started)]) - copied) < BufferSize

\* Every message read back is the one that was written, in the order of the
\* writes, and what is not read back yet has been written at least in part.
DeliveredInOrder ==
    torn = 0 =>
        /\ Len(delivered) <= Len(started)
        /\ \A k \in 1 .. Len(delivered) : delivered[k] = started[k]

\* The messages accepted so far: all that were started, without the one still
\* being copied.  A crash ends the account: the torn message is not accepted,
\* and nothing is promised for those after it.
Accepted ==
    IF torn > 0 THEN SubSeq(started, 1, torn - 1)
    ELSE IF mode = "writing" THEN SubSeq(started, 1, Len(started) - 1)
    ELSE started

\* How many of these have been read back.
Taken == IF torn > 0 /\ Len(delivered) >= torn THEN torn - 1 ELSE Len(delivered)

Fifo == INSTANCE MessageFifo WITH
    MayDiscard <- FALSE, accepted <- Accepted,
    taken <- Taken, delivered <- SubSeq(delivered, 1, Taken)

\* What comes out of the ring is a message queue.  A writer killed in the
\* middle of a message spoils nothing accepted before: as far as the shell
\* reads on, those messages still come out whole, first, and in order.
ImplementsSafeFifo == Fifo!SafeFifoSpec
=============================================================================
