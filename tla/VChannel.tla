------------------------------ MODULE VChannel ------------------------------
(***************************************************************************)
(* The protocol around the shared buffer (ServerExe/vchannel.c): a named   *)
(* recursive mutex, the auto-reset events evwr ("there is data") and evrd  *)
(* ("there is room"), and the library's private state in every process     *)
(* that uses it.  Writers are the hooked applications and the shell; the   *)
(* only reader is the shell, in vchannel_process.                          *)
(*                                                                         *)
(* libvchannel is linked statically into seamlessrdpshell.exe and into the *)
(* hook DLL, and the shell loads the DLL: its single thread uses two       *)
(* copies of g_mutex, g_seamless_shell etc., ShellExe and ShellDll.        *)
(*                                                                         *)
(* The ring is a queue of whole messages here; module SharedBuffer shows   *)
(* that it is one, and that the fit test is "the load stays below the      *)
(* size", which is Fits below.                                             *)
(***************************************************************************)
EXTENDS SequencesExt

CONSTANTS
    Apps,               \* hooked processes; each has one copy of the library
    Shell,              \* the thread of seamlessrdpshell
    ShellExe, ShellDll, \* its two copies
    NoOne,
    Weight,             \* room a message of a copy takes, in units
    Capacity,           \* BUFFER_SIZE - 1, in the same units
    MaxSerial,          \* INT_MAX, the limit of the serial semaphore
    Writers,            \* copies through which vchannel_write is called,
    BlockUsers,         \* and vchannel_block
    MaxCalls,           \* bound: calls of the two in each copy
    Oversize,           \* copies whose messages do not fit vchannel_process' buf
    MaxFails,           \* bound: failures of the channel and the semaphore
    MayDie,             \* threads that may be killed
    Patient             \* no wait times out while some thread can go on

Copies == Apps \cup {ShellExe, ShellDll}
Threads == Apps \cup {Shell}
ThreadOf(c) == IF c \in Apps THEN c ELSE Shell
Message == [from : Copies, n : 0 .. MaxCalls]

ASSUME NamesAssumption ==
    /\ {Shell, NoOne, ShellExe, ShellDll} \cap Apps = {}
    /\ {Shell, NoOne} \cap {ShellExe, ShellDll} = {}
    /\ Shell # NoOne /\ ShellExe # ShellDll
ASSUME SizesAssumption ==
    /\ Capacity \in Nat
    /\ Weight \in [Copies -> 1 .. Capacity]
    /\ MaxSerial \in Nat \ {0}
    /\ MaxCalls \in Nat /\ MaxFails \in Nat
ASSUME ChoicesAssumption ==
    /\ Writers \subseteq Copies /\ BlockUsers \subseteq Copies /\ Oversize \subseteq Copies
    /\ MayDie \subseteq Threads /\ Patient \in BOOLEAN

VARIABLES
    owner, depth,   \* the mutex: who has it, how often it was acquired
    abandoned,      \* its last owner died with it
    evwr, evrd,     \* the two events
    queue,          \* the messages in the ring
    serial,         \* count of the serial semaphore
    pc,             \* where each thread is in the library
    via,            \* the copy it is in there with
    bracket,        \* the copy it called vchannel_block with, or NoOne
    held,           \* history: did that call get it the mutex?
    kept,           \* history: acquisitions it left the library with
    up,             \* g_seamless_shell of each copy
    open,           \* has the copy its handles?
    calls,          \* calls of vchannel_write and vchannel_block made so far
    log,            \* history: what vchannel_process did with each message,
    sent,           \* and those whose text went to the virtual channel
    fails           \* how often the virtual channel or the semaphore failed

mutexVars == <<owner, depth, abandoned>>
bracketVars == <<bracket, held, kept>>
copyVars == <<up, open, calls>>
readVars == <<serial, log, sent, fails>>
vars == <<mutexVars, evwr, evrd, queue, pc, via, bracketVars, copyVars, readVars>>

Dead(t) == pc[t] = "dead"
Goto(t, label) == pc' = [pc EXCEPT ![t] = label]

\* The shell runs vchannel_open before any hook is set.
Init ==
    /\ owner = NoOne /\ depth = 0 /\ abandoned = FALSE
    /\ evwr = FALSE /\ evrd = FALSE
    /\ queue = <<>> /\ serial = 0
    /\ pc = [t \in Threads |-> "idle"]
    /\ via = [t \in Threads |-> IF t = Shell THEN ShellExe ELSE t]
    /\ bracket = [t \in Threads |-> NoOne] /\ held = [t \in Threads |-> FALSE]
    /\ kept = [t \in Threads |-> 0]
    /\ up = [c \in Copies |-> TRUE]
    /\ open = [c \in Copies |-> c = ShellExe]
    /\ calls = [c \in Copies |-> 0]
    /\ log = <<>> /\ sent = <<>> /\ fails = 0

-----------------------------------------------------------------------------
(* The mutex and the events.  Definitions that end in _ are the next one   *)
(* with a slip in it; the properties have to tell the two apart.           *)

Available(t) == owner \in {NoOne, t}

Acquire(t) ==
    /\ Available(t)
    /\ owner' = t /\ depth' = depth + 1 /\ abandoned' = FALSE

\* One release undoes all acquisitions.
Release_(t) ==
    /\ owner' = IF owner = t THEN NoOne ELSE owner
    /\ depth' = IF owner = t THEN 0 ELSE depth
    /\ UNCHANGED abandoned

\* ReleaseMutex fails, unheeded, for a thread that is not the owner.
Release(t) ==
    /\ owner' = IF owner = t /\ depth = 1 THEN NoOne ELSE owner
    /\ depth' = IF owner = t THEN depth - 1 ELSE depth
    /\ UNCHANGED abandoned

Waiting == {t \in Threads : pc[t] = "waitRead"}

\* The reader does not tell the writers.
SetReadEvent_(fromPc) == pc' = fromPc /\ UNCHANGED evrd

\* SetEvent on an auto-reset event releases one waiting thread, or stays set;
\* setting it twice before a thread waits is setting it once.
SetReadEvent(fromPc) ==
    \/ Waiting = {} /\ evrd' = TRUE /\ pc' = fromPc
    \/ /\ UNCHANGED evrd
       /\ \E w \in Waiting : pc' = [fromPc EXCEPT ![w] = "writeLock"]

\* Can the thread do a step that is not a timeout?  The shell's main loop
\* comes back to vchannel_process by itself, so it can whenever evwr is set.
CanGoOn(t) ==
    CASE pc[t] \in {"dead", "waitRead"} -> FALSE
      [] pc[t] \in {"blockLock", "writeLock", "procLock", "giveUp"} -> Available(t)
      [] pc[t] = "idle" -> bracket[t] # NoOne \/ (t = Shell /\ evwr)
      [] OTHER -> TRUE

\* The waits of 10 seconds: the steps between them take micro- to milliseconds.
Late == Patient => \A t \in Threads : ~ CanGoOn(t)

-----------------------------------------------------------------------------
(* vchannel_block and vchannel_unblock.                                    *)

\* A thread calls one of the two functions with one of its copies.
Call(c) ==
    /\ calls[c] < MaxCalls
    /\ calls' = [calls EXCEPT ![c] = @ + 1]
    /\ via' = [via EXCEPT ![ThreadOf(c)] = c]

\* With a handle that is not open yet, the wait fails at once, unheeded.
Block(c) ==
    LET t == ThreadOf(c) IN
    /\ c \in BlockUsers
    /\ pc[t] = "idle" /\ bracket[t] = NoOne
    /\ IF open[c]
       THEN Goto(t, "blockLock") /\ UNCHANGED bracket
       ELSE bracket' = [bracket EXCEPT ![t] = c] /\ UNCHANGED pc
    /\ Call(c)
    /\ UNCHANGED <<mutexVars, evwr, evrd, queue, held, kept, up, open, readVars>>

\* The wait is INFINITE and does not look at WAIT_ABANDONED.
BlockLock(t) ==
    /\ pc[t] = "blockLock"
    /\ Acquire(t)
    /\ Goto(t, "idle")
    /\ bracket' = [bracket EXCEPT ![t] = via[t]] /\ held' = [held EXCEPT ![t] = TRUE]
    /\ UNCHANGED <<evwr, evrd, queue, via, kept, copyVars, readVars>>

\* With a handle that a write has opened meanwhile, it gives back what it did
\* not take: nothing, unless an error return has left the thread the mutex.
Unblock(t) ==
    /\ pc[t] = "idle" /\ bracket[t] # NoOne
    /\ IF open[bracket[t]] THEN Release(t) ELSE UNCHANGED mutexVars
    /\ kept' = IF ~ held[t] /\ open[bracket[t]] /\ kept[t] > 0
               THEN [kept EXCEPT ![t] = @ - 1] ELSE kept
    /\ bracket' = [bracket EXCEPT ![t] = NoOne] /\ held' = [held EXCEPT ![t] = FALSE]
    /\ UNCHANGED <<evwr, evrd, queue, pc, via, copyVars, readVars>>

-----------------------------------------------------------------------------
(* vchannel_write.                                                         *)

\* Named objects live as long as a process has a handle of them.
ObjectsExist == \E c \in Copies : open[c] /\ ~ Dead(ThreadOf(c))

\* The first call of a copy resets the indices, as vchannel_open does.
Write_(c) ==
    LET t == ThreadOf(c) IN
    /\ c \in Writers
    /\ pc[t] = "idle" /\ bracket[t] \in {NoOne, c}
    /\ up[c] /\ ObjectsExist
    /\ Call(c)
    /\ open' = [open EXCEPT ![c] = TRUE]
    /\ queue' = IF open[c] THEN queue ELSE <<>>
    /\ Goto(t, "writeLock")
    /\ UNCHANGED <<mutexVars, evwr, evrd, bracketVars, up, readVars>>

\* A copy's first call opens the handles; if that fails it is its last.
Write(c) ==
    LET t == ThreadOf(c) IN
    /\ c \in Writers
    /\ pc[t] = "idle" /\ bracket[t] \in {NoOne, c}
    /\ up[c]
    /\ Call(c)
    /\ IF ObjectsExist
       THEN open' = [open EXCEPT ![c] = TRUE] /\ Goto(t, "writeLock") /\ UNCHANGED up
       ELSE up' = [up EXCEPT ![c] = FALSE] /\ UNCHANGED <<open, pc>>
    /\ UNCHANGED <<mutexVars, evwr, evrd, queue, bracketVars, readVars>>

Mute(t) == up' = [up EXCEPT ![via[t]] = FALSE]

\* The result is compared with WAIT_OBJECT_0 alone: WAIT_ABANDONED, which
\* gives the mutex to the caller, is a failure too - and nothing releases it.
WriteLock(t) ==
    /\ pc[t] = "writeLock"
    /\ Acquire(t)
    /\ IF abandoned
       THEN Mute(t) /\ Goto(t, "idle") /\ kept' = [kept EXCEPT ![t] = @ + 1]
       ELSE Goto(t, "writeCheck") /\ UNCHANGED <<up, kept>>
    /\ UNCHANGED <<evwr, evrd, queue, via, bracket, held, open, calls, readVars>>

\* A timeout is taken for success.
WriteLockTimeout_(t) ==
    /\ pc[t] = "writeLock" /\ ~ Available(t) /\ Late
    /\ Goto(t, "writeCheck")
    /\ UNCHANGED <<mutexVars, evwr, evrd, queue, via, bracketVars, copyVars, readVars>>

WriteLockTimeout(t) ==
    /\ pc[t] = "writeLock" /\ ~ Available(t) /\ Late
    /\ Mute(t) /\ Goto(t, "idle")
    /\ UNCHANGED <<mutexVars, evwr, evrd, queue, via, bracketVars, open, calls, readVars>>

Load(q) == FoldSeq(LAMBDA m, sum : Weight[m.from] + sum, 0, q)
Fits(c) == Load(queue) + Weight[c] <= Capacity

Copy(t) ==
    /\ pc[t] = "writeCheck" /\ Fits(via[t])
    /\ queue' = Append(queue, [from |-> via[t], n |-> calls[via[t]]])
    /\ Goto(t, "signal")
    /\ UNCHANGED <<mutexVars, evwr, evrd, via, bracketVars, copyVars, readVars>>

NoRoom(t) ==
    /\ pc[t] = "writeCheck" /\ ~ Fits(via[t])
    /\ Release(t)
    /\ Goto(t, "toWait")
    /\ UNCHANGED <<evwr, evrd, queue, via, bracketVars, copyVars, readVars>>

WaitRead(t) ==
    /\ pc[t] = "toWait"
    /\ Goto(t, IF evrd THEN "writeLock" ELSE "waitRead")
    /\ evrd' = FALSE
    /\ UNCHANGED <<mutexVars, evwr, queue, via, bracketVars, copyVars, readVars>>

\* The wait is INFINITE.
WaitReadTimeout_(t) == FALSE

WaitReadTimeout(t) ==
    /\ pc[t] = "waitRead" /\ Late
    /\ Goto(t, "giveUp")
    /\ UNCHANGED <<mutexVars, evwr, evrd, queue, via, bracketVars, copyVars, readVars>>

\* It waits for the mutex, not caring whether it gets it, and releases it.
GiveUp(t) ==
    /\ pc[t] = "giveUp"
    /\ \/ Available(t) /\ abandoned' = FALSE
       \/ ~ Available(t) /\ Late /\ UNCHANGED abandoned
    /\ Mute(t) /\ Goto(t, "idle")
    /\ UNCHANGED <<owner, depth, evwr, evrd, queue, via, bracketVars, open, calls, readVars>>

\* The writer does not tell the shell.
Signal_(t) ==
    /\ pc[t] = "signal"
    /\ Goto(t, "release")
    /\ UNCHANGED <<mutexVars, evwr, evrd, queue, via, bracketVars, copyVars, readVars>>

Signal(t) ==
    /\ pc[t] = "signal"
    /\ evwr' = TRUE
    /\ Goto(t, "release")
    /\ UNCHANGED <<mutexVars, evrd, queue, via, bracketVars, copyVars, readVars>>

WriteDone(t) ==
    /\ pc[t] = "release"
    /\ Release(t)
    /\ Goto(t, "idle")
    /\ UNCHANGED <<evwr, evrd, queue, via, bracketVars, copyVars, readVars>>

-----------------------------------------------------------------------------
(* vchannel_process.                                                       *)

ProcessBegin ==
    /\ pc[Shell] = "idle" /\ bracket[Shell] = NoOne
    /\ evwr /\ evwr' = FALSE
    /\ Goto(Shell, "procLock")
    /\ UNCHANGED <<mutexVars, evrd, queue, via, bracketVars, copyVars, readVars>>

ProcessLock ==
    /\ pc[Shell] = "procLock"
    /\ Acquire(Shell)
    /\ Goto(Shell, "procLoop")
    /\ UNCHANGED <<evwr, evrd, queue, via, bracketVars, copyVars, readVars>>

\* The early return forgets the mutex.
ProcessDone_ ==
    /\ pc[Shell] = "procLoop" /\ queue = <<>>
    /\ Goto(Shell, "idle")
    /\ UNCHANGED <<mutexVars, evwr, evrd, queue, via, bracketVars, copyVars, readVars>>

ProcessDone ==
    /\ pc[Shell] = "procLoop" /\ queue = <<>>
    /\ Release(Shell)
    /\ Goto(Shell, "idle")
    /\ UNCHANGED <<evwr, evrd, queue, via, bracketVars, copyVars, readVars>>

\* The limit of the semaphore is forgotten.
PrevSerial_ == serial

\* The semaphore at its limit is emptied and starts again.
PrevSerial == IF serial = MaxSerial THEN 0 ELSE serial

\* ... unless it cannot be raised again then: this return forgets the mutex,
\* and the messages stay in the ring.
SerialFails ==
    /\ pc[Shell] = "procLoop" /\ queue # <<>>
    /\ serial = MaxSerial /\ serial' = 0
    /\ fails < MaxFails /\ fails' = fails + 1
    /\ Goto(Shell, "idle")
    /\ kept' = [kept EXCEPT ![Shell] = @ + 1]
    /\ UNCHANGED <<mutexVars, evwr, evrd, queue, via, bracket, held, copyVars, log, sent>>

\* Any other error leaves the count as it is, and prev_serial unset: this
\* stands for whatever it holds.
Unset == MaxSerial + 1

\* The message is built and written to the virtual channel in two calls,
\* the text and the newline, and only the second one's result is looked at.
\* If that one fails the loop ends, whatever is left in the ring.
ProcessMessage ==
    LET m == Head(queue) IN
    \E counted, text, newline \in BOOLEAN :
    /\ pc[Shell] = "procLoop" /\ queue # <<>>
    /\ serial' = IF counted THEN PrevSerial + 1 ELSE serial
    /\ m.from \in Oversize => ~ text /\ ~ newline
    /\ fails' = fails + (IF counted THEN 0 ELSE 1)
                     + (IF m.from \in Oversize \/ (text /\ newline) THEN 0 ELSE 1)
    /\ fails' <= MaxFails
    /\ queue' = Tail(queue)
    /\ log' = Append(log, [msg |-> m, serial |-> IF counted THEN PrevSerial ELSE Unset,
                           text |-> text, newline |-> newline])
    /\ sent' = IF text THEN Append(sent, m) ELSE sent
    /\ IF newline \/ m.from \in Oversize
       THEN SetReadEvent(pc) /\ UNCHANGED mutexVars
       ELSE SetReadEvent([pc EXCEPT ![Shell] = "idle"]) /\ Release(Shell)
    /\ UNCHANGED <<evwr, via, bracketVars, copyVars>>

-----------------------------------------------------------------------------
\* A process is terminated; the mutex it has is abandoned.
Die(t) ==
    /\ t \in MayDie /\ ~ Dead(t)
    /\ Goto(t, "dead")
    /\ IF owner = t
       THEN owner' = NoOne /\ depth' = 0 /\ abandoned' = TRUE
       ELSE UNCHANGED mutexVars
    /\ bracket' = [bracket EXCEPT ![t] = NoOne] /\ held' = [held EXCEPT ![t] = FALSE]
    /\ kept' = [kept EXCEPT ![t] = 0]
    /\ UNCHANGED <<evwr, evrd, queue, via, copyVars, readVars>>

\* The steps that take a thread out of vchannel_write.
Writing(t) ==
    \/ WriteLock(t) \/ WriteLockTimeout(t)
    \/ Copy(t) \/ NoRoom(t)
    \/ WaitRead(t) \/ WaitReadTimeout(t) \/ GiveUp(t)
    \/ Signal(t) \/ WriteDone(t)

Process == ProcessBegin \/ ProcessLock \/ SerialFails \/ ProcessMessage \/ ProcessDone

Next ==
    \/ \E c \in Copies : Block(c) \/ Write(c)
    \/ \E t \in Threads : BlockLock(t) \/ Unblock(t) \/ Writing(t) \/ Die(t)
    \/ Process

\* Threads are scheduled, and the shell's main loop calls vchannel_process in
\* each turn.  The mutex need not be fair: the calls are finite in number.
Fairness ==
    /\ \A t \in Threads : WF_vars(Writing(t) \/ BlockLock(t) \/ Unblock(t))
    /\ WF_vars(Process)

Spec == Init /\ [][Next]_vars /\ Fairness

-----------------------------------------------------------------------------
(***************************************************************************)
(* Properties.                                                             *)
(***************************************************************************)

Labels == {"idle", "blockLock", "writeLock", "writeCheck", "signal", "release",
           "toWait", "waitRead", "giveUp", "procLock", "procLoop", "dead"}

\* The types of the variables.
TypeOK ==
    /\ owner \in Threads \cup {NoOne} /\ depth \in Nat /\ abandoned \in BOOLEAN
    /\ evwr \in BOOLEAN /\ evrd \in BOOLEAN
    /\ queue \in Seq(Message)
    /\ serial \in 0 .. MaxSerial
    /\ pc \in [Threads -> Labels]
    /\ via \in [Threads -> Copies]
    /\ \A t \in Threads : ThreadOf(via[t]) = t
    /\ bracket \in [Threads -> Copies \cup {NoOne}] /\ held \in [Threads -> BOOLEAN]
    /\ kept \in [Threads -> Nat]
    /\ up \in [Copies -> BOOLEAN] /\ open \in [Copies -> BOOLEAN]
    /\ calls \in [Copies -> 0 .. MaxCalls]
    /\ log \in Seq([msg : Message, serial : Nat, text : BOOLEAN, newline : BOOLEAN])
    /\ sent \in Seq(Message)
    /\ fails \in Nat

\* The labels at which the code touches g_buffer, having taken the mutex.
Inside(t) == pc[t] \in {"writeCheck", "signal", "release", "procLoop"}

\* The ring is touched by the owner of the mutex only, whatever times out, is
\* killed, gives up or is nested in vchannel_block.
RingIsLocked == \A t \in Threads : Inside(t) => owner = t

NoOneDied == \A t \in Threads : ~ Dead(t)

\* A thread has the mutex as often as it owes it a release: once for its
\* bracket, once for the call it is in, and for what it was left with by the
\* two returns that forget the mutex - of a writer that inherited it, and of
\* vchannel_process when the serial cannot be restarted.  Nothing else, in
\* whatever order threads time out, give up, nest or die: each other way out
\* gives back what it took, and none gives back what is not its own.
Due(t) == (IF held[t] THEN 1 ELSE 0) + (IF Inside(t) THEN 1 ELSE 0) + kept[t]

MutexIsBalanced ==
    /\ owner = NoOne => depth = 0
    /\ \A t \in Threads :
          /\ owner = t <=> Due(t) # 0
          /\ owner = t => depth = Due(t)

\* No announcement is lost: a ring that holds messages is one whose writer is
\* about to set evwr, or evwr is set, or the shell has taken it and is on its
\* way - unless someone was killed or the virtual channel failed.
QueueIsAnnounced ==
    NoOneDied /\ fails = 0 /\ queue # <<>> =>
        \/ evwr
        \/ \E t \in Threads : pc[t] = "signal"
        \/ pc[Shell] \in {"procLock", "procLoop"}

\* The serials of the messages the semaphore counted go up by one, whether
\* they were sent or not, and start again at its limit - also when restarting
\* failed in between; the client relies on them to order what it sees against
\* what it asks for.  The number of a message that was not counted says nothing.
Counted == {i \in 1 .. Len(log) : log[i].serial # Unset}

SerialsAreConsecutive ==
    \A i, j \in Counted :
        i < j /\ (i + 1 .. j - 1) \cap Counted = {}
            => log[j].serial = (log[i].serial + 1) % MaxSerial

\* A library copy goes mute - for good - only if the shell was killed, which
\* is what vchannel_write says it assumes.
MuteOnlyIfShellKilled == \A c \in Copies : up[c] \/ Dead(Shell)

\* Between a vchannel_block that got the mutex and its vchannel_unblock no
\* message of another copy gets into the ring, also while and after the caller
\* writes some of its own there: what a hook reports of its window is not mixed
\* with what others do.  It says nothing of a bracket entered with a copy that
\* has no handle yet, as each copy's first is: that one locks nobody out.
BracketIsQuiet ==
    [][\A t \in Threads : held[t] /\ Len(queue') > Len(queue)
          => Last(queue').from = bracket[t]]_vars

\* Whatever happens to the shell, vchannel_write comes back.
WritesReturn ==
    \A t \in Threads : pc[t] = "writeLock" ~> pc[t] \in {"idle", "dead"}

\* The promise: messages go in whole, come out in order, once.
Taken == [i \in 1 .. Len(log) |-> log[i].msg]

Fifo == INSTANCE MessageFifo WITH
    Messages <- Message,
    MayDiscard <- MaxFails > 0 \/ Oversize # {},
    accepted <- Taken \o queue,
    taken <- Len(log),
    delivered <- sent

ImplementsSafeFifo == Fifo!SafeFifoSpec
ImplementsFifo == Fifo!FifoSpec
=============================================================================
