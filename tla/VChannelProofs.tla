--------------------------- MODULE VChannelProofs ---------------------------
(***************************************************************************)
(* Proofs about VChannel, for any set of applications, any sizes and       *)
(* bounds, and any choice of who may be killed.                            *)
(***************************************************************************)
EXTENDS VChannel, TLAPS

\* A thread and its copies.
LEMMA CopyOwner ==
    /\ \A c \in Copies : ThreadOf(c) \in Threads
    /\ \A t \in Apps : t \in Copies /\ t \in Threads /\ ThreadOf(t) = t
    /\ ShellExe \in Copies /\ ThreadOf(ShellExe) = Shell
    /\ Shell \in Threads
BY NamesAssumption DEF Copies, Threads, ThreadOf

LEMMA NoOneIsNobody == NoOne \notin Threads /\ NoOne \notin Copies
BY NamesAssumption DEF Copies, Threads

\* The type invariant in four parts: the mutex - which has an owner exactly
\* if it was acquired -, where the threads are, the flags, and the data.
MutexOK ==
    /\ owner \in Threads \cup {NoOne} /\ depth \in Nat
    /\ owner = NoOne <=> depth = 0

PlacesOK ==
    /\ pc \in [Threads -> Labels]
    /\ via \in [Threads -> Copies]
    /\ \A t \in Threads : ThreadOf(via[t]) = t
    /\ bracket \in [Threads -> Copies \cup {NoOne}]

FlagsOK ==
    /\ abandoned \in BOOLEAN /\ evwr \in BOOLEAN /\ evrd \in BOOLEAN
    /\ held \in [Threads -> BOOLEAN]
    /\ up \in [Copies -> BOOLEAN] /\ open \in [Copies -> BOOLEAN]

DataOK ==
    /\ queue \in Seq(Message)
    /\ serial \in 0 .. MaxSerial
    /\ calls \in [Copies -> 0 .. MaxCalls]
    /\ log \in Seq([msg : Message, serial : Nat, text : BOOLEAN, newline : BOOLEAN])
    /\ sent \in Seq(Message)
    /\ fails \in Nat
    /\ kept \in [Threads -> Nat]

TypeInv == MutexOK /\ PlacesOK /\ FlagsOK /\ DataOK

LEMMA TypeInvSplits == TypeInv => TypeOK
BY DEF TypeInv, MutexOK, PlacesOK, FlagsOK, DataOK, TypeOK

-----------------------------------------------------------------------------
\* What a step does with the mutex.
LEMMA MutexStep ==
    ASSUME MutexOK, NEW t \in Threads,
           Acquire(t) \/ Release(t) \/ UNCHANGED mutexVars
    PROVE  MutexOK'
<1> USE DEF MutexOK
<1>1. CASE Acquire(t)
  BY <1>1, NoOneIsNobody DEF Acquire
<1>2. CASE Release(t)
  BY <1>2, NoOneIsNobody DEF Release
<1>3. CASE UNCHANGED mutexVars
  BY <1>3 DEF mutexVars
<1> QED BY <1>1, <1>2, <1>3

LEMMA MutexInv == MutexOK /\ [Next]_vars => MutexOK'
<1> SUFFICES ASSUME MutexOK, [Next]_vars PROVE MutexOK'
  OBVIOUS
<1>1. ASSUME NEW t \in Threads, Die(t) PROVE MutexOK'
  BY <1>1 DEF Die, MutexOK, mutexVars
<1>2. CASE \E t \in Threads : Acquire(t) \/ Release(t)
  BY <1>2, MutexStep
<1>3. CASE UNCHANGED mutexVars
  BY <1>3, MutexStep, CopyOwner
<1>4. ASSUME NEW c \in Copies, Block(c) \/ Write(c) PROVE UNCHANGED mutexVars
  BY <1>4 DEF Block, Write
<1>5. ASSUME NEW t \in Threads, BlockLock(t) \/ Unblock(t)
      PROVE  Acquire(t) \/ Release(t) \/ UNCHANGED mutexVars
  BY <1>5 DEF BlockLock, Unblock
<1>6. ASSUME NEW t \in Threads, Writing(t)
      PROVE  Acquire(t) \/ Release(t) \/ UNCHANGED <<owner, depth>>
  BY <1>6 DEF Writing, WriteLock, WriteLockTimeout, Copy, NoRoom, WaitRead,
     WaitReadTimeout, GiveUp, Signal, WriteDone, mutexVars
<1>7. CASE Process
  <2>1. Acquire(Shell) \/ Release(Shell) \/ UNCHANGED mutexVars
    BY <1>7 DEF Process, ProcessBegin, ProcessLock, SerialFails, ProcessDone, ProcessMessage
  <2> QED BY <2>1, MutexStep, CopyOwner
<1>8. CASE UNCHANGED <<owner, depth>>
  BY <1>8 DEF MutexOK
<1>9. UNCHANGED vars => UNCHANGED mutexVars
  BY DEF vars
<1> QED BY <1>1, <1>2, <1>3, <1>4, <1>5, <1>6, <1>7, <1>8, <1>9 DEF Next

LEMMA PlacesInv ==
    ASSUME PlacesOK, [Next]_vars
    PROVE  PlacesOK'
<1> USE CopyOwner DEF PlacesOK, Goto, Labels, bracketVars
<1>1. ASSUME NEW c \in Copies, Block(c) \/ Write(c) PROVE PlacesOK'
  <2>1. via' = [via EXCEPT ![ThreadOf(c)] = c]
    BY <1>1 DEF Block, Write, Call
  <2>2. via' \in [Threads -> Copies] /\ \A t \in Threads : ThreadOf(via'[t]) = t
    BY <2>1
  <2>3. pc' \in [Threads -> Labels] /\ bracket' \in [Threads -> Copies \cup {NoOne}]
    BY <1>1 DEF Block, Write
  <2> QED BY <2>2, <2>3
<1>2. ASSUME NEW t \in Threads, BlockLock(t) \/ Unblock(t) \/ Die(t) PROVE PlacesOK'
  BY <1>2 DEF BlockLock, Unblock, Die
<1>3. ASSUME NEW t \in Threads, Writing(t) PROVE PlacesOK'
  BY <1>3 DEF Writing, WriteLock, WriteLockTimeout, Copy, NoRoom, WaitRead,
     WaitReadTimeout, GiveUp, Signal, WriteDone
<1>4. CASE Process
  BY ZenonT(40), <1>4 DEF Process, ProcessBegin, ProcessLock, SerialFails, ProcessDone, ProcessMessage,
     SetReadEvent, Waiting
<1>5. CASE UNCHANGED vars
  BY <1>5 DEF vars
<1> QED BY <1>1, <1>2, <1>3, <1>4, <1>5 DEF Next

LEMMA FlagsInv ==
    ASSUME FlagsOK, PlacesOK, [Next]_vars
    PROVE  FlagsOK'
<1> USE DEF FlagsOK, mutexVars, copyVars, bracketVars
<1>1. ASSUME NEW c \in Copies, Block(c) \/ Write(c) PROVE FlagsOK'
  BY <1>1, Zenon DEF Block, Write, Call
<1>2. ASSUME NEW t \in Threads, BlockLock(t) \/ Unblock(t) \/ Die(t) PROVE FlagsOK'
  BY <1>2, Zenon DEF BlockLock, Unblock, Die, Acquire, Release
<1>3. ASSUME NEW t \in Threads, Writing(t) PROVE FlagsOK'
  BY <1>3, Zenon DEF Writing, WriteLock, WriteLockTimeout, Copy, NoRoom, WaitRead,
     WaitReadTimeout, GiveUp, Signal, WriteDone, Acquire, Release, Mute
<1>4. CASE Process
  <2>1. CASE ProcessBegin \/ ProcessLock \/ SerialFails \/ ProcessDone
    BY <2>1, Zenon DEF ProcessBegin, ProcessLock, SerialFails, ProcessDone, SetReadEvent, Acquire,
       Release
  <2>2. CASE ProcessMessage
    BY <2>2, Zenon DEF ProcessMessage, SetReadEvent, Acquire, Release
  <2> QED BY <1>4, <2>1, <2>2 DEF Process
<1>5. CASE UNCHANGED vars
  BY <1>5, Zenon DEF vars
<1> QED BY <1>1, <1>2, <1>3, <1>4, <1>5 DEF Next

LEMMA DataInv ==
    ASSUME DataOK, PlacesOK, [Next]_vars
    PROVE  DataOK'
<1> USE DEF DataOK, readVars, copyVars
<1>1. ASSUME NEW c \in Copies, Block(c) \/ Write(c) PROVE DataOK'
  <2>1. calls[c] < MaxCalls /\ calls' = [calls EXCEPT ![c] = @ + 1]
    BY <1>1 DEF Block, Write, Call
  <2>2. calls' \in [Copies -> 0 .. MaxCalls]
    BY <2>1, SizesAssumption
  <2>3. UNCHANGED <<queue, serial, log, sent, fails>>
    BY <1>1 DEF Block, Write
  <2>4. kept' = kept
    BY <1>1 DEF Block, Write, bracketVars
  <2> QED BY <2>2, <2>3, <2>4
<1>2. ASSUME NEW t \in Threads, BlockLock(t) \/ Unblock(t) \/ Die(t) PROVE DataOK'
  <2>1. kept' \in [Threads -> Nat]
    BY <1>2 DEF BlockLock, Unblock, Die
  <2>2. UNCHANGED <<queue, calls, readVars>>
    BY <1>2 DEF BlockLock, Unblock, Die
  <2> QED BY <2>1, <2>2
<1>3. ASSUME NEW t \in Threads, Writing(t) PROVE DataOK'
  <2>1. CASE Copy(t)
    <3>1. via[t] \in Copies /\ calls[via[t]] \in 0 .. MaxCalls
      BY DEF PlacesOK
    <3>2. [from |-> via[t], n |-> calls[via[t]]] \in Message
      BY <3>1 DEF Message
    <3>3. queue' \in Seq(Message)
      BY <2>1, <3>2 DEF Copy
    <3> QED BY <2>1, <3>3 DEF Copy, bracketVars
  <2>2. CASE WriteLock(t)
    <3>0. kept' = kept \/ kept' = [kept EXCEPT ![t] = @ + 1]
      BY <2>2, Zenon DEF WriteLock
    <3>1. kept' \in [Threads -> Nat]
      BY <3>0
    <3>2. UNCHANGED <<queue, calls, readVars>>
      BY <2>2 DEF WriteLock
    <3> QED BY <3>1, <3>2
  <2>3. CASE UNCHANGED <<queue, calls, kept, readVars>>
    BY <2>3
  <2> QED BY <1>3, <2>3, <2>1, <2>2 DEF Writing, WriteLockTimeout, NoRoom,
          WaitRead, WaitReadTimeout, GiveUp, Signal, WriteDone, bracketVars
<1>4. CASE ProcessMessage
  <2>1. PICK number \in {PrevSerial, Unset}, text \in BOOLEAN, newline \in BOOLEAN :
           /\ queue # <<>> /\ queue' = Tail(queue)
           /\ serial' \in {PrevSerial + 1, serial}
           /\ log' = Append(log, [msg |-> Head(queue), serial |-> number,
                                  text |-> text, newline |-> newline])
           /\ sent' = (IF text THEN Append(sent, Head(queue)) ELSE sent)
           /\ calls' = calls /\ kept' = kept
    BY <1>4 DEF ProcessMessage, bracketVars
  <2>2. Head(queue) \in Message /\ Tail(queue) \in Seq(Message)
    BY <2>1
  <2>3. number \in Nat /\ serial' \in 0 .. MaxSerial
    BY <2>1, SizesAssumption DEF PrevSerial, Unset
  <2>4. [msg |-> Head(queue), serial |-> number, text |-> text, newline |-> newline]
           \in [msg : Message, serial : Nat, text : BOOLEAN, newline : BOOLEAN]
    BY <2>2, <2>3, Zenon
  <2>5. log' \in Seq([msg : Message, serial : Nat, text : BOOLEAN, newline : BOOLEAN])
    BY <2>1, <2>4
  <2>6. fails' \in Nat
    BY <1>4 DEF ProcessMessage
  <2> QED BY <2>1, <2>2, <2>3, <2>5, <2>6
<1>5. CASE SerialFails
  <2>0. serial' = 0 /\ fails' = fails + 1 /\ kept' = [kept EXCEPT ![Shell] = @ + 1]
    BY <1>5 DEF SerialFails
  <2>1. kept' \in [Threads -> Nat]
    BY <2>0, CopyOwner
  <2>3. serial' \in 0 .. MaxSerial /\ fails' \in Nat
    BY <2>0, SizesAssumption
  <2>2. UNCHANGED <<queue, calls, log, sent>>
    BY <1>5 DEF SerialFails
  <2> QED BY <2>1, <2>2, <2>3
<1>6. CASE UNCHANGED <<queue, calls, kept, readVars>>
  BY <1>6
<1>7. CASE Process
  BY <1>4, <1>5, <1>6, <1>7 DEF Process, ProcessBegin, ProcessLock, ProcessDone, bracketVars
<1>8. UNCHANGED vars => UNCHANGED <<queue, calls, kept, readVars>>
  BY DEF vars, bracketVars
<1> QED BY <1>1, <1>2, <1>3, <1>6, <1>7, <1>8 DEF Next

LEMMA TypeInit == Init => TypeInv
<1> SUFFICES ASSUME Init PROVE TypeInv
  OBVIOUS
<1>1. MutexOK
  BY DEF Init, MutexOK
<1>2. PlacesOK
  <2>1. \A t \in Threads : via[t] \in Copies /\ ThreadOf(via[t]) = t
    BY CopyOwner DEF Init, Threads
  <2> QED BY <2>1 DEF Init, PlacesOK, Labels
<1>3. FlagsOK
  BY Zenon DEF Init, FlagsOK
<1>4. DataOK
  BY SizesAssumption DEF Init, DataOK
<1> QED BY <1>1, <1>2, <1>3, <1>4 DEF TypeInv

LEMMA TypeStep == TypeInv /\ [Next]_vars => TypeInv'
BY MutexInv, PlacesInv, FlagsInv, DataInv DEF TypeInv

LEMMA TypeInvariance == Spec => []TypeInv
BY TypeInit, TypeStep, PTL DEF Spec

\* Type correctness, whoever is killed and whatever times out.
THEOREM TypeCorrect == Spec => []TypeOK
BY TypeInvariance, TypeInvSplits, PTL

-----------------------------------------------------------------------------
(***************************************************************************)
(* The ring is touched under the mutex only.                               *)
(***************************************************************************)

LEMMA LockStep ==
    ASSUME TypeInv, RingIsLocked, [Next]_vars
    PROVE  RingIsLocked'
<1> USE CopyOwner DEF RingIsLocked, Inside, Goto
<1> SUFFICES ASSUME NEW u \in Threads, Inside(u)' PROVE owner' = u
  OBVIOUS
<1>0. owner \in Threads \cup {NoOne} /\ pc \in [Threads -> Labels]
  BY DEF TypeInv, MutexOK, PlacesOK
<1>1. ASSUME NEW c \in Copies, Block(c) \/ Write(c) PROVE owner' = u
  BY <1>0, <1>1 DEF Block, Write, mutexVars
<1>2. ASSUME NEW t \in Threads, BlockLock(t) \/ Unblock(t) \/ Die(t) PROVE owner' = u
  <2>1. CASE BlockLock(t)
    BY <1>0, <2>1, NoOneIsNobody DEF BlockLock, Acquire, Available
  <2>2. CASE Unblock(t)
    <3>1. pc' = pc /\ ~ Inside(t)
      BY <2>2 DEF Unblock
    <3>2. u # t /\ owner = u
      BY <3>1
    <3> QED BY <2>2, <3>2 DEF Unblock, Release, mutexVars
  <2>3. CASE Die(t)
    <3>1. pc' = [pc EXCEPT ![t] = "dead"] /\ u # t
      BY <1>0, <2>3 DEF Die
    <3>2. owner = u
      BY <1>0, <3>1
    <3> QED BY <2>3, <3>1, <3>2 DEF Die, mutexVars
  <2> QED BY <1>2, <2>1, <2>2, <2>3
<1>3. ASSUME NEW t \in Threads, Writing(t) PROVE owner' = u
  <2>1. CASE WriteLock(t)
    BY <1>0, <2>1, NoOneIsNobody DEF WriteLock, Acquire, Available
  <2>2. CASE NoRoom(t)
    BY <1>0, <2>2 DEF NoRoom, Release
  <2>3. CASE WriteDone(t)
    BY <1>0, <2>3 DEF WriteDone, Release
  <2>4. CASE Copy(t)
    BY <1>0, <2>4 DEF Copy, mutexVars
  <2>5. CASE Signal(t)
    BY <1>0, <2>5 DEF Signal, mutexVars
  <2>6. CASE WaitRead(t)
    BY <1>0, <2>6 DEF WaitRead, mutexVars
  <2>7. CASE WriteLockTimeout(t) \/ WaitReadTimeout(t) \/ GiveUp(t)
    <3>1. owner' = owner /\ pc'[t] \in {"idle", "giveUp"}
      BY <1>0, <2>7 DEF WriteLockTimeout, WaitReadTimeout, GiveUp, mutexVars
    <3>2. \A w \in Threads \ {t} : pc'[w] = pc[w]
      BY <1>0, <2>7 DEF WriteLockTimeout, WaitReadTimeout, GiveUp
    <3> QED BY <3>1, <3>2
  <2> QED BY <1>3, <2>1, <2>2, <2>3, <2>4, <2>5, <2>6, <2>7 DEF Writing
<1>4. CASE Process
  <2>1. CASE ProcessBegin
    BY <1>0, <2>1 DEF ProcessBegin, mutexVars
  <2>2. CASE ProcessLock
    BY <1>0, <2>2, NoOneIsNobody DEF ProcessLock, Acquire, Available
  <2>3. CASE ProcessDone
    BY <1>0, <2>3 DEF ProcessDone, Release
  <2>4. CASE ProcessMessage
    <3>1. pc[Shell] = "procLoop"
      BY <2>4 DEF ProcessMessage
    <3>2. owner = Shell
      BY <3>1
    <3>3. CASE SetReadEvent(pc) /\ UNCHANGED mutexVars
      BY <1>0, <3>2, <3>3 DEF SetReadEvent, Waiting, mutexVars
    <3>4. CASE SetReadEvent([pc EXCEPT ![Shell] = "idle"])
      <4>1. pc'[u] \in {pc[u], "idle", "writeLock"} /\ pc'[Shell] \in {"idle", "writeLock"}
        BY <1>0, <3>4 DEF SetReadEvent
      <4>2. u # Shell /\ owner = u
        BY <4>1
      <4> QED BY <3>2, <4>2
    <3> QED BY <2>4, <3>3, <3>4 DEF ProcessMessage
  <2>5. CASE SerialFails
    BY <1>0, <2>5 DEF SerialFails, mutexVars
  <2> QED BY <1>4, <2>1, <2>2, <2>3, <2>4, <2>5 DEF Process
<1>5. CASE UNCHANGED vars
  BY <1>5 DEF vars, mutexVars
<1> QED BY <1>1, <1>2, <1>3, <1>4, <1>5 DEF Next

\* Mutual exclusion on the ring - with recursion, timeouts, abandoned mutexes
\* and killed processes.
THEOREM MutualExclusion == Spec => []RingIsLocked
<1>1. Init => RingIsLocked
  BY DEF Init, RingIsLocked, Inside
<1>2. TypeInv /\ RingIsLocked /\ [Next]_vars => RingIsLocked'
  BY LockStep
<1> QED BY <1>1, <1>2, TypeInvariance, PTL DEF Spec

-----------------------------------------------------------------------------
(***************************************************************************)
(* The mutex is given back as often as it was taken.  MutexIsBalanced is   *)
(* not inductive: it needs to be known at which labels a thread can have a *)
(* bracket - it could owe the mutex two releases for two of them - and     *)
(* that a bracket that got it has a handle to give it back with.           *)
(***************************************************************************)

BracketPlaces ==
    \A t \in Threads :
        /\ held[t] => bracket[t] # NoOne /\ open[bracket[t]]
        /\ pc[t] \in {"blockLock", "procLock", "procLoop"} => bracket[t] = NoOne
        /\ pc[t] = "blockLock" => open[via[t]]

BalanceInv == BracketPlaces /\ MutexIsBalanced

\* Nobody comes back from the dead.
LEMMA DeadStayDead ==
    ASSUME TypeInv, [Next]_vars, NoOneDied'
    PROVE  NoOneDied
<1> SUFFICES ASSUME NEW u \in Threads, pc[u] = "dead" PROVE pc'[u] = "dead"
  BY DEF NoOneDied, Dead
<1>0. pc \in [Threads -> Labels]
  BY DEF TypeInv, PlacesOK
<1> USE <1>0, CopyOwner DEF Goto
<1>1. ASSUME NEW c \in Copies, Block(c) \/ Write(c) PROVE pc'[u] = "dead"
  BY <1>1 DEF Block, Write
<1>2. ASSUME NEW t \in Threads, BlockLock(t) \/ Unblock(t) \/ Die(t) PROVE pc'[u] = "dead"
  BY <1>2 DEF BlockLock, Unblock, Die
<1>3. ASSUME NEW t \in Threads, Writing(t) PROVE pc'[u] = "dead"
  BY <1>3 DEF Writing, WriteLock, WriteLockTimeout, Copy, NoRoom, WaitRead,
     WaitReadTimeout, GiveUp, Signal, WriteDone
<1>4. CASE Process
  BY <1>4 DEF Process, ProcessBegin, ProcessLock, SerialFails, ProcessDone, ProcessMessage,
     SetReadEvent, Waiting
<1>5. CASE UNCHANGED vars
  BY <1>5 DEF vars
<1> QED BY <1>1, <1>2, <1>3, <1>4, <1>5 DEF Next

LEMMA BracketStep ==
    ASSUME TypeInv, BracketPlaces, [Next]_vars
    PROVE  BracketPlaces'
<1>0. /\ pc \in [Threads -> Labels] /\ via \in [Threads -> Copies]
      /\ bracket \in [Threads -> Copies \cup {NoOne}]
      /\ held \in [Threads -> BOOLEAN] /\ open \in [Copies -> BOOLEAN]
  BY DEF TypeInv, PlacesOK, FlagsOK
<1> USE <1>0, CopyOwner, NoOneIsNobody DEF BracketPlaces, Goto, bracketVars, copyVars
<1>1. ASSUME NEW c \in Copies, Block(c) PROVE BracketPlaces'
  BY <1>1 DEF Block, Call
<1>2. ASSUME NEW c \in Copies, Write(c) PROVE BracketPlaces'
  <2>1. /\ \A d \in Copies : open[d] => open'[d]
        /\ UNCHANGED <<bracket, held>>
        /\ \A t \in Threads \ {ThreadOf(c)} : pc'[t] = pc[t] /\ via'[t] = via[t]
        /\ pc'[ThreadOf(c)] \in {"idle", "writeLock"}
    BY <1>2 DEF Write, Call
  <2> QED BY <2>1
<1>3. ASSUME NEW t \in Threads, BlockLock(t) \/ Unblock(t) \/ Die(t) PROVE BracketPlaces'
  BY <1>3 DEF BlockLock, Unblock, Die
<1>4. ASSUME NEW t \in Threads, Writing(t) PROVE BracketPlaces'
  BY <1>4 DEF Writing, WriteLock, WriteLockTimeout, Copy, NoRoom, WaitRead,
     WaitReadTimeout, GiveUp, Signal, WriteDone
<1>5. CASE Process
  <2>1. UNCHANGED <<via, bracket, held, open>>
    BY <1>5 DEF Process, ProcessBegin, ProcessLock, SerialFails, ProcessDone, ProcessMessage
  <2>2. \A t \in Threads \ {Shell} : pc'[t] \in {pc[t], "writeLock"}
    <3>1. CASE ProcessBegin \/ ProcessLock \/ SerialFails \/ ProcessDone
      BY <3>1 DEF ProcessBegin, ProcessLock, SerialFails, ProcessDone, SetReadEvent, Waiting
    <3>2. CASE ProcessMessage
      BY <3>2 DEF ProcessMessage, SetReadEvent, Waiting
    <3> QED BY <1>5, <3>1, <3>2 DEF Process
  <2>3. bracket[Shell] = NoOne
    BY <1>5 DEF Process, ProcessBegin, ProcessLock, SerialFails, ProcessDone, ProcessMessage
  <2>4. pc'[Shell] # "blockLock"
    BY <1>5 DEF Process, ProcessBegin, ProcessLock, SerialFails, ProcessDone, ProcessMessage,
       SetReadEvent, Waiting
  <2> QED BY <2>1, <2>2, <2>3, <2>4
<1>6. CASE UNCHANGED vars
  BY <1>6 DEF vars
<1> QED BY <1>1, <1>2, <1>3, <1>4, <1>5, <1>6 DEF Next

\* What a step of thread t has to do to keep the balance.
LEMMA BalanceMove ==
    ASSUME TypeInv, TypeInv', MutexIsBalanced, NEW t \in Threads,
           \A u \in Threads \ {t} : Due(u)' = Due(u),
           \/ Acquire(t) /\ Due(t)' = Due(t) + 1
           \/ Release(t) /\ Due(t) = Due(t)' + 1
           \/ UNCHANGED <<owner, depth>> /\ Due(t)' = Due(t)
    PROVE  MutexIsBalanced'
<1>1. \A u \in Threads : Due(u) \in Nat /\ Due(u)' \in Nat
  <2>1. \A u \in Threads : kept[u] \in Nat /\ kept'[u] \in Nat
    BY DEF TypeInv, DataOK
  <2> QED BY <2>1 DEF Due
<1>2. MutexOK
  BY DEF TypeInv
<1> USE <1>1, <1>2, NoOneIsNobody DEF MutexIsBalanced, MutexOK
<1>3. CASE Acquire(t) /\ Due(t)' = Due(t) + 1
  BY <1>3 DEF Acquire, Available
<1>4. CASE Release(t) /\ Due(t) = Due(t)' + 1
  BY <1>4 DEF Release
<1>5. CASE UNCHANGED <<owner, depth>> /\ Due(t)' = Due(t)
  BY <1>5
<1> QED BY <1>3, <1>4, <1>5

LEMMA BalanceStep ==
    ASSUME TypeInv, BracketPlaces, MutexIsBalanced, [Next]_vars
    PROVE  MutexIsBalanced'
<1>0. /\ pc \in [Threads -> Labels] /\ held \in [Threads -> BOOLEAN]
      /\ kept \in [Threads -> Nat] /\ TypeInv'
  BY TypeStep DEF TypeInv, PlacesOK, FlagsOK, DataOK
<1> USE <1>0, CopyOwner DEF Goto, bracketVars, mutexVars, Due, Inside
<1>1. ASSUME NEW c \in Copies, Block(c) \/ Write(c) PROVE MutexIsBalanced'
  <2>1. UNCHANGED <<owner, depth>>
    BY <1>1 DEF Block, Write
  <2>2. \A u \in Threads : Due(u)' = Due(u)
    BY <1>1 DEF Block, Write
  <2> QED BY <2>1, <2>2, BalanceMove
<1>2. ASSUME NEW t \in Threads, BlockLock(t) PROVE MutexIsBalanced'
  <2>1. Acquire(t)
    BY <1>2 DEF BlockLock
  <2>2. ~ held[t]
    BY <1>2 DEF BlockLock, BracketPlaces
  <2>3. Due(t)' = Due(t) + 1 /\ \A u \in Threads \ {t} : Due(u)' = Due(u)
    BY <1>2, <2>2 DEF BlockLock
  <2> QED BY <2>1, <2>3, BalanceMove
<1>3. ASSUME NEW t \in Threads, Unblock(t) PROVE MutexIsBalanced'
  <2>1. /\ pc' = pc /\ pc[t] = "idle" /\ held' = [held EXCEPT ![t] = FALSE]
        /\ IF open[bracket[t]] THEN Release(t) ELSE UNCHANGED mutexVars
        /\ kept' = IF ~ held[t] /\ open[bracket[t]] /\ kept[t] > 0
                   THEN [kept EXCEPT ![t] = @ - 1] ELSE kept
    BY <1>3 DEF Unblock
  <2>2. \A u \in Threads \ {t} : Due(u)' = Due(u)
    BY <2>1
  <2>3. Due(t) = (IF held[t] THEN 1 ELSE 0) + kept[t] /\ Due(t)' = kept'[t]
    BY <2>1
  <2>4. CASE held[t]
    <3>1. Release(t) /\ kept' = kept
      BY <2>1, <2>4 DEF BracketPlaces
    <3>2. Due(t) = Due(t)' + 1
      BY <2>3, <2>4, <3>1
    <3> QED BY <2>2, <3>1, <3>2, BalanceMove
  <2>5. CASE ~ held[t] /\ open[bracket[t]] /\ kept[t] > 0
    <3>1. Release(t) /\ kept'[t] = kept[t] - 1
      BY <2>1, <2>5
    <3>2. Due(t) = Due(t)' + 1
      BY <2>3, <2>5, <3>1
    <3> QED BY <2>2, <3>1, <3>2, BalanceMove
  <2>6. CASE ~ held[t] /\ open[bracket[t]] /\ ~ kept[t] > 0
    <3>1. Release(t) /\ Due(t) = 0 /\ Due(t)' = Due(t)
      BY <2>1, <2>3, <2>6
    <3>2. UNCHANGED <<owner, depth>>
      BY <3>1 DEF Release, MutexIsBalanced
    <3> QED BY <2>2, <3>1, <3>2, BalanceMove
  <2>7. CASE ~ held[t] /\ ~ open[bracket[t]]
    <3>1. UNCHANGED <<owner, depth>> /\ Due(t)' = Due(t)
      BY <2>1, <2>3, <2>7
    <3> QED BY <2>2, <3>1, BalanceMove
  <2> QED BY <2>4, <2>5, <2>6, <2>7
<1>4. ASSUME NEW t \in Threads, WriteLock(t) PROVE MutexIsBalanced'
  <2>1. Acquire(t) /\ pc[t] = "writeLock" /\ held' = held
    BY <1>4 DEF WriteLock
  <2>2. CASE abandoned
    <3>1. pc' = [pc EXCEPT ![t] = "idle"] /\ kept' = [kept EXCEPT ![t] = @ + 1]
      BY <1>4, <2>2 DEF WriteLock
    <3>2. Due(t)' = Due(t) + 1 /\ \A u \in Threads \ {t} : Due(u)' = Due(u)
      BY <2>1, <3>1
    <3> QED BY <2>1, <3>2, BalanceMove
  <2>3. CASE ~ abandoned
    <3>1. pc' = [pc EXCEPT ![t] = "writeCheck"] /\ kept' = kept
      BY <1>4, <2>3 DEF WriteLock
    <3>2. Due(t)' = Due(t) + 1 /\ \A u \in Threads \ {t} : Due(u)' = Due(u)
      BY <2>1, <3>1
    <3> QED BY <2>1, <3>2, BalanceMove
  <2> QED BY <2>2, <2>3
<1>5. ASSUME NEW t \in Threads, NoRoom(t) \/ WriteDone(t) PROVE MutexIsBalanced'
  <2>1. Release(t)
    BY <1>5 DEF NoRoom, WriteDone
  <2>2. Due(t) = Due(t)' + 1 /\ \A u \in Threads \ {t} : Due(u)' = Due(u)
    BY <1>5 DEF NoRoom, WriteDone
  <2> QED BY <2>1, <2>2, BalanceMove
<1>6. ASSUME NEW t \in Threads,
             \/ WriteLockTimeout(t) \/ Copy(t) \/ WaitRead(t) \/ WaitReadTimeout(t)
             \/ GiveUp(t) \/ Signal(t)
      PROVE  MutexIsBalanced'
  <2>1. UNCHANGED <<owner, depth>>
    BY <1>6 DEF WriteLockTimeout, Copy, WaitRead, WaitReadTimeout, GiveUp, Signal
  <2>2. \A u \in Threads : Due(u)' = Due(u)
    BY <1>6 DEF WriteLockTimeout, Copy, WaitRead, WaitReadTimeout, GiveUp, Signal
  <2> QED BY <2>1, <2>2, BalanceMove
<1>7. CASE ProcessBegin
  <2>1. UNCHANGED <<owner, depth>> /\ \A u \in Threads : Due(u)' = Due(u)
    BY <1>7 DEF ProcessBegin
  <2> QED BY <2>1, BalanceMove
<1>8. CASE ProcessLock
  <2>1. Acquire(Shell)
    BY <1>8 DEF ProcessLock
  <2>2. Due(Shell)' = Due(Shell) + 1 /\ \A u \in Threads \ {Shell} : Due(u)' = Due(u)
    BY <1>8 DEF ProcessLock
  <2> QED BY <2>1, <2>2, BalanceMove
<1>9. CASE ProcessDone
  <2>1. Release(Shell)
    BY <1>9 DEF ProcessDone
  <2>2. Due(Shell) = Due(Shell)' + 1 /\ \A u \in Threads \ {Shell} : Due(u)' = Due(u)
    BY <1>9 DEF ProcessDone
  <2> QED BY <2>1, <2>2, BalanceMove
<1>10. CASE SerialFails
  <2>1. /\ UNCHANGED <<owner, depth, held>> /\ pc[Shell] = "procLoop"
        /\ pc' = [pc EXCEPT ![Shell] = "idle"] /\ kept' = [kept EXCEPT ![Shell] = @ + 1]
    BY <1>10 DEF SerialFails
  <2>2. \A u \in Threads : Due(u)' = Due(u)
    BY <2>1
  <2> QED BY <2>1, <2>2, BalanceMove
<1>11. CASE ProcessMessage
  <2>0. pc[Shell] = "procLoop" /\ held' = held /\ kept' = kept
    BY <1>11 DEF ProcessMessage
  <2>1. CASE SetReadEvent(pc) /\ UNCHANGED mutexVars
    <3>1. \A u \in Threads : Due(u)' = Due(u)
      BY <2>0, <2>1 DEF SetReadEvent, Waiting
    <3> QED BY <2>1, <3>1, BalanceMove
  <2>2. CASE SetReadEvent([pc EXCEPT ![Shell] = "idle"]) /\ Release(Shell)
    <3>1. Due(Shell) = Due(Shell)' + 1 /\ \A u \in Threads \ {Shell} : Due(u)' = Due(u)
      BY <2>0, <2>2 DEF SetReadEvent, Waiting
    <3> QED BY <2>2, <3>1, BalanceMove
  <2> QED BY <1>11, <2>1, <2>2 DEF ProcessMessage
<1>12. ASSUME NEW t \in Threads, Die(t) PROVE MutexIsBalanced'
  <2>1. Due(t)' = 0 /\ \A u \in Threads \ {t} : Due(u)' = Due(u)
    BY <1>12 DEF Die
  <2>2. IF owner = t THEN owner' = NoOne /\ depth' = 0 ELSE UNCHANGED <<owner, depth>>
    BY <1>12 DEF Die
  <2> HIDE DEF Due
  <2> QED BY <2>1, <2>2, NoOneIsNobody DEF MutexIsBalanced
<1>13. CASE UNCHANGED vars
  <2>1. UNCHANGED <<owner, depth>> /\ \A u \in Threads : Due(u)' = Due(u)
    BY <1>13 DEF vars
  <2> QED BY <2>1, BalanceMove
<1> QED BY <1>1, <1>2, <1>3, <1>4, <1>5, <1>6, <1>7, <1>8, <1>9, <1>10, <1>11, <1>12, <1>13
        DEF Next, Writing, Process

LEMMA BalanceInit == Init => BalanceInv
<1> SUFFICES ASSUME Init PROVE BalanceInv
  OBVIOUS
<1>1. \A t \in Threads : pc[t] = "idle" /\ held[t] = FALSE /\ kept[t] = 0
  BY DEF Init
<1>2. \A t \in Threads : Due(t) = 0 /\ owner # t
  BY <1>1, NoOneIsNobody DEF Init, Due, Inside
<1>3. MutexIsBalanced
  BY <1>2 DEF Init, MutexIsBalanced
<1>4. BracketPlaces
  BY <1>1 DEF BracketPlaces
<1> QED BY <1>3, <1>4 DEF BalanceInv

\* The balance is kept.
LEMMA BalanceInvariance == Spec => []BalanceInv
<1>1. TypeInv /\ BalanceInv /\ [Next]_vars => BalanceInv'
  BY BracketStep, BalanceStep DEF BalanceInv
<1> QED BY <1>1, BalanceInit, TypeInvariance, PTL DEF Spec

\* A thread has the mutex once for its bracket, once for the call it is in, and
\* as often as the two returns that forget it have left it with it, also when
\* others are killed; each other way out of the library gives it back.
THEOREM MutexIsGivenBack == Spec => []MutexIsBalanced
<1>1. BalanceInv => MutexIsBalanced
  BY DEF BalanceInv
<1> QED BY <1>1, BalanceInvariance, PTL

-----------------------------------------------------------------------------
(***************************************************************************)
(* No announcement is lost.                                                *)
(***************************************************************************)

\* Somebody is about to look at the ring, or will be made to.
Announced ==
    \/ evwr
    \/ \E t \in Threads : pc[t] = "signal"
    \/ pc[Shell] \in {"procLock", "procLoop"}

\* What vchannel_process does with a message.
LEMMA MessageTaken ==
    ASSUME TypeInv, ProcessMessage
    PROVE  \E number \in {PrevSerial, Unset}, text \in BOOLEAN, newline \in BOOLEAN :
              /\ queue # <<>> /\ queue' = Tail(queue)
              /\ Head(queue).from \in Oversize => ~ text /\ ~ newline
              /\ log' = Append(log, [msg |-> Head(queue), serial |-> number,
                                     text |-> text, newline |-> newline])
              /\ serial' = IF number = Unset THEN serial ELSE PrevSerial + 1
              /\ sent' = (IF text THEN Append(sent, Head(queue)) ELSE sent)
              /\ fails' \in Nat /\ fails' >= fails /\ fails' <= MaxFails
              /\ Head(queue).from \in Oversize \/ (text /\ newline) \/ fails' > fails
              /\ newline \/ Head(queue).from \in Oversize => SetReadEvent(pc)
<1>0. fails \in Nat /\ PrevSerial # Unset
  BY SizesAssumption DEF TypeInv, DataOK, PrevSerial, Unset
<1>1. PICK counted \in BOOLEAN, text \in BOOLEAN, newline \in BOOLEAN :
         /\ queue # <<>> /\ queue' = Tail(queue)
         /\ Head(queue).from \in Oversize => ~ text /\ ~ newline
         /\ log' = Append(log, [msg |-> Head(queue),
                                serial |-> IF counted THEN PrevSerial ELSE Unset,
                                text |-> text, newline |-> newline])
         /\ serial' = (IF counted THEN PrevSerial + 1 ELSE serial)
         /\ sent' = (IF text THEN Append(sent, Head(queue)) ELSE sent)
         /\ fails' = fails + (IF counted THEN 0 ELSE 1)
              + (IF Head(queue).from \in Oversize \/ (text /\ newline) THEN 0 ELSE 1)
         /\ fails' <= MaxFails
         /\ newline \/ Head(queue).from \in Oversize => SetReadEvent(pc)
  BY ZenonT(40) DEF ProcessMessage
<1> DEFINE number == IF counted THEN PrevSerial ELSE Unset
           big == Head(queue).from \in Oversize
<1>2. number \in {PrevSerial, Unset} /\ (counted <=> number # Unset)
  BY <1>0
<1>3. fails' \in Nat /\ fails' >= fails /\ (big \/ (text /\ newline) \/ fails' > fails)
  <2>1. fails' = fails + (IF counted THEN 0 ELSE 1)
                       + (IF big \/ (text /\ newline) THEN 0 ELSE 1)
    BY <1>1
  <2> HIDE DEF big
  <2> QED BY <1>0, <2>1
<1>4. serial' = (IF number = Unset THEN serial ELSE PrevSerial + 1)
  BY <1>1, <1>2
<1>5. log' = Append(log, [msg |-> Head(queue), serial |-> number,
                          text |-> text, newline |-> newline])
  BY <1>1
<1> HIDE DEF number
<1> QED BY <1>1, <1>2, <1>3, <1>4, <1>5, Zenon

LEMMA AnnouncedStep ==
    ASSUME TypeInv, [Next]_vars, NoOneDied', fails' = 0,
           queue # <<>> => Announced, queue' # <<>>
    PROVE  Announced'
<1>0. pc \in [Threads -> Labels] /\ via \in [Threads -> Copies] /\ fails \in Nat
  BY DEF TypeInv, PlacesOK, DataOK
<1> USE <1>0, CopyOwner DEF Announced, Goto
<1>1. ASSUME NEW c \in Copies, Block(c) \/ Write(c) PROVE Announced'
  <2>1. queue' = queue /\ evwr' = evwr
    BY <1>1 DEF Block, Write
  <2>2. \A u \in Threads : pc'[u] = pc[u] \/ pc[u] = "idle"
    BY <1>1 DEF Block, Write
  <2> QED BY <2>1, <2>2
<1>2. ASSUME NEW t \in Threads, BlockLock(t) \/ Unblock(t) PROVE Announced'
  <2>1. queue' = queue /\ evwr' = evwr
    BY <1>2 DEF BlockLock, Unblock
  <2>2. \A u \in Threads : pc'[u] = pc[u] \/ pc[u] = "blockLock"
    BY <1>2 DEF BlockLock, Unblock
  <2> QED BY <2>1, <2>2
<1>3. ASSUME NEW t \in Threads, Die(t) PROVE Announced'
  BY <1>3 DEF Die, NoOneDied, Dead
<1>4. ASSUME NEW t \in Threads, Copy(t) PROVE Announced'
  <2>1. pc'[t] = "signal"
    BY <1>4 DEF Copy
  <2> QED BY <2>1
<1>5. ASSUME NEW t \in Threads, Signal(t) PROVE Announced'
  BY <1>5, Zenon DEF Signal
<1>6. ASSUME NEW t \in Threads,
             \/ WriteLock(t) \/ WriteLockTimeout(t) \/ NoRoom(t) \/ WaitRead(t)
             \/ WaitReadTimeout(t) \/ GiveUp(t) \/ WriteDone(t)
      PROVE  Announced'
  <2>1. queue' = queue /\ evwr' = evwr
    BY <1>6 DEF WriteLock, WriteLockTimeout, NoRoom, WaitRead, WaitReadTimeout, GiveUp, WriteDone
  <2>2. /\ \A u \in Threads \ {t} : pc'[u] = pc[u]
        /\ pc[t] \notin {"signal", "procLock", "procLoop"}
    BY <1>6 DEF WriteLock, WriteLockTimeout, NoRoom, WaitRead, WaitReadTimeout, GiveUp, WriteDone
  <2> QED BY <2>1, <2>2
<1>7. CASE ProcessBegin \/ ProcessLock
  BY <1>7 DEF ProcessBegin, ProcessLock
<1>8. CASE ProcessDone
  BY <1>8 DEF ProcessDone
<1>9. CASE ProcessMessage
  <2>1. pc[Shell] = "procLoop"
    BY <1>9 DEF ProcessMessage
  <2>2. SetReadEvent(pc)
    <3>1. PICK text \in BOOLEAN, newline \in BOOLEAN :
             /\ fails' >= fails
             /\ Head(queue).from \in Oversize \/ (text /\ newline) \/ fails' > fails
             /\ newline \/ Head(queue).from \in Oversize => SetReadEvent(pc)
      BY <1>9, MessageTaken, Zenon
    <3>2. ~ fails' > fails
      BY <1>0
    <3> QED BY <3>1, <3>2, Zenon
  <2>3. pc'[Shell] = "procLoop"
    BY <2>1, <2>2 DEF SetReadEvent, Waiting
  <2> QED BY <2>3
<1>10. CASE UNCHANGED vars
  BY <1>10, Zenon DEF vars
<1>11. ~ SerialFails
  BY <1>0 DEF SerialFails
<1> QED BY <1>1, <1>2, <1>3, <1>4, <1>5, <1>6, <1>7, <1>8, <1>9, <1>10, <1>11
        DEF Next, Writing, Process

\* Failures are counted and not forgotten.
LEMMA FailsGrow == ASSUME TypeInv, [Next]_vars, fails' = 0 PROVE fails = 0
<1>0. fails \in Nat
  BY DEF TypeInv, DataOK
<1>1. CASE ProcessMessage
  <2>1. fails' >= fails
    BY <1>1, MessageTaken
  <2> QED BY <1>0, <2>1
<1>2. ASSUME ~ ProcessMessage PROVE fails' = fails \/ fails' = fails + 1
  BY <1>2 DEF Next, vars, readVars, Block, Write, BlockLock, Unblock, Die, Writing, WriteLock,
         WriteLockTimeout, Copy, NoRoom, WaitRead, WaitReadTimeout, GiveUp, Signal,
         WriteDone, Process, ProcessBegin, ProcessLock, SerialFails, ProcessDone
<1> QED BY <1>0, <1>1, <1>2

\* A ring with messages in it is always one the shell has been told of, or is
\* about to be - unless someone was killed, or the channel or the semaphore failed.
THEOREM NoAnnouncementIsLost == Spec => []QueueIsAnnounced
<1>1. Init => QueueIsAnnounced
  BY DEF Init, QueueIsAnnounced
<1>2. TypeInv /\ QueueIsAnnounced /\ [Next]_vars => QueueIsAnnounced'
  BY AnnouncedStep, FailsGrow, DeadStayDead DEF QueueIsAnnounced, Announced
<1> QED BY <1>1, <1>2, TypeInvariance, PTL DEF Spec

-----------------------------------------------------------------------------
(***************************************************************************)
(* The serial numbers.                                                     *)
(***************************************************************************)

\* The only multiple of m that is less than m away from 0 is 0.
LEMMA SmallMultiple ==
    ASSUME NEW m \in Nat \ {0}, NEW d \in Int, m * d < m, m * d > - m
    PROVE  d = 0
<1>1. ASSUME d >= 1 PROVE m * d >= m
  BY <1>1
<1>2. ASSUME d <= -1 PROVE m * d <= - m
  BY <1>2
<1>3. QED
  BY <1>1, <1>2

\* What quotient and remainder are to each other, ...
LEMMA DivMod ==
    ASSUME NEW m \in Nat \ {0}, NEW n \in Nat
    PROVE  /\ n \div m \in Int /\ n % m \in 0 .. m - 1
           /\ n = m * (n \div m) + (n % m)
  OBVIOUS

\* ... that nothing else is that ...
LEMMA ModIsUnique ==
    ASSUME NEW m \in Nat \ {0}, NEW n \in Nat, NEW q \in Int, NEW r \in 0 .. m - 1,
           n = m * q + r
    PROVE  n % m = r
<1> DEFINE p == n \div m
           d == p - q
           s == n % m
<1>1. p \in Int /\ s \in 0 .. m - 1 /\ n = m * p + s
  BY DivMod
<1> HIDE DEF p, s
<1>2. m * d = r - s
  BY <1>1
<1>3. d = 0
  BY <1>1, <1>2, SmallMultiple
<1>4. p = q
  BY <1>1, <1>3
<1>5. m * p = m * q
  BY <1>4
<1>6. m * p \in Int
  BY <1>1
<1>7. s = r
  BY <1>1, <1>5, <1>6
<1> QED BY <1>7 DEF s

\* ... and how the remainder goes on: this is what a counter with a limit does.
LEMMA ModStep ==
    ASSUME NEW m \in Nat \ {0}, NEW n \in Nat
    PROVE  (n + 1) % m = IF n % m = m - 1 THEN 0 ELSE (n % m) + 1
<1> DEFINE p == n \div m
           s == n % m
<1>1. p \in Int /\ s \in 0 .. m - 1 /\ n = m * p + s
  BY DivMod
<1> HIDE DEF p, s
<1>2. m * p \in Int
  BY <1>1
<1>3. m * (p + 1) = m * p + m
  BY <1>1
<1>4. CASE s = m - 1
  <2>1. n + 1 = m * (p + 1) + 0
    BY <1>1, <1>2, <1>3, <1>4
  <2>2. n + 1 \in Nat /\ p + 1 \in Int /\ 0 \in 0 .. m - 1
    BY <1>1
  <2>3. (n + 1) % m = 0
    BY <2>1, <2>2, ModIsUnique
  <2> QED BY <1>4, <2>3 DEF s
<1>5. CASE s # m - 1
  <2>1. n + 1 = m * p + (s + 1) /\ s + 1 \in 0 .. m - 1
    <3>1. PICK q \in Int : q = m * p
      BY <1>2
    <3>2. n = q + s
      BY <1>1, <3>1
    <3>3. s + 1 \in 0 .. m - 1
      BY <1>1, <1>5
    <3>4. n + 1 = q + (s + 1)
      BY <3>2, <1>1
    <3> QED BY <3>1, <3>3, <3>4
  <2>2. n + 1 \in Nat
    OBVIOUS
  <2>3. (n + 1) % m = s + 1
    BY <1>1, <2>1, <2>2, ModIsUnique
  <2> QED BY <1>5, <2>3 DEF s
<1> QED BY <1>4, <1>5

\* The number the semaphore gives next goes on from the last message it counted.
NextSerial ==
    \A i \in Counted :
        (i + 1 .. Len(log)) \cap Counted = {} => PrevSerial = (log[i].serial + 1) % MaxSerial

SerialInv == NextSerial /\ SerialsAreConsecutive

\* What a message more does to those that were counted.
LEMMA CountedGrows ==
    ASSUME log \in Seq([msg : Message, serial : Nat, text : BOOLEAN, newline : BOOLEAN]),
           NEW e, log' = Append(log, e)
    PROVE  /\ Len(log) \in Nat /\ Len(log') = Len(log) + 1 /\ log'[Len(log) + 1] = e
           /\ \A i \in 1 .. Len(log) : log'[i] = log[i]
           /\ Counted \subseteq 1 .. Len(log)
           /\ Counted' = IF e.serial = Unset THEN Counted ELSE Counted \cup {Len(log) + 1}
<1>1. /\ Len(log) \in Nat /\ Len(log') = Len(log) + 1 /\ log'[Len(log) + 1] = e
      /\ \A i \in 1 .. Len(log) : log'[i] = log[i]
  OBVIOUS
<1>2. Counted' = {i \in 1 .. Len(log) + 1 : log'[i].serial # Unset}
  BY <1>1 DEF Counted, Unset
<1>3. \A i : i \in Counted' <=> i \in Counted \/ (i = Len(log) + 1 /\ e.serial # Unset)
  BY <1>1, <1>2 DEF Counted
<1>4. Counted \subseteq 1 .. Len(log)
  BY DEF Counted
<1> QED BY <1>1, <1>3, <1>4

\* What the semaphore gives after p, below its limit.
LEMMA AfterSerial ==
    ASSUME NEW m \in Nat \ {0}, NEW p \in 0 .. m - 1
    PROVE  (p + 1) % m = IF p + 1 = m THEN 0 ELSE p + 1
<1>1. p \in Nat /\ 0 \in Int /\ p = m * 0 + p
  OBVIOUS
<1>2. p % m = p
  BY <1>1, ModIsUnique
<1>3. (p + 1) % m = IF p % m = m - 1 THEN 0 ELSE (p % m) + 1
  BY <1>1, ModStep
<1>4. (p + 1) % m = IF p = m - 1 THEN 0 ELSE p + 1
  BY <1>2, <1>3, Zenon
<1>5. p = m - 1 <=> p + 1 = m
  BY <1>1
<1> QED BY <1>4, <1>5, Zenon

LEMMA SerialStep ==
    ASSUME TypeInv, SerialInv, [Next]_vars
    PROVE  SerialInv'
<1>0. /\ log \in Seq([msg : Message, serial : Nat, text : BOOLEAN, newline : BOOLEAN])
      /\ serial \in 0 .. MaxSerial /\ MaxSerial \in Nat \ {0} /\ Len(log) \in Nat
  BY SizesAssumption DEF TypeInv, DataOK
<1>1. CASE log' = log /\ PrevSerial' = PrevSerial
  <2>1. Counted' = Counted
    BY <1>1 DEF Counted, Unset
  <2> QED BY <1>1, <2>1 DEF SerialInv, NextSerial, SerialsAreConsecutive
<1>2. CASE ProcessMessage
  <2>1. PICK number \in {PrevSerial, Unset}, text \in BOOLEAN, newline \in BOOLEAN :
           /\ log' = Append(log, [msg |-> Head(queue), serial |-> number,
                                  text |-> text, newline |-> newline])
           /\ serial' = IF number = Unset THEN serial ELSE PrevSerial + 1
    BY <1>2, MessageTaken
  <2> DEFINE e == [msg |-> Head(queue), serial |-> number, text |-> text, newline |-> newline]
             new == Len(log) + 1
  <2>2. e.serial = number /\ log' = Append(log, e)
    BY <2>1
  <2>3. PrevSerial \in 0 .. MaxSerial - 1 /\ PrevSerial # Unset
    BY <1>0 DEF PrevSerial, Unset
  <2> HIDE DEF e
  <2>4. /\ Len(log') = new /\ log'[new] = e
        /\ \A i \in 1 .. Len(log) : log'[i] = log[i]
        /\ Counted \subseteq 1 .. Len(log)
        /\ Counted' = IF number = Unset THEN Counted ELSE Counted \cup {new}
    BY <1>0, <2>2, CountedGrows
  <2>5. CASE number = Unset
    <3>1. serial' = serial /\ PrevSerial' = PrevSerial /\ Counted' = Counted
      BY <2>1, <2>4, <2>5 DEF PrevSerial
    <3>2. \A i \in Counted : log'[i] = log[i]
      BY <2>4
    <3>3. SerialsAreConsecutive'
      BY <3>1, <3>2 DEF SerialInv, SerialsAreConsecutive
    <3>4. NextSerial'
      <4> SUFFICES ASSUME NEW i \in Counted, (i + 1 .. new) \cap Counted = {}
                   PROVE  PrevSerial = (log[i].serial + 1) % MaxSerial
        BY <2>4, <3>1, <3>2 DEF NextSerial
      <4>1. (i + 1 .. Len(log)) \cap Counted = {}
        BY <1>0, <2>4
      <4> QED BY <4>1 DEF SerialInv, NextSerial
    <3> QED BY <3>3, <3>4 DEF SerialInv
  <2>6. CASE number = PrevSerial
    <3>1. serial' = PrevSerial + 1 /\ Counted' = Counted \cup {new}
      BY <2>1, <2>3, <2>4, <2>6
    <3>2. PrevSerial' = (PrevSerial + 1) % MaxSerial
      <4>1. PrevSerial' = IF PrevSerial + 1 = MaxSerial THEN 0 ELSE PrevSerial + 1
        BY <3>1 DEF PrevSerial
      <4> QED BY <1>0, <2>3, <4>1, AfterSerial
    <3>3. SerialsAreConsecutive'
      <4> SUFFICES ASSUME NEW i \in Counted', NEW j \in Counted', i < j,
                          (i + 1 .. j - 1) \cap Counted' = {}
                   PROVE  log'[j].serial = (log'[i].serial + 1) % MaxSerial
        BY DEF SerialsAreConsecutive
      <4>1. i \in Counted /\ log'[i] = log[i] /\ (i + 1 .. j - 1) \cap Counted = {}
        <5>1. j \in 1 .. new /\ i \in 1 .. new /\ i # new
          BY <1>0, <2>4, <3>1
        <5> QED BY <2>4, <3>1, <5>1
      <4>2. CASE j \in Counted
        BY <2>4, <4>1, <4>2 DEF SerialInv, SerialsAreConsecutive
      <4>3. CASE j = new
        <5>1. (i + 1 .. Len(log)) \cap Counted = {}
          BY <1>0, <4>1, <4>3
        <5> QED BY <2>2, <2>4, <2>6, <4>1, <4>3, <5>1 DEF SerialInv, NextSerial
      <4> QED BY <3>1, <4>2, <4>3
    <3>4. NextSerial'
      <4> SUFFICES ASSUME NEW i \in Counted', (i + 1 .. new) \cap Counted' = {}
                   PROVE  PrevSerial' = (log'[i].serial + 1) % MaxSerial
        BY <2>4 DEF NextSerial
      <4>1. i = new
        <5>1. new \in Counted'
          BY <3>1
        <5> QED BY <1>0, <2>4, <3>1, <5>1
      <4> QED BY <2>2, <2>4, <2>6, <3>2, <4>1
    <3> QED BY <3>3, <3>4 DEF SerialInv
  <2> QED BY <2>1, <2>5, <2>6
<1>3. CASE SerialFails
  BY <1>0, <1>1, <1>3 DEF SerialFails, PrevSerial
<1>4. ASSUME ~ ProcessMessage, ~ SerialFails PROVE UNCHANGED <<log, serial>>
  BY <1>4 DEF Next, vars, readVars, Block, Write, BlockLock, Unblock, Die, Writing, WriteLock,
         WriteLockTimeout, Copy, NoRoom, WaitRead, WaitReadTimeout, GiveUp, Signal,
         WriteDone, Process, ProcessBegin, ProcessLock, ProcessDone
<1> QED BY <1>1, <1>2, <1>3, <1>4 DEF PrevSerial

\* The messages the semaphore counted have consecutive serials, sent or not, also
\* when it has come to its limit and when restarting it failed.
THEOREM SerialsGoUp == Spec => []SerialsAreConsecutive
<1>1. Init => SerialInv
  <2> SUFFICES ASSUME Init PROVE SerialInv
    OBVIOUS
  <2>1. Counted = {}
    BY DEF Init, Counted
  <2> QED BY <2>1 DEF SerialInv, NextSerial, SerialsAreConsecutive
<1>2. TypeInv /\ SerialInv /\ [Next]_vars => SerialInv'
  BY SerialStep
<1>3. SerialInv => SerialsAreConsecutive
  BY DEF SerialInv
<1> QED BY <1>1, <1>2, <1>3, TypeInvariance, PTL DEF Spec

-----------------------------------------------------------------------------
(***************************************************************************)
(* Between a vchannel_block that got the mutex and its vchannel_unblock.   *)
(***************************************************************************)

\* What is called within a bracket is called through the copy that opened it.
SameCopy ==
    \A t \in Threads :
        bracket[t] # NoOne /\ pc[t] \notin {"idle", "dead"} => via[t] = bracket[t]

LEMMA SameCopyStep ==
    ASSUME TypeInv, BracketPlaces, SameCopy, [Next]_vars
    PROVE  SameCopy'
<1>0. /\ pc \in [Threads -> Labels] /\ via \in [Threads -> Copies]
      /\ bracket \in [Threads -> Copies \cup {NoOne}]
  BY DEF TypeInv, PlacesOK
<1> USE <1>0, CopyOwner, NoOneIsNobody DEF SameCopy, Goto, bracketVars
<1>1. ASSUME NEW c \in Copies, Block(c) PROVE SameCopy'
  BY <1>1 DEF Block, Call
<1>2. ASSUME NEW c \in Copies, Write(c) PROVE SameCopy'
  BY <1>2 DEF Write, Call
<1>3. ASSUME NEW t \in Threads, BlockLock(t) \/ Unblock(t) \/ Die(t) PROVE SameCopy'
  BY <1>3 DEF BlockLock, Unblock, Die
<1>4. ASSUME NEW t \in Threads, Writing(t) PROVE SameCopy'
  BY <1>4 DEF Writing, WriteLock, WriteLockTimeout, Copy, NoRoom, WaitRead,
     WaitReadTimeout, GiveUp, Signal, WriteDone
<1>5. CASE Process
  BY <1>5 DEF Process, ProcessBegin, ProcessLock, SerialFails, ProcessDone, ProcessMessage,
     SetReadEvent, Waiting
<1>6. CASE UNCHANGED vars
  BY <1>6 DEF vars
<1> QED BY <1>1, <1>2, <1>3, <1>4, <1>5, <1>6 DEF Next

\* Only Copy puts a message into the ring.
LEMMA OnlyCopyAdds ==
    ASSUME TypeInv, [Next]_vars, Len(queue') > Len(queue)
    PROVE  \E t \in Threads : Copy(t)
<1>0. queue \in Seq(Message)
  BY DEF TypeInv, DataOK
<1>1. queue' # queue
  BY <1>0
<1>2. CASE ProcessMessage
  <2>1. queue # <<>> /\ queue' = Tail(queue)
    BY <1>2 DEF ProcessMessage
  <2> QED BY <1>0, <2>1
<1> QED BY <1>1, <1>2 DEF Next, vars, Block, Write, BlockLock, Unblock, Die, Writing, WriteLock,
        WriteLockTimeout, NoRoom, WaitRead, WaitReadTimeout, GiveUp, Signal,
        WriteDone, Process, ProcessBegin, ProcessLock, SerialFails, ProcessDone

\* While a thread has the mutex for its bracket only what its own copy writes gets
\* into the ring, whoever is killed and whatever times out.
THEOREM BracketsAreQuiet == Spec => BracketIsQuiet
<1> DEFINE Inv == TypeInv /\ BalanceInv /\ SameCopy
<1>1. Init => Inv
  <2> SUFFICES ASSUME Init PROVE Inv
    OBVIOUS
  <2>1. \A t \in Threads : bracket[t] = NoOne
    BY DEF Init
  <2> QED BY <2>1, TypeInit, BalanceInit DEF SameCopy
<1>2. Inv /\ [Next]_vars => Inv'
  BY TypeStep, BracketStep, BalanceStep, SameCopyStep DEF BalanceInv
<1>3. ASSUME Inv, [Next]_vars,
             NEW t \in Threads, held[t], Len(queue') > Len(queue)
      PROVE  Last(queue').from = bracket[t]
  <2>1. PICK u \in Threads : Copy(u)
    BY <1>3, OnlyCopyAdds
  <2>2. owner = t /\ owner = u /\ bracket[t] # NoOne /\ pc[u] = "writeCheck"
    <3>1. Due(t) # 0 /\ Due(u) # 0
      <4>1. kept[t] \in Nat /\ kept[u] \in Nat
        BY <1>3 DEF TypeInv, DataOK
      <4>2. held[t] /\ Inside(u)
        BY <1>3, <2>1 DEF Copy, Inside
      <4> QED BY <4>1, <4>2 DEF Due
    <3> QED BY <1>3, <2>1, <3>1 DEF MutexIsBalanced, BalanceInv, BracketPlaces, Copy
  <2>3. via[t] = bracket[t] /\ via[t] \in Copies /\ calls[via[t]] \in 0 .. MaxCalls
    BY <1>3, <2>2 DEF SameCopy, TypeInv, PlacesOK, DataOK
  <2> DEFINE m == [from |-> via[t], n |-> calls[via[t]]]
  <2>4. m \in Message
    BY <2>3 DEF Message
  <2>5. queue \in Seq(Message) /\ queue' = Append(queue, m)
    BY <1>3, <2>1, <2>2 DEF Copy, TypeInv, DataOK
  <2>6. m.from = bracket[t]
    BY <2>3
  <2> HIDE DEF m
  <2>7. Last(queue') = m
    BY <2>4, <2>5 DEF Last
  <2> QED BY <2>6, <2>7
<1>4. Inv /\ [Next]_vars =>
        [\A t \in Threads : held[t] /\ Len(queue') > Len(queue)
            => Last(queue').from = bracket[t]]_vars
  BY <1>3
<1> HIDE DEF Inv
<1> QED BY <1>1, <1>2, <1>4, PTL DEF Spec, BracketIsQuiet

-----------------------------------------------------------------------------
(***************************************************************************)
(* The refinement of MessageFifo.                                          *)
(***************************************************************************)

\* A message that is added to the ring is added to what was accepted, ...
LEMMA AcceptedGrows ==
    ASSUME NEW S, NEW s \in Seq(S), NEW t \in Seq(S), NEW e \in S
    PROVE  s \o Append(t, e) = Append(s \o t, e)
OBVIOUS

\* ... and one that is taken out is the next one, and stays among them.
LEMMA NextIsTaken ==
    ASSUME NEW S, NEW s \in Seq(S), NEW t \in Seq(S), t # <<>>
    PROVE  /\ Append(s, Head(t)) \o Tail(t) = s \o t
           /\ Len(s) < Len(s \o t) /\ (s \o t)[Len(s) + 1] = Head(t)
OBVIOUS

Entry == [msg : Message, serial : Nat, text : BOOLEAN, newline : BOOLEAN]

LEMMA TakenIs ==
    ASSUME log \in Seq(Entry)
    PROVE  Taken \in Seq(Message) /\ Len(Taken) = Len(log)
<1>1. Len(log) \in Nat /\ \A i \in 1 .. Len(log) : log[i] \in Entry
  OBVIOUS
<1>2. \A e \in Entry : e.msg \in Message
  BY DEF Entry
<1>3. \A i \in 1 .. Len(log) : log[i].msg \in Message
  BY <1>1, <1>2
<1> QED BY <1>1, <1>3 DEF Taken

LEMMA TakenGrows ==
    ASSUME log \in Seq(Entry), NEW e \in Entry, log' = Append(log, e)
    PROVE  Taken' = Append(Taken, e.msg)
<1>1. /\ Len(log) \in Nat /\ Len(log') = Len(log) + 1 /\ log'[Len(log) + 1] = e
      /\ \A i \in 1 .. Len(log) : log'[i] = log[i]
  OBVIOUS
<1>2. e.msg \in Message
  BY DEF Entry
<1>3. /\ Append(Taken, e.msg) \in Seq(Message) /\ Len(Append(Taken, e.msg)) = Len(log) + 1
      /\ Append(Taken, e.msg)[Len(log) + 1] = e.msg
      /\ \A i \in 1 .. Len(log) : Append(Taken, e.msg)[i] = Taken[i]
  BY <1>1, <1>2, TakenIs
<1>4. \A i \in 1 .. Len(log) : Taken[i] = log[i].msg
  BY DEF Taken
<1>5. Taken' = [i \in 1 .. Len(log) + 1 |-> log'[i].msg]
  BY <1>1 DEF Taken
<1>6. \A i \in 1 .. Len(log) + 1 : Append(Taken, e.msg)[i] = log'[i].msg
  BY <1>1, <1>3, <1>4
<1> QED BY <1>1, <1>3, <1>5, <1>6

LEMMA FifoStep ==
    ASSUME TypeInv, [Next]_vars
    PROVE  [Fifo!FifoNext]_(Fifo!fifoVars)
<1>0. /\ queue \in Seq(Message) /\ log \in Seq(Entry) /\ sent \in Seq(Message) /\ fails \in Nat
      /\ Taken \in Seq(Message) /\ Len(Taken) = Len(log)
  BY TakenIs DEF TypeInv, DataOK, Entry
<1>1. ASSUME NEW t \in Threads, Copy(t) PROVE \E m \in Message : Fifo!Accept(m)
  <2> DEFINE m == [from |-> via[t], n |-> calls[via[t]]]
  <2>1. via[t] \in Copies /\ calls[via[t]] \in 0 .. MaxCalls
    BY DEF TypeInv, PlacesOK, DataOK
  <2>2. m \in Message
    BY <2>1 DEF Message
  <2>3. queue' = Append(queue, m) /\ UNCHANGED <<log, sent>>
    BY <1>1 DEF Copy, readVars
  <2> HIDE DEF m
  <2>4. Taken' = Taken
    BY <2>3 DEF Taken
  <2>5. Taken' \o queue' = Append(Taken \o queue, m)
    BY <1>0, <2>2, <2>3, <2>4, AcceptedGrows
  <2> QED BY <2>2, <2>3, <2>5 DEF Fifo!Accept
<1>2. CASE ProcessMessage
  <2>1. PICK number \in {PrevSerial, Unset}, text \in BOOLEAN, newline \in BOOLEAN :
           /\ queue # <<>> /\ queue' = Tail(queue)
           /\ Head(queue).from \in Oversize => ~ text /\ ~ newline
           /\ log' = Append(log, [msg |-> Head(queue), serial |-> number,
                                  text |-> text, newline |-> newline])
           /\ sent' = (IF text THEN Append(sent, Head(queue)) ELSE sent)
           /\ fails' \in Nat /\ fails' <= MaxFails
           /\ Head(queue).from \in Oversize \/ (text /\ newline) \/ fails' > fails
    BY <1>2, MessageTaken
  <2> DEFINE e == [msg |-> Head(queue), serial |-> number, text |-> text, newline |-> newline]
  <2>2. Head(queue) \in Message
    BY <1>0, <2>1
  <2>3. number \in Nat
    BY <2>1, SizesAssumption DEF PrevSerial, Unset, TypeInv, DataOK
  <2>4. e \in Entry /\ e.msg = Head(queue)
    BY <2>2, <2>3, Zenon DEF Entry
  <2>5. log' = Append(log, e)
    BY <2>1
  <2> HIDE DEF e
  <2>6. Taken' = Append(Taken, Head(queue)) /\ Len(log') = Len(log) + 1
    BY <1>0, <2>4, <2>5, TakenGrows
  <2>7. /\ Taken' \o queue' = Taken \o queue
        /\ Len(log) < Len(Taken \o queue) /\ (Taken \o queue)[Len(log) + 1] = Head(queue)
    BY <1>0, <2>1, <2>6, NextIsTaken
  <2>8. CASE text
    BY <2>1, <2>6, <2>7, <2>8 DEF Fifo!FifoNext, Fifo!Deliver
  <2>9. CASE ~ text
    <3>1. MaxFails > 0 \/ Oversize # {}
      BY <1>0, <2>1, <2>9, SizesAssumption
    <3> QED BY <2>1, <2>6, <2>7, <2>9, <3>1 DEF Fifo!FifoNext, Fifo!Discard
  <2> QED BY <2>8, <2>9
<1>3. CASE UNCHANGED <<queue, log, sent>>
  <2>1. Taken' = Taken
    BY <1>3 DEF Taken
  <2> QED BY <1>3, <2>1 DEF Fifo!fifoVars
<1>4. ASSUME ~ ProcessMessage, ~ \E t \in Threads : Copy(t) PROVE UNCHANGED <<queue, log, sent>>
  BY <1>4 DEF Next, vars, readVars, Block, Write, BlockLock, Unblock, Die, Writing, WriteLock,
     WriteLockTimeout, NoRoom, WaitRead, WaitReadTimeout, GiveUp, Signal,
     WriteDone, Process, ProcessBegin, ProcessLock, SerialFails, ProcessDone
<1> QED BY <1>1, <1>2, <1>3, <1>4 DEF Fifo!FifoNext

\* What is written comes out whole, in order and once, or is thrown away where the
\* virtual channel fails or the message does not fit - whoever is killed and
\* whatever times out.
THEOREM ChannelImplementsFifo == Spec => ImplementsSafeFifo
<1>1. Init => Fifo!FifoInit
  BY DEF Init, Fifo!FifoInit, Taken
<1>2. TypeInv /\ [Next]_vars => [Fifo!FifoNext]_(Fifo!fifoVars)
  BY FifoStep
<1> QED BY <1>1, <1>2, TypeInvariance, PTL DEF Spec, ImplementsSafeFifo, Fifo!SafeFifoSpec

-----------------------------------------------------------------------------
(***************************************************************************)
(* The waits of vchannel_write: when the shell is there and nothing goes   *)
(* wrong, none of the timeouts of 10 seconds happens, and no copy of the   *)
(* library goes mute.                                                      *)
(***************************************************************************)

\* What vchannel_write relies on.  Without any one of these a writer can run into
\* its timeout: a shell that writes, or a writer within vchannel_block, can wait
\* for itself; an application that is killed abandons the mutex; when the virtual
\* channel fails, the ring is left as it is; and an impatient wait ends anyhow.
Favourable ==
    /\ Writers \subseteq Apps /\ BlockUsers = {}
    /\ MayDie \subseteq {Shell}
    /\ MaxFails = 0
    /\ Patient

\* The applications are in vchannel_write or outside, the shell in
\* vchannel_process, outside or dead; nobody has a bracket.
Places ==
    /\ \A t \in Threads : bracket[t] = NoOne /\ ~ held[t] /\ pc[t] # "blockLock"
    /\ pc[Shell] \in {"idle", "procLock", "procLoop", "dead"}
    /\ \A a \in Apps : pc[a] \notin {"procLock", "procLoop", "dead"}
    /\ open[ShellExe] /\ fails = 0

\* While the shell is there nobody inherits the mutex or is left with it.
Peaceful == ~ Dead(Shell) => ~ abandoned /\ \A t \in Threads : kept[t] = 0

\* evrd is set when nobody waits for it ...
NobodyOverslept == evrd => Waiting = {}

\* ... and a writer that goes to wait, or does, at an empty ring will find it set,
\* or somebody else is on the way to put a message there.
Roused ==
    queue = <<>> /\ (\E t \in Threads : pc[t] \in {"toWait", "waitRead"})
        => evrd \/ \E u \in Threads : pc[u] \in {"writeLock", "writeCheck"}

\* Nobody has given up.
InTime == (\A t \in Threads : pc[t] # "giveUp") /\ (\A c \in Copies : up[c])

WaitInv ==
    /\ Places /\ Peaceful /\ NobodyOverslept
    /\ ~ Dead(Shell) => Roused /\ InTime

-----------------------------------------------------------------------------
(* The load of a ring without messages.                                    *)

\* Nothing is the sum of no weights: the recursive function that the fold is
\* defined by exists, and has the value it should have.
LEMMA EmptyLoad == Load(<<>>) = 0
<1> DEFINE step(f) == [s \in SUBSET DOMAIN <<>> |->
              IF s = {} THEN 0
              ELSE LET x == CHOOSE x \in s : TRUE IN Weight[<<>>[x].from] + f[s \ {x}]]
           zero == [s \in SUBSET DOMAIN <<>> |-> 0]
           iter == CHOOSE f : f = step(f)
<1>1. DOMAIN <<>> = {}
  OBVIOUS
<1>2. zero = step(zero)
  BY <1>1
<1>3. iter = step(iter)
  BY <1>2
<1>4. iter[{}] = 0
  <2> HIDE DEF iter
  <2>1. {} \in SUBSET DOMAIN <<>>
    OBVIOUS
  <2> QED BY <1>3, <2>1
<1>5. Load(<<>>) = iter[DOMAIN <<>>]
  BY DEF Load, FoldSeq, FoldFunction, FoldFunctionOnSet, MapThenFoldSet
<1> QED BY <1>1, <1>4, <1>5

\* A writer that finds no room finds messages.
LEMMA EmptyHasRoom ==
    ASSUME TypeInv, NEW t \in Threads, NoRoom(t)
    PROVE  queue # <<>>
<1>1. via[t] \in Copies /\ Weight[via[t]] \in 1 .. Capacity /\ Capacity \in Nat
  BY SizesAssumption DEF TypeInv, PlacesOK
<1>2. ~ Fits(via[t])
  BY DEF NoRoom
<1> QED BY <1>1, <1>2, EmptyLoad DEF Fits

-----------------------------------------------------------------------------
(* When it could be late for somebody, nobody is waiting.                  *)

\* What holds while the shell is there.
Alive == ~ Dead(Shell) /\ TypeInv /\ WaitInv /\ BalanceInv /\ QueueIsAnnounced

LEMMA AliveIsBalanced ==
    ASSUME Alive
    PROVE  /\ NoOneDied /\ ~ abandoned /\ MutexIsBalanced
           /\ \A t \in Threads : kept[t] = 0
<1>1. NoOneDied
  BY DEF Alive, WaitInv, Places, NoOneDied, Dead, Threads
<1> QED BY <1>1 DEF Alive, BalanceInv, WaitInv, Peaceful

\* If no thread can go on, the mutex is free: its owner could.
LEMMA LateMutexIsFree ==
    ASSUME Favourable, Alive, Late
    PROVE  owner = NoOne
<1> SUFFICES ASSUME owner # NoOne PROVE FALSE
  OBVIOUS
<1>1. owner \in Threads /\ ~ CanGoOn(owner)
  BY DEF Alive, TypeInv, MutexOK, Late, Favourable
<1>2. Due(owner) # 0 /\ ~ held[owner]
  BY <1>1, AliveIsBalanced DEF MutexIsBalanced, Alive, WaitInv, Places
<1>3. Inside(owner)
  BY <1>1, <1>2, AliveIsBalanced DEF Due
<1>4. CanGoOn(owner)
  BY <1>3 DEF Inside, CanGoOn
<1> QED BY <1>1, <1>4

\* So everybody is outside or waits for evrd, and there is nothing to read.
LEMMA LateAllIdle ==
    ASSUME Favourable, Alive, Late
    PROVE  /\ \A t \in Threads : pc[t] \in {"idle", "waitRead"}
           /\ pc[Shell] = "idle" /\ ~ evwr /\ queue = <<>>
<1>1. \A t \in Threads : ~ CanGoOn(t) /\ Available(t)
  BY LateMutexIsFree DEF Late, Favourable, Available
<1>2. \A t \in Threads : pc[t] \in Labels \ {"dead"} /\ bracket[t] = NoOne
  BY AliveIsBalanced DEF NoOneDied, Dead, Alive, TypeInv, PlacesOK, WaitInv, Places
<1>3. \A t \in Threads : pc[t] \in {"idle", "waitRead"}
  BY <1>1, <1>2 DEF CanGoOn, Labels
<1>4. pc[Shell] = "idle"
  BY <1>3, CopyOwner DEF Alive, WaitInv, Places
<1>5. ~ evwr
  BY <1>1, <1>4, CopyOwner DEF CanGoOn
<1>6. queue = <<>>
  BY <1>3, <1>4, <1>5, AliveIsBalanced DEF Alive, QueueIsAnnounced, WaitInv, Places
<1> QED BY <1>3, <1>4, <1>5, <1>6

\* And nobody does wait: he would have been roused.
LEMMA LateNobodyWaits ==
    ASSUME Favourable, Alive, Late, NEW t \in Threads
    PROVE  pc[t] = "idle"
<1> SUFFICES ASSUME pc[t] = "waitRead" PROVE FALSE
  BY LateAllIdle
<1>1. queue = <<>> /\ \A u \in Threads : pc[u] \in {"idle", "waitRead"}
  BY LateAllIdle
<1>2. evrd
  BY <1>1 DEF Alive, WaitInv, Roused
<1>3. Waiting = {}
  BY <1>2 DEF Alive, WaitInv, NobodyOverslept
<1> QED BY <1>3 DEF Waiting

LEMMA NoTimeout ==
    ASSUME Favourable, Alive, NEW t \in Threads
    PROVE  ~ WriteLockTimeout(t) /\ ~ WaitReadTimeout(t) /\ ~ GiveUp(t)
<1>1. ~ WriteLockTimeout(t) /\ ~ WaitReadTimeout(t)
  BY LateNobodyWaits DEF WriteLockTimeout, WaitReadTimeout
<1>2. ~ GiveUp(t)
  BY DEF GiveUp, Alive, WaitInv, InTime
<1> QED BY <1>1, <1>2

-----------------------------------------------------------------------------
(* The invariant.                                                          *)

\* Without failures the semaphore does not fail.
LEMMA NoSerialFails == ASSUME Favourable, TypeInv PROVE ~ SerialFails
BY DEF SerialFails, Favourable, TypeInv, DataOK

LEMMA PlacesStep ==
    ASSUME Favourable, TypeInv, Places, [Next]_vars
    PROVE  Places'
<1>0. /\ pc \in [Threads -> Labels] /\ bracket \in [Threads -> Copies \cup {NoOne}]
      /\ held \in [Threads -> BOOLEAN] /\ open \in [Copies -> BOOLEAN] /\ fails \in Nat
      /\ Shell \notin Apps /\ Threads = Apps \cup {Shell}
  BY NamesAssumption DEF TypeInv, PlacesOK, FlagsOK, DataOK, Threads
<1> USE <1>0, CopyOwner DEF Places, Goto, bracketVars, readVars, copyVars
<1>1. ASSUME NEW c \in Copies, Write(c) PROVE Places'
  <2>1. c \in Apps /\ ThreadOf(c) = c
    BY <1>1 DEF Write, Favourable
  <2> QED BY <1>1, <2>1 DEF Write
<1>2. ASSUME NEW c \in Copies PROVE ~ Block(c)
  BY DEF Block, Favourable
<1>3. ASSUME NEW t \in Threads PROVE ~ BlockLock(t) /\ ~ Unblock(t)
  BY DEF BlockLock, Unblock
<1>4. ASSUME NEW t \in Threads, Die(t) PROVE Places'
  BY <1>4 DEF Die, Favourable
<1>5. ASSUME NEW t \in Threads, Writing(t) PROVE Places'
  <2>1. /\ pc[t] \in {"writeLock", "writeCheck", "signal", "release", "toWait", "waitRead",
                      "giveUp"}
        /\ pc' = [pc EXCEPT ![t] = pc'[t]]
        /\ pc'[t] \in {"idle", "writeLock", "writeCheck", "signal", "release", "toWait",
                       "waitRead", "giveUp"}
        /\ UNCHANGED <<bracket, held, open, fails>>
    BY <1>5 DEF Writing, WriteLock, WriteLockTimeout, Copy, NoRoom, WaitRead,
       WaitReadTimeout, GiveUp, Signal, WriteDone
  <2> QED BY <2>1
<1>6. CASE ProcessBegin \/ ProcessLock \/ ProcessDone
  BY <1>6 DEF ProcessBegin, ProcessLock, ProcessDone
<1>7. CASE ProcessMessage
  <2>1. fails' = fails
    <3>1. fails' \in Nat /\ fails' >= fails /\ fails' <= MaxFails
      BY <1>7, MessageTaken
    <3> QED BY <3>1 DEF Favourable
  <2>2. pc[Shell] = "procLoop" /\ UNCHANGED <<bracket, held, open>>
    BY <1>7 DEF ProcessMessage
  <2>3. PICK to \in {pc, [pc EXCEPT ![Shell] = "idle"]} : SetReadEvent(to)
    BY <1>7 DEF ProcessMessage
  <2>4. \A t \in Threads : \/ pc'[t] = pc[t]
                           \/ pc[t] = "waitRead" /\ pc'[t] = "writeLock"
                           \/ t = Shell /\ pc'[t] = "idle"
    BY <2>2, <2>3 DEF SetReadEvent, Waiting
  <2> QED BY <2>1, <2>2, <2>4
<1>8. CASE UNCHANGED vars
  BY <1>8 DEF vars
<1> QED BY <1>1, <1>2, <1>3, <1>4, <1>5, <1>6, <1>7, <1>8, NoSerialFails DEF Next, Process

\* The shell does not come back from the dead.
LEMMA DeadShellStaysDead ==
    ASSUME TypeInv, Places, [Next]_vars, Favourable, ~ Dead(Shell)'
    PROVE  ~ Dead(Shell)
<1>1. Places'
  BY PlacesStep
<1>2. NoOneDied'
  BY <1>1 DEF Places, NoOneDied, Dead, Threads
<1> QED BY <1>2, DeadStayDead, CopyOwner DEF NoOneDied

LEMMA PeacefulStep ==
    ASSUME Favourable, TypeInv, Places, Peaceful, [Next]_vars, ~ Dead(Shell)'
    PROVE  ~ abandoned' /\ \A t \in Threads : kept'[t] = 0
<1>0. pc \in [Threads -> Labels] /\ kept \in [Threads -> Nat]
  BY DEF TypeInv, PlacesOK, DataOK
<1>1. ~ abandoned /\ \A t \in Threads : kept[t] = 0
  BY DeadShellStaysDead DEF Peaceful
<1> USE <1>0, <1>1, CopyOwner DEF Goto, bracketVars, mutexVars
<1> DEFINE Goal == ~ abandoned' /\ \A t \in Threads : kept'[t] = 0
<1>2. ASSUME NEW c \in Copies, Block(c) \/ Write(c) PROVE Goal
  BY <1>2 DEF Block, Write
<1>3. ASSUME NEW t \in Threads PROVE ~ BlockLock(t) /\ ~ Unblock(t)
  BY DEF BlockLock, Unblock, Places
<1>4. ASSUME NEW t \in Threads, Die(t) PROVE Goal
  BY <1>4 DEF Die, Favourable, Dead
<1>5. ASSUME NEW t \in Threads, Writing(t) PROVE Goal
  BY <1>5 DEF Writing, WriteLock, WriteLockTimeout, Copy, NoRoom, WaitRead, WaitReadTimeout,
     GiveUp, Signal, WriteDone, Acquire, Release
<1>6. CASE ProcessBegin \/ ProcessLock \/ ProcessDone \/ ProcessMessage
  BY <1>6 DEF ProcessBegin, ProcessLock, ProcessDone, ProcessMessage, Acquire, Release
<1>7. CASE UNCHANGED vars
  BY <1>7 DEF vars
<1> QED BY <1>2, <1>3, <1>4, <1>5, <1>6, <1>7, NoSerialFails DEF Next, Process

\* Only WaitRead sends a thread to wait, and it takes evrd.
LEMMA OversleptStep ==
    ASSUME TypeInv, NobodyOverslept, [Next]_vars
    PROVE  NobodyOverslept'
<1>0. pc \in [Threads -> Labels]
  BY DEF TypeInv, PlacesOK
<1> USE <1>0, CopyOwner DEF NobodyOverslept, Waiting, Goto
<1>1. ASSUME evrd' = evrd, \A t \in Threads : pc'[t] = pc[t] \/ pc'[t] # "waitRead"
      PROVE  NobodyOverslept'
  BY <1>1
<1>2. ASSUME NEW c \in Copies, Block(c) \/ Write(c) PROVE NobodyOverslept'
  BY <1>1, <1>2 DEF Block, Write
<1>3. ASSUME NEW t \in Threads, BlockLock(t) \/ Unblock(t) \/ Die(t) PROVE NobodyOverslept'
  BY <1>1, <1>3 DEF BlockLock, Unblock, Die
<1>4. ASSUME NEW t \in Threads, WaitRead(t) PROVE NobodyOverslept'
  BY <1>4 DEF WaitRead
<1>5. ASSUME NEW t \in Threads, Writing(t), ~ WaitRead(t) PROVE NobodyOverslept'
  BY <1>1, <1>5 DEF Writing, WriteLock, WriteLockTimeout, Copy, NoRoom,
     WaitReadTimeout, GiveUp, Signal, WriteDone
<1>6. CASE ProcessMessage
  <2>1. PICK to \in {pc, [pc EXCEPT ![Shell] = "idle"]} : SetReadEvent(to)
    BY <1>6 DEF ProcessMessage
  <2> QED BY <2>1, <1>1 DEF SetReadEvent
<1>7. CASE ProcessBegin \/ ProcessLock \/ ProcessDone
  BY <1>1, <1>7 DEF ProcessBegin, ProcessLock, ProcessDone
<1>8. CASE UNCHANGED vars
  BY <1>1, <1>8 DEF vars
<1>9. CASE SerialFails
  BY <1>1, <1>9 DEF SerialFails
<1> QED BY <1>2, <1>3, <1>4, <1>5, <1>6, <1>7, <1>8, <1>9 DEF Next, Process

\* What is said of the ring's writers is kept by every step while the shell is there.
LEMMA RousedStep ==
    ASSUME Favourable, Alive, [Next]_vars, ~ Dead(Shell)'
    PROVE  Roused'
<1>0. pc \in [Threads -> Labels] /\ queue \in Seq(Message) /\ TypeInv /\ Roused
  BY DEF Alive, TypeInv, PlacesOK, DataOK, WaitInv
<1> USE <1>0, CopyOwner DEF Goto
<1>same. ASSUME queue' = queue, evrd' = evrd,
                NEW t \in Threads, \A u \in Threads \ {t} : pc'[u] = pc[u],
                pc'[t] \notin {"toWait", "waitRead"} \/ pc'[t] = pc[t],
                pc[t] \notin {"writeLock", "writeCheck"}
                   \/ pc'[t] \in {"writeLock", "writeCheck"}
         PROVE  Roused'
  BY <1>same DEF Roused
<1>1. ASSUME NEW c \in Copies, Block(c) \/ Write(c) PROVE Roused'
  BY <1>1, <1>same DEF Block, Write
<1>2. ASSUME NEW t \in Threads, BlockLock(t) \/ Unblock(t) PROVE Roused'
  BY <1>2, <1>same DEF BlockLock, Unblock
<1>3. ASSUME NEW t \in Threads, Die(t) PROVE Roused'
  BY <1>3 DEF Die, Favourable, Dead
<1>4. ASSUME NEW t \in Threads, WriteLock(t) PROVE Roused'
  <2>1. ~ abandoned
    BY AliveIsBalanced
  <2> QED BY <1>4, <2>1, <1>same DEF WriteLock
<1>5. ASSUME NEW t \in Threads, Copy(t) PROVE Roused'
  BY <1>5 DEF Copy, Roused
<1>6. ASSUME NEW t \in Threads, NoRoom(t) PROVE Roused'
  BY <1>6, EmptyHasRoom DEF NoRoom, Roused
<1>7. ASSUME NEW t \in Threads, WaitRead(t) PROVE Roused'
  <2>1. CASE evrd
    BY <1>7, <2>1 DEF WaitRead, Roused
  <2>2. CASE ~ evrd
    <3>1. queue' = queue /\ pc[t] = "toWait" /\ pc' = [pc EXCEPT ![t] = "waitRead"]
      BY <1>7, <2>2 DEF WaitRead
    <3> QED BY <2>2, <3>1 DEF Roused
  <2> QED BY <2>1, <2>2
<1>8. ASSUME NEW t \in Threads, Signal(t) \/ WriteDone(t) PROVE Roused'
  BY <1>8, <1>same DEF Signal, WriteDone
<1>9. CASE ProcessBegin \/ ProcessLock \/ ProcessDone
  BY <1>9, <1>same DEF ProcessBegin, ProcessLock, ProcessDone
<1>10. CASE ProcessMessage
  <2>1. PICK to \in {pc, [pc EXCEPT ![Shell] = "idle"]} : SetReadEvent(to)
    BY <1>10 DEF ProcessMessage
  <2>2. CASE Waiting = {} /\ evrd' = TRUE
    BY <2>2 DEF Roused
  <2>3. ASSUME NEW w \in Waiting, pc' = [to EXCEPT ![w] = "writeLock"] PROVE Roused'
    BY <2>3 DEF Roused, Waiting
  <2> QED BY <2>1, <2>2, <2>3 DEF SetReadEvent
<1>11. CASE UNCHANGED vars
  BY <1>11 DEF vars, Roused
<1> QED BY <1>1, <1>2, <1>3, <1>4, <1>5, <1>6, <1>7, <1>8, <1>9, <1>10, <1>11, NoTimeout,
        NoSerialFails DEF Next, Writing, Process, Alive

\* No copy goes mute and nobody gives up, because nobody is late.
LEMMA InTimeStep ==
    ASSUME Favourable, Alive, [Next]_vars, ~ Dead(Shell)'
    PROVE  InTime'
<1>0. pc \in [Threads -> Labels] /\ up \in [Copies -> BOOLEAN] /\ InTime /\ ~ abandoned
  BY AliveIsBalanced DEF Alive, TypeInv, PlacesOK, FlagsOK, WaitInv
<1> USE <1>0, CopyOwner DEF InTime, Goto, copyVars
<1>1. ASSUME NEW c \in Copies, Block(c) \/ Write(c) PROVE InTime'
  <2>1. ObjectsExist
    BY DEF ObjectsExist, Alive, WaitInv, Places
  <2> QED BY <1>1, <2>1 DEF Block, Write
<1>2. ASSUME NEW t \in Threads, BlockLock(t) \/ Unblock(t) \/ Die(t) PROVE InTime'
  BY <1>2 DEF BlockLock, Unblock, Die
<1>3. ASSUME NEW t \in Threads, Writing(t) PROVE InTime'
  BY <1>3, NoTimeout DEF Writing, WriteLock, Copy, NoRoom, WaitRead, Signal, WriteDone
<1>4. CASE ProcessBegin \/ ProcessLock \/ ProcessDone
  BY <1>4 DEF ProcessBegin, ProcessLock, ProcessDone
<1>5. CASE ProcessMessage
  <2>1. PICK to \in {pc, [pc EXCEPT ![Shell] = "idle"]} : SetReadEvent(to)
    BY <1>5 DEF ProcessMessage
  <2>2. \A t \in Threads : pc'[t] \in {pc[t], "idle", "writeLock"}
    BY <2>1 DEF SetReadEvent, Waiting
  <2> QED BY <1>5, <2>2 DEF ProcessMessage
<1>6. CASE UNCHANGED vars
  BY <1>6 DEF vars
<1> QED BY <1>1, <1>2, <1>3, <1>4, <1>5, <1>6, NoSerialFails DEF Next, Process, Alive

LEMMA WaitStep ==
    ASSUME Favourable, TypeInv, BalanceInv, QueueIsAnnounced, WaitInv, [Next]_vars
    PROVE  WaitInv'
<1>1. Places' /\ NobodyOverslept'
  BY PlacesStep, OversleptStep DEF WaitInv
<1>2. Peaceful'
  BY PeacefulStep DEF Peaceful, WaitInv
<1>3. ASSUME ~ Dead(Shell)' PROVE Roused' /\ InTime'
  <2>1. Alive
    BY <1>3, DeadShellStaysDead DEF Alive, WaitInv
  <2> QED BY <1>3, <2>1, RousedStep, InTimeStep
<1> QED BY <1>1, <1>2, <1>3 DEF WaitInv

LEMMA WaitInit == Init => WaitInv
<1> SUFFICES ASSUME Init PROVE WaitInv
  OBVIOUS
<1>1. \A t \in Threads : pc[t] = "idle" /\ bracket[t] = NoOne /\ held[t] = FALSE
  BY DEF Init
<1>2. Places
  BY <1>1, CopyOwner DEF Init, Places
<1>3. NobodyOverslept /\ Roused
  BY <1>1 DEF Init, NobodyOverslept, Roused, Waiting
<1>4. InTime /\ Peaceful
  BY <1>1 DEF Init, InTime, Peaceful
<1> QED BY <1>2, <1>3, <1>4 DEF WaitInv

LEMMA WaitInvariance == ASSUME Favourable PROVE Spec => []WaitInv
<1>1. TypeInv /\ BalanceInv /\ QueueIsAnnounced /\ WaitInv /\ [Next]_vars => WaitInv'
  BY WaitStep
<1> QED BY <1>1, WaitInit, TypeInvariance, BalanceInvariance, NoAnnouncementIsLost, PTL DEF Spec

\* As long as the shell lives, and under what vchannel_write relies on, no copy of
\* the library stops sending: no wait for the mutex or for room ends in its timeout,
\* since whenever nobody could go on there would be nobody waiting.
THEOREM NoOneGoesMute ==
    ASSUME Favourable
    PROVE  Spec => []MuteOnlyIfShellKilled
<1>1. WaitInv => MuteOnlyIfShellKilled
  BY DEF WaitInv, InTime, MuteOnlyIfShellKilled
<1> QED BY <1>1, WaitInvariance, PTL
=============================================================================
