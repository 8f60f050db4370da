---------------------------- MODULE ShellProofs ----------------------------
(***************************************************************************)
(* Proofs about the shell: about ShellLoop, for any processes, connections *)
(* and failures, any turns between two checks and any time-out; and about  *)
(* ChannelInput, for any symbols, escapes, commands and size of the        *)
(* buffer, and any pieces in which the lines come.                         *)
(***************************************************************************)
EXTENDS ShellLoop, ChannelInput, SequenceTheorems, WellFoundedInduction, TLAPS

Locations == {"open", "start", "check", "walk", "poll", "reopen", "hello", "desktop",
              "process", "commands", "ended"}
Messages == [kind : {"HELLO"}, hidden : BOOLEAN] \cup [kind : {"HIDE", "UNHIDE"}]

SessionOK ==
    /\ connected \in BOOLEAN /\ connection \in Nat /\ hidden \in BOOLEAN
    /\ procs \in [Pids -> {"none", "old", "app", "system"}] /\ failures \in Nat
    /\ listed \in [Pids -> {"none", "old", "app", "system"}] /\ fresh \subseteq Pids
ShellOK ==
    /\ pc \in Locations /\ check_counter \in Int
    /\ g_connected \in BOOLEAN /\ g_desktop_hidden \in BOOLEAN
    /\ g_persistent_mode \in BOOLEAN
    /\ startup_procs \subseteq Pids
    /\ disconnect_age \in Never .. SESSION_TIMEOUT /\ unseen \in 0 .. SESSION_TIMEOUT
ChannelOK ==
    /\ g_vchannel \in Nat /\ g_buffer \in BOOLEAN /\ ring \in Seq(Messages)
    /\ client \in [hello : BOOLEAN, hidden : BOOLEAN]
TypeOK == SessionOK /\ ShellOK /\ ChannelOK

-----------------------------------------------------------------------------
(* What the client knows.                                                  *)

\* What a message says of the desktop.
Says(m) == CASE m.kind = "HELLO" -> m.hidden
             [] m.kind = "HIDE" -> TRUE
             [] m.kind = "UNHIDE" -> FALSE

\* What the client will know, when it has got all that is in the ring.
Greeted == client.hello \/ \E i \in 1 .. Len(ring) : ring[i].kind = "HELLO"
LearnsHidden ==
    IF ring = <<>> THEN client.hidden = g_desktop_hidden
    ELSE Says(Last(ring)) = g_desktop_hidden

\* The shell's channel is never of a connection still to come; and the client on
\* it is being told, except between its opening and the HELLO, if there is a ring.
Informed ==
    /\ g_vchannel <= connection
    /\ pc \in {"open", "start"} => ring = <<>>
    /\ pc \notin {"open", "start", "hello"} /\ g_buffer /\ Arrives => Greeted /\ LearnsHidden

-----------------------------------------------------------------------------
(* Why the shell ends.                                                     *)

\* The time of the time-out began no sooner than nobody was seen; an application
\* has an id of the list only if ids are used again.
Excused ==
    /\ disconnect_age <= unseen
    /\ pc \in {"open", "start"} => \A pid \in Pids : procs[pid] \in {"none", "old"}
    /\ \A pid \in startup_procs : procs[pid] = "app" => PidReuse

\* Applications that are not in the list while it is looked through were started
\* after it was made.
Listed ==
    pc = "walk" =>
        \A pid \in Pids : procs[pid] = "app" => listed[pid] = "app" \/ pid \in fresh

EndsForAReason ==
    pc = "ended" =>
        \/ reason = "timeout" /\ unseen = SESSION_TIMEOUT
        \/ reason = "failure" /\ failures > 0
        \/ reason = "assertion" /\ g_vchannel = 0
        \/ reason = "nothing runs"
           /\ \A pid \in Pids : procs[pid] = "app" => PidReuse \/ pid \in fresh

IInv == TypeOK /\ Informed /\ Excused /\ Listed /\ EndsForAReason

-----------------------------------------------------------------------------
(* Types.                                                                  *)

\* Older is the minimum.
LEMMA OlderIsMin ==
    ASSUME NEW age \in Int
    PROVE  Older(age) = IF age < SESSION_TIMEOUT THEN age + 1 ELSE SESSION_TIMEOUT
<1> DEFINE m == IF age < SESSION_TIMEOUT THEN age + 1 ELSE SESSION_TIMEOUT
<1>1. SESSION_TIMEOUT \in Nat
  BY LoopAssumption
<1>2. m \in {age + 1, SESSION_TIMEOUT} /\ \A y \in {age + 1, SESSION_TIMEOUT} : m =< y
  BY <1>1
<1>3. ASSUME NEW x \in {age + 1, SESSION_TIMEOUT}, \A y \in {age + 1, SESSION_TIMEOUT} : x =< y
      PROVE  x = m
  BY <1>1, <1>2, <1>3
<1>4. QED
  BY <1>2, <1>3 DEF Older, Min

\* What a written message does to the ring.
LEMMA WriteAppends ==
    ASSUME TypeOK, g_buffer, NEW m \in Messages, vchannel_write(m)
    PROVE  /\ ring' \in Seq(Messages) /\ ring' # <<>>
           /\ Len(ring') = Len(ring) + 1 /\ Last(ring') = m
           /\ \A i \in 1 .. Len(ring) : ring'[i] = ring[i]
<1>1. ring \in Seq(Messages) /\ ring' = Append(ring, m)
  BY DEF TypeOK, ChannelOK, vchannel_write
<1>2. Len(ring') = Len(ring) + 1 /\ ring'[Len(ring) + 1] = m
  BY <1>1, AppendProperties
<1>3. ring' \in Seq(Messages) /\ \A i \in 1 .. Len(ring) : ring'[i] = ring[i]
  BY <1>1, AppendProperties
<1>4. ring' # <<>> /\ Last(ring') = m
  BY <1>1, <1>2, EmptySeq, LenProperties DEF Last
<1>5. QED
  BY <1>2, <1>3, <1>4

\* It begins within its types.
LEMMA InitType == Init => TypeOK
<1> SUFFICES ASSUME Init PROVE TypeOK
  OBVIOUS
<1>1. SessionOK
  BY DEF Init, SessionOK, Freed
<1>2. ShellOK
  <2>1. pc \in Locations /\ startup_procs \subseteq Pids
    BY DEF Init, Locations
  <2>2. /\ check_counter \in Int
        /\ disconnect_age \in Never .. SESSION_TIMEOUT /\ unseen \in 0 .. SESSION_TIMEOUT
    BY LoopAssumption DEF Init, Never
  <2>3. /\ g_connected \in BOOLEAN /\ g_desktop_hidden \in BOOLEAN
        /\ g_persistent_mode \in BOOLEAN
    BY DEF Init
  <2>4. QED
    BY <2>1, <2>2, <2>3 DEF ShellOK
<1>3. ChannelOK
  BY EmptySeq DEF Init, ChannelOK, Unaware
<1>4. QED
  BY <1>1, <1>2, <1>3 DEF TypeOK

\* The shell's own steps leave the session alone, but for the failures.
LEMMA TurnKeepsSession ==
    ASSUME TypeOK, Turn
    PROVE  /\ UNCHANGED <<connected, connection, hidden, procs>> /\ failures' \in Nat
           /\ <<listed', fresh'>> \in {<<listed, fresh>>, <<procs, {}>>, <<Freed, {}>>, <<Freed, fresh>>}
<1> DEFINE Goal == /\ UNCHANGED <<connected, connection, hidden, procs>> /\ failures' \in Nat
                   /\ <<listed', fresh'>> \in {<<listed, fresh>>, <<procs, {}>>, <<Freed, {}>>,
                                              <<Freed, fresh>>}
<1>1. failures \in Nat /\ (Fail => failures' \in Nat)
  BY DEF TypeOK, SessionOK, Fail
<1>2. ASSUME UNCHANGED sessionVars, UNCHANGED <<listed, fresh>> PROVE Goal
  BY <1>1, <1>2 DEF sessionVars
<1>3. CASE Start
  BY <1>1, <1>3 DEF Start, is_connected, endVars
<1>4. CASE Poll
  BY <1>1, <1>4 DEF Poll, is_connected, endVars
<1>5. CASE CheckTerminate
  BY <1>1, <1>5 DEF CheckTerminate, should_terminate, WTSEnumerateProcesses, Go, Stay
<1>6. CASE CheckCounter \/ Hello \/ Desktop
  BY <1>2, <1>6 DEF CheckCounter, Hello, Desktop, endVars
<1>7. CASE ProcessMessage \/ ProcessDone \/ Abort \/ CommandsDone
  BY <1>2, <1>7 DEF ProcessMessage, ProcessDone, Abort, CommandsDone, endVars
<1>9. CASE Open \/ Reopen
  BY <1>1, <1>9 DEF Open, Reopen, WTSVirtualChannelOpen, endVars
<1>10. CASE Walk
  BY <1>1, <1>10 DEF Walk, Go, Stay
<1>8. QED
  BY <1>3, <1>4, <1>5, <1>6, <1>7, <1>9, <1>10 DEF Turn

\* The session stays of its types.
LEMMA SessionType ==
    ASSUME TypeOK, [Next]_vars
    PROVE  SessionOK'
<1> USE DEF TypeOK, SessionOK
<1>1. ASSUME NEW pid \in Pids, NewProcess(pid)
      PROVE  procs' \in [Pids -> {"none", "old", "app", "system"}] /\ fresh' \subseteq Pids
  BY <1>1 DEF NewProcess
<1>2. CASE Turn
  BY <1>2, TurnKeepsSession DEF Freed
<1>3. CASE Command
  BY <1>1, <1>3 DEF Command, do_spawn, do_persistent, launch_appW
<1>4. CASE MessageBox \/ Tick
  BY <1>4 DEF MessageBox, Tick, sessionVars, endVars
<1>5. CASE Disconnect
  BY <1>5 DEF Disconnect, endVars
<1>6. CASE Reconnect
  BY <1>6 DEF Reconnect, endVars
<1>7. CASE SwitchDesktop
  BY <1>7 DEF SwitchDesktop, endVars
<1>8. ASSUME NEW pid \in Pids, ProcessStarts(pid) \/ ProcessEnds(pid)
      PROVE  SessionOK'
  BY <1>1, <1>8 DEF ProcessStarts, ProcessEnds, endVars
<1>9. CASE UNCHANGED vars
  BY <1>9 DEF vars, sessionVars, endVars
<1>10. QED
  BY <1>2, <1>3, <1>4, <1>5, <1>6, <1>7, <1>8, <1>9 DEF Next

\* So do the shell's variables.
LEMMA ShellType ==
    ASSUME TypeOK, [Next]_vars
    PROVE  ShellOK'
<1> SESSION_TIMEOUT \in Nat \ {0} /\ CHECK \in Nat
  BY LoopAssumption
<1>types. ShellOK /\ hidden \in BOOLEAN
  BY DEF TypeOK, SessionOK
<1> USE <1>types DEF ShellOK, Locations, Never, knownVars, timeVars
<1>1. CASE Open \/ CheckCounter
  BY <1>1 DEF Open, CheckCounter
<1>2. CASE Start
  BY <1>2 DEF Start, build_startup_procs, is_desktop_hidden
<1>3. CASE CheckTerminate
  <2>1. pc' \in {"ended", "poll", "walk"}
    BY <1>3 DEF CheckTerminate, should_terminate, WTSEnumerateProcesses, Go, Stay
  <2>2. check_counter' = -1 /\ UNCHANGED <<knownVars, timeVars>>
    BY <1>3 DEF CheckTerminate
  <2>3. QED
    BY <2>1, <2>2
<1>4. CASE Poll
  BY <1>4 DEF Poll, DisconnectAge
<1>5. CASE Reopen \/ Hello
  BY <1>5 DEF Reopen, Hello
<1>6. CASE Desktop
  BY <1>6 DEF Desktop, is_desktop_hidden
<1>7. CASE ProcessMessage \/ ProcessDone \/ Abort \/ CommandsDone
  BY <1>7 DEF ProcessMessage, ProcessDone, Abort, CommandsDone
<1>14. CASE Walk
  BY <1>14 DEF Walk, Go, Stay
<1>8. CASE Command
  BY <1>8 DEF Command, do_spawn, do_persistent
<1>9. CASE Tick
  <2>1. /\ disconnect_age \in Int => Older(disconnect_age) \in Int
        /\ disconnect_age \in Int /\ disconnect_age >= 0
              => Older(disconnect_age) \in 0 .. SESSION_TIMEOUT
        /\ unseen \in Int /\ unseen >= 0 => Older(unseen) \in 0 .. SESSION_TIMEOUT
    BY OlderIsMin
  <2>2. QED
    BY <1>9, <2>1 DEF Tick
<1>10. CASE MessageBox \/ Disconnect \/ Reconnect \/ SwitchDesktop
  BY <1>10 DEF MessageBox, Disconnect, Reconnect, SwitchDesktop
<1>11. ASSUME NEW pid \in Pids, ProcessStarts(pid) \/ ProcessEnds(pid)
       PROVE  ShellOK'
  BY <1>11 DEF ProcessStarts, ProcessEnds
<1>12. CASE UNCHANGED vars
  BY <1>12 DEF vars
<1>13. QED
  BY <1>1, <1>2, <1>3, <1>4, <1>5, <1>6, <1>7, <1>8, <1>9, <1>10, <1>11, <1>12, <1>14
     DEF Next, Turn


\* What the steps do to the ring, the client and what the shell wants it to know.
Greeting == {"open", "start", "hello"}

Opens ==
    /\ g_vchannel' \in {0, Handle} /\ g_buffer' \in BOOLEAN
    /\ UNCHANGED <<connected, connection, ring, client>>
    /\ <<pc, pc'>> \in {<<"open", "start">>, <<"reopen", "hello">>}
Writes ==
    /\ \E m \in Messages : /\ vchannel_write(m) /\ Says(m) = g_desktop_hidden'
                           /\ m.kind = "HELLO" \/ pc \notin Greeting
    /\ pc' \notin Greeting /\ g_buffer
    /\ UNCHANGED <<connected, connection, g_vchannel, g_buffer, client>>
IsMute ==
    /\ ~ g_buffer /\ pc' \notin Greeting
    /\ UNCHANGED <<connected, connection, g_vchannel, g_buffer, ring, client>>
Others ==
    /\ UNCHANGED <<g_vchannel, g_buffer, ring, client, g_desktop_hidden>>
    /\ pc' = pc \/ {pc, pc'} \cap Greeting = {}
    /\ UNCHANGED <<connected, connection>> \/ connection' = connection + 1

\* Every step is of one of these kinds.
LEMMA ChannelSteps ==
    ASSUME TypeOK, [Next]_vars
    PROVE  Opens \/ Writes \/ IsMute \/ ProcessMessage \/ Disconnect \/ Others
<1> DEFINE Goal == Opens \/ Writes \/ IsMute \/ ProcessMessage \/ Disconnect \/ Others
<1>same. ASSUME UNCHANGED <<connected, connection, g_vchannel, g_buffer, ring, client>>,
                g_desktop_hidden' = g_desktop_hidden,
                pc' = pc \/ {pc, pc'} \cap Greeting = {}
         PROVE  Goal
  BY <1>same DEF Others
<1> USE DEF channelVars, sessionVars, knownVars, Greeting
<1>1. CASE Start
  <2>1. [kind |-> "HELLO", hidden |-> g_desktop_hidden'] \in Messages
    BY <1>1, ShellType DEF Messages, ShellOK
  <2>2. QED
    BY <1>1, <2>1 DEF Start, Writes, Says, IsMute, vchannel_write
<1>2. CASE Hello
  <2>1. [kind |-> "HELLO", hidden |-> g_desktop_hidden] \in Messages
    BY DEF Messages, ShellOK, TypeOK
  <2>2. QED
    BY <1>2, <2>1 DEF Hello, Writes, Says, IsMute, vchannel_write
<1>3. CASE Desktop
  <2>1. CASE check_counter < 0 /\ is_desktop_hidden # g_desktop_hidden
    <3>1. PICK m \in {[kind |-> "HIDE"], [kind |-> "UNHIDE"]} :
             /\ vchannel_write(m)
             /\ m.kind = IF is_desktop_hidden THEN "HIDE" ELSE "UNHIDE"
      BY <1>3, <2>1 DEF Desktop
    <3>2. m \in Messages
      BY DEF Messages
    <3>3. hidden \in BOOLEAN /\ g_desktop_hidden' = hidden
      BY <1>3, <2>1 DEF Desktop, is_desktop_hidden, TypeOK, SessionOK
    <3>4. Says(m) = g_desktop_hidden'
      BY <3>1, <3>3 DEF Says, is_desktop_hidden
    <3>5. QED
      BY <1>3, <3>1, <3>2, <3>4 DEF Desktop, Writes, IsMute, vchannel_write
  <2>2. CASE ~ (check_counter < 0 /\ is_desktop_hidden # g_desktop_hidden)
    BY <1>3, <2>2, <1>same DEF Desktop
  <2>3. QED
    BY <2>1, <2>2
<1>4. CASE Open \/ Reopen
  BY <1>4 DEF Open, Reopen, Opens, WTSVirtualChannelOpen, TypeOK, ChannelOK
<1>5. CASE ProcessMessage \/ Disconnect
  BY <1>5
<1>6. CASE CheckTerminate
  BY <1>6, <1>same DEF CheckTerminate, should_terminate, WTSEnumerateProcesses, Go, Stay
<1>7. CASE CheckCounter \/ Poll \/ ProcessDone \/ Abort \/ CommandsDone
  BY <1>7, <1>same DEF CheckCounter, Poll, ProcessDone, Abort, CommandsDone
<1>13. CASE Walk
  BY <1>13, <1>same DEF Walk, Go, Stay
<1>8. CASE Command \/ MessageBox \/ Tick \/ SwitchDesktop
  BY <1>8, <1>same DEF Command, MessageBox, Tick, SwitchDesktop
<1>9. CASE Reconnect
  BY <1>9 DEF Reconnect, Others
<1>10. ASSUME NEW pid \in Pids, ProcessStarts(pid) \/ ProcessEnds(pid) PROVE Goal
  BY <1>10, <1>same DEF ProcessStarts, ProcessEnds
<1>11. CASE UNCHANGED vars
  BY <1>11, <1>same DEF vars
<1>12. QED
  BY <1>1, <1>2, <1>3, <1>4, <1>5, <1>6, <1>7, <1>8, <1>9, <1>10, <1>11, <1>13
     DEF Next, Turn

\* The channel's variables stay of their types.
LEMMA ChannelType ==
    ASSUME TypeOK, [Next]_vars
    PROVE  ChannelOK'
<1> USE DEF TypeOK, ChannelOK, SessionOK
<1>1. CASE Opens
  BY <1>1 DEF Opens, Handle
<1>2. CASE Writes
  <2>1. ring' \in Seq(Messages)
    BY <1>2, WriteAppends DEF Writes
  <2>2. QED
    BY <1>2, <2>1 DEF Writes
<1>3. CASE ProcessMessage
  <2>1. Head(ring) \in Messages /\ Tail(ring) \in Seq(Messages)
    BY <1>3, HeadTailProperties DEF ProcessMessage
  <2>2. Told(Head(ring)) \in [hello : BOOLEAN, hidden : BOOLEAN]
    BY <2>1 DEF Told, Messages
  <2>3. QED
    BY <1>3, <2>1, <2>2 DEF ProcessMessage
<1>4. CASE Disconnect
  BY <1>4 DEF Disconnect, Unaware
<1>5. CASE Others \/ IsMute
  BY <1>5 DEF Others, IsMute
<1>6. QED
  BY <1>1, <1>2, <1>3, <1>4, <1>5, ChannelSteps

\* The shell, its session and its channel are always within their types.
THEOREM TypeCorrect == Spec => []TypeOK
<1>1. TypeOK /\ [Next]_vars => TypeOK'
  BY SessionType, ShellType, ChannelType DEF TypeOK
<1>2. QED
  BY <1>1, InitType, PTL DEF Spec

-----------------------------------------------------------------------------
(* The client is told.                                                     *)

\* A message that gets to the client tells it what it says, and a HELLO greets.
LEMMA ToldWhatItSays ==
    ASSUME TypeOK, NEW m \in Messages
    PROVE  /\ Told(m).hidden = Says(m)
           /\ Told(m).hello = (client.hello \/ m.kind = "HELLO")
  BY DEF TypeOK, ChannelOK, Told, Says, Messages

\* A client that is being told is so after a message less in the ring.
LEMMA ProcessKeepsInformed ==
    ASSUME TypeOK, Informed, ProcessMessage
    PROVE  Informed'
<1> DEFINE n == Len(ring)
<1>1. /\ ring \in Seq(Messages) /\ ring # <<>> /\ ring' = Tail(ring)
      /\ UNCHANGED <<connected, connection, g_vchannel, g_buffer, g_desktop_hidden>>
      /\ pc = "process" /\ pc' \in {"process", "commands"}
  BY DEF ProcessMessage, TypeOK, ChannelOK, sessionVars, knownVars
<1>2. CASE ~ (g_buffer /\ Arrives)
  BY <1>1, <1>2 DEF Informed, Arrives
<1>3. CASE g_buffer /\ Arrives
  <2>1. Head(ring) = ring[1] /\ n \in Nat /\ n >= 1 /\ ring[1] \in Messages
    BY <1>1, EmptySeq, LenProperties, HeadTailProperties
  <2>2. /\ ring' \in Seq(Messages) /\ Len(ring') = n - 1
        /\ \A i \in 1 .. n - 1 : ring'[i] = ring[i + 1]
    BY <1>1, HeadTailProperties
  <2>3. client'.hidden = Says(ring[1]) /\ client'.hello = (client.hello \/ ring[1].kind = "HELLO")
    BY <1>3, <2>1, ToldWhatItSays DEF ProcessMessage
  <2>4. Greeted /\ Says(ring[n]) = g_desktop_hidden
    BY <1>1, <1>3 DEF Informed, LearnsHidden, Last
  <2>5. Greeted'
    <3>1. CASE client.hello \/ ring[1].kind = "HELLO"
      BY <2>3, <3>1 DEF Greeted
    <3>2. ASSUME NEW i \in 2 .. n, ring[i].kind = "HELLO" PROVE Greeted'
      <4>1. i - 1 \in 1 .. Len(ring') /\ ring'[i - 1] = ring[i]
        BY <2>1, <2>2
      <4>2. QED
        BY <3>2, <4>1 DEF Greeted
    <3>3. QED
      BY <2>1, <2>4, <3>1, <3>2 DEF Greeted
  <2>6. LearnsHidden'
    <3>1. CASE n = 1
      BY <1>1, <2>2, <2>3, <2>4, <3>1, EmptySeq DEF LearnsHidden
    <3>2. CASE n > 1
      <4>1. Len(ring') = n - 1 /\ ring'[n - 1] = ring[n] /\ ring' # <<>>
        BY <2>1, <2>2, <3>2, EmptySeq
      <4>2. Last(ring') = ring[n]
        BY <4>1 DEF Last
      <4>3. QED
        BY <1>1, <2>4, <4>1, <4>2 DEF LearnsHidden
    <3>3. QED
      BY <2>1, <3>1, <3>2
  <2>7. QED
    BY <1>1, <2>5, <2>6 DEF Informed
<1>4. QED
  BY <1>2, <1>3

\* Whatever the step, what the client is owed stays so.
LEMMA StepKeepsInformed ==
    ASSUME TypeOK, Informed, [Next]_vars
    PROVE  Informed'
<1> USE DEF Informed, Greeting
<1>nat. connection \in Nat /\ g_vchannel \in Nat /\ ring \in Seq(Messages)
  BY DEF TypeOK, SessionOK, ChannelOK
<1>1. CASE Opens
  BY <1>1, <1>nat DEF Opens, Handle
<1>2. CASE Writes
  <2>1. PICK m \in Messages : /\ vchannel_write(m) /\ Says(m) = g_desktop_hidden'
                              /\ m.kind = "HELLO" \/ pc \notin Greeting
    BY <1>2 DEF Writes
  <2>2. /\ ring' \in Seq(Messages) /\ ring' # <<>>
        /\ Len(ring') = Len(ring) + 1 /\ Last(ring') = m
        /\ \A i \in 1 .. Len(ring) : ring'[i] = ring[i]
    BY <1>2, <2>1, WriteAppends DEF Writes
  <2>3. LearnsHidden'
    BY <2>1, <2>2 DEF LearnsHidden
  <2>4. ASSUME Arrives PROVE Greeted'
    <3>1. CASE m.kind = "HELLO"
      BY <1>nat, <2>2, <3>1, LenProperties DEF Greeted, Last
    <3>2. CASE pc \notin Greeting
      <4>1. Greeted /\ UNCHANGED client
        BY <1>2, <2>4, <3>2 DEF Writes
      <4>2. QED
        BY <1>nat, <2>2, <4>1, LenProperties DEF Greeted
    <3>3. QED
      BY <2>1, <3>1, <3>2
  <2>5. UNCHANGED <<connected, connection, g_vchannel, g_buffer>> /\ pc' \notin Greeting
    BY <1>2 DEF Writes
  <2>6. QED
    BY <2>3, <2>4, <2>5 DEF Arrives
<1>3. CASE ProcessMessage
  BY <1>3, ProcessKeepsInformed
<1>4. CASE Disconnect
  BY <1>4 DEF Disconnect, Arrives
<1>5. CASE Others
  <2>1. g_vchannel' <= connection' /\ (Arrives' => Arrives)
    BY <1>5, <1>nat DEF Others, Arrives
  <2>2. UNCHANGED <<Greeted, LearnsHidden, ring, g_buffer>>
    BY <1>5 DEF Others, Greeted, LearnsHidden
  <2>3. pc' = pc \/ {pc, pc'} \cap Greeting = {}
    BY <1>5 DEF Others
  <2>4. QED
    BY <2>1, <2>2, <2>3
<1>7. CASE IsMute
  BY <1>7 DEF IsMute
<1>6. QED
  BY <1>1, <1>2, <1>3, <1>4, <1>5, <1>7, ChannelSteps

\* Informed is an invariant, and so the property that the run checks is: a client
\* on the shell's channel has been greeted and knows whether the desktop is
\* hidden, when the ring is empty and the shell between two turns.
THEOREM ClientIsTold == Spec => []ClientKnowsHidden
<1>1. Init => Informed
  BY DEF Init, Informed
<1>2. TypeOK /\ Informed /\ [Next]_vars => Informed'
  BY StepKeepsInformed
<1>3. TypeOK /\ Informed => ClientKnowsHidden
  <2> SUFFICES ASSUME TypeOK, Informed, pc = "check", g_buffer, Arrives, ring = <<>>
               PROVE  client = [hello |-> TRUE, hidden |-> g_desktop_hidden]
    BY DEF ClientKnowsHidden
  <2>1. Greeted /\ client.hidden = g_desktop_hidden
    BY DEF Informed, LearnsHidden
  <2>2. client.hello
    BY <2>1, EmptySeq DEF Greeted
  <2>3. QED
    BY <2>1, <2>2 DEF TypeOK, ChannelOK
<1>4. QED
  BY <1>1, <1>2, <1>3, TypeCorrect, PTL DEF Spec

-----------------------------------------------------------------------------
(* The shell does not end too early.                                       *)

\* An id that is free is given to an application; it is of the list only if ids
\* are used again.
LEMMA NewProcessIsExcused ==
    ASSUME TypeOK, Excused, NEW pid \in Pids, NewProcess(pid), UNCHANGED startup_procs
    PROVE  \A p \in startup_procs' : procs'[p] = "app" => PidReuse
  BY DEF TypeOK, SessionOK, ShellOK, Excused, NewProcess

\* Every step keeps the ages in order and the ids of the list to their processes.
LEMMA StepKeepsExcused ==
    ASSUME TypeOK, Excused, [Next]_vars
    PROVE  Excused'
<1> USE DEF Excused, sessionVars, knownVars, timeVars
<1>types. TypeOK /\ ShellOK /\ procs \in [Pids -> {"none", "old", "app", "system"}]
          /\ disconnect_age \in Int /\ unseen \in Nat
  BY LoopAssumption DEF TypeOK, SessionOK, ShellOK, Never
<1>1. CASE Start
  <2>1. startup_procs' \subseteq Pids /\ UNCHANGED procs
    BY <1>1 DEF Start, build_startup_procs
  <2>2. QED
    BY <1>1, <2>1 DEF Start, Never
<1>2. CASE Poll
  BY <1>2, <1>types DEF Poll, DisconnectAge, Never
<1>3. CASE CheckTerminate
  <2>1. pc' \in {"poll", "walk", "ended"}
    BY <1>3 DEF CheckTerminate, should_terminate, WTSEnumerateProcesses, Go, Stay
  <2>2. QED
    BY <1>3, <2>1 DEF CheckTerminate
<1>4. CASE Open \/ CheckCounter \/ Reopen \/ Hello \/ Desktop
  BY <1>4 DEF Open, CheckCounter, Reopen, Hello, Desktop
<1>5. CASE ProcessMessage \/ ProcessDone \/ Abort \/ CommandsDone
  BY <1>5 DEF ProcessMessage, ProcessDone, Abort, CommandsDone
<1>13. CASE Walk
  BY <1>13 DEF Walk, Go, Stay
<1>6. CASE Command
  <2>1. pc' = pc /\ pc = "commands" /\ UNCHANGED <<startup_procs, timeVars>>
    BY <1>6 DEF Command
  <2>2. UNCHANGED procs \/ \E pid \in Pids : NewProcess(pid)
    BY <1>6 DEF Command, do_spawn, do_persistent, launch_appW
  <2>3. QED
    BY <2>1, <2>2, NewProcessIsExcused
<1>7. CASE Tick
  <2>1. Older(disconnect_age) <= Older(unseen)
    BY <1>types, OlderIsMin, LoopAssumption
  <2>2. QED
    BY <1>7, <2>1 DEF Tick
<1>8. CASE MessageBox \/ Disconnect \/ Reconnect \/ SwitchDesktop
  BY <1>8 DEF MessageBox, Disconnect, Reconnect, SwitchDesktop
<1>9. ASSUME NEW pid \in Pids, ProcessStarts(pid) PROVE Excused'
  BY <1>9, NewProcessIsExcused DEF ProcessStarts
<1>10. ASSUME NEW pid \in Pids, ProcessEnds(pid) PROVE Excused'
  BY <1>10, <1>types DEF ProcessEnds, ShellOK
<1>11. CASE UNCHANGED vars
  BY <1>11 DEF vars
<1>12. QED
  BY <1>1, <1>2, <1>3, <1>4, <1>5, <1>6, <1>7, <1>8, <1>9, <1>10, <1>11, <1>13
     DEF Next, Turn

\* Whatever else happens while the list is looked through, what starts is fresh.
LEMMA StepKeepsListed ==
    ASSUME TypeOK, Listed, [Next]_vars
    PROVE  Listed'
<1> USE DEF Listed
<1>types. procs \in [Pids -> {"none", "old", "app", "system"}]
  BY DEF TypeOK, SessionOK
<1>1. CASE CheckTerminate
  <2>1. UNCHANGED procs /\ (pc' = "walk" => listed' = procs)
    BY <1>1 DEF CheckTerminate, should_terminate, WTSEnumerateProcesses, Go, Stay
  <2>2. QED
    BY <2>1
<1>2. CASE Turn /\ ~ CheckTerminate
  <2>1. pc' # "walk"
    BY <1>2 DEF Turn, Open, Start, Walk, Go, Stay, CheckCounter, Poll, Reopen, Hello, Desktop,
                ProcessMessage, ProcessDone, Abort, CommandsDone
  <2>2. QED
    BY <2>1
<1>3. CASE Command
  BY <1>3 DEF Command
<1>4. CASE MessageBox \/ Tick \/ Disconnect \/ Reconnect \/ SwitchDesktop
  BY <1>4 DEF MessageBox, Tick, Disconnect, Reconnect, SwitchDesktop, sessionVars, endVars
<1>5. ASSUME NEW pid \in Pids, ProcessStarts(pid) PROVE Listed'
  BY <1>5, <1>types DEF ProcessStarts, NewProcess
<1>6. ASSUME NEW pid \in Pids, ProcessEnds(pid) PROVE Listed'
  BY <1>6, <1>types DEF ProcessEnds, endVars
<1>7. CASE UNCHANGED vars
  BY <1>7 DEF vars, sessionVars, endVars
<1>8. QED
  BY <1>1, <1>2, <1>3, <1>4, <1>5, <1>6, <1>7 DEF Next

\* Nothing happens once the shell has ended.
LEMMA EndIsTheEnd ==
    ASSUME [Next]_vars, pc = "ended"
    PROVE  UNCHANGED <<pc, reason, unseen, procs, failures, g_vchannel, fresh>>
<1>1. ~ Turn
  BY DEF Turn, Open, Start, CheckTerminate, Walk, CheckCounter, Poll, Reopen, Hello, Desktop,
         ProcessMessage, ProcessDone, Abort, CommandsDone
<1>2. ~ (Command \/ MessageBox \/ Tick \/ Disconnect \/ Reconnect \/ SwitchDesktop)
  BY DEF Command, MessageBox, Tick, Disconnect, Reconnect, SwitchDesktop, Running
<1>3. \A pid \in Pids : ~ (ProcessStarts(pid) \/ ProcessEnds(pid))
  BY DEF ProcessStarts, ProcessEnds, Running
<1>4. QED
  BY <1>1, <1>2, <1>3 DEF Next, vars, sessionVars, timeVars, channelVars, endVars

\* Only should_terminate ends the shell, and the assertion.
LEMMA OnlyCheckEnds ==
    ASSUME [Next]_vars, pc # "ended", ~ CheckTerminate, ~ Walk, ~ Abort
    PROVE  pc' # "ended"
<1>1. ASSUME Turn PROVE pc' # "ended"
  BY <1>1 DEF Turn, Open, Start, CheckCounter, Poll, Reopen, Hello, Desktop, ProcessMessage,
              ProcessDone, CommandsDone
<1>2. ASSUME Command \/ MessageBox \/ Tick \/ Disconnect \/ Reconnect \/ SwitchDesktop
      PROVE  pc' # "ended"
  BY <1>2 DEF Command, MessageBox, Tick, Disconnect, Reconnect, SwitchDesktop
<1>3. ASSUME NEW pid \in Pids, ProcessStarts(pid) \/ ProcessEnds(pid) PROVE pc' # "ended"
  BY <1>3 DEF ProcessStarts, ProcessEnds
<1>4. QED
  BY <1>1, <1>2, <1>3 DEF Next, vars

\* A step that ends the shell has its reason.
LEMMA StepEndsForAReason ==
    ASSUME TypeOK, Excused, Listed, EndsForAReason, [Next]_vars
    PROVE  EndsForAReason'
<1>1. CASE pc = "ended"
  BY <1>1, EndIsTheEnd DEF EndsForAReason
<1>2. CASE pc # "ended" /\ ~ CheckTerminate /\ ~ Walk /\ ~ Abort
  BY <1>2, OnlyCheckEnds DEF EndsForAReason
<1>3. CASE CheckTerminate
  <2>1. UNCHANGED <<unseen, procs>>
    BY <1>3 DEF CheckTerminate, timeVars
  <2>2. \/ pc' # "ended"
        \/ reason' = "failure" /\ failures' = failures + 1
        \/ reason' = "timeout" /\ disconnect_age = SESSION_TIMEOUT
    BY <1>3 DEF CheckTerminate, should_terminate, WTSEnumerateProcesses, Go, Stay, Fail
  <2>3. disconnect_age = SESSION_TIMEOUT => unseen = SESSION_TIMEOUT
    <3>1. /\ SESSION_TIMEOUT \in Nat /\ unseen \in 0 .. SESSION_TIMEOUT
          /\ disconnect_age \in Int
      BY LoopAssumption DEF TypeOK, ShellOK, Never
    <3>2. disconnect_age <= unseen
      BY DEF Excused
    <3>3. QED
      BY <3>1, <3>2
  <2>4. failures' = failures + 1 => failures' > 0
    BY DEF TypeOK, SessionOK
  <2>5. QED
    BY <2>1, <2>2, <2>3, <2>4 DEF EndsForAReason
<1>4. CASE Walk
  <2>1. UNCHANGED procs /\ pc = "walk"
        /\ (pc' = "ended" => reason' = "nothing runs" /\ ~ Occupied(listed) /\ UNCHANGED fresh)
    BY <1>4 DEF Walk, Go, Stay
  <2>2. ASSUME ~ Occupied(listed), NEW pid \in Pids, procs[pid] = "app" PROVE PidReuse \/ pid \in fresh
    BY <2>1, <2>2 DEF Occupied, Listed, Excused
  <2>3. QED
    BY <2>1, <2>2 DEF EndsForAReason
<1>5. CASE Abort
  BY <1>5 DEF Abort, channelVars, EndsForAReason
<1>6. QED
  BY <1>1, <1>2, <1>3, <1>4, <1>5

\* Whatever happens, the shell ends for one of the four reasons.
THEOREM EndIsExcused == Spec => []EndsForAReason
<1>1. Init => Excused /\ Listed /\ EndsForAReason
  BY DEF Init, Excused, Listed, EndsForAReason, Never
<1>2. TypeOK /\ Excused /\ Listed /\ EndsForAReason /\ [Next]_vars
         => Excused' /\ Listed' /\ EndsForAReason'
  BY StepKeepsExcused, StepKeepsListed, StepEndsForAReason
<1>3. QED
  BY <1>1, <1>2, TypeCorrect, PTL DEF Spec

\* If the ids of the processes in its list are not used again, the shell does not
\* end under an application started after it, but for a time-out, a failed query
\* or the assertion that its channel is open - and but for one that was started
\* after the last list of processes was made.
THEOREM NoApplicationIsLeft ==
    ASSUME ~ PidReuse
    PROVE  Spec => []NoEarlyEnd
<1>1. EndsForAReason => NoEarlyEnd
  BY DEF EndsForAReason, NoEarlyEnd
<1>2. QED
  BY <1>1, EndIsExcused, PTL

-----------------------------------------------------------------------------
(* Numbers and sequences.                                                  *)

\* Numbers have a least one.
LEMMA LeastNumber ==
    ASSUME NEW S \in SUBSET Nat, S # {}
    PROVE  \E x \in S : \A y \in S : x <= y
<1>1. PICK x \in S : \A y \in S : ~ (<<y, x>> \in OpToRel(<, Nat))
  BY NatLessThanWellFounded, WFMin
<1>2. \A y \in S : ~ (y < x)
  BY <1>1 DEF OpToRel
<1> QED BY <1>2

\* Induction up to a number, on the set of those for which something holds.
LEMMA UpTo ==
    ASSUME NEW n \in Nat, NEW S, 0 \in S, \A i \in 0 .. n : i \in S /\ i < n => i + 1 \in S
    PROVE  0 .. n \subseteq S
<1>. DEFINE Bad == {i \in 0 .. n : i \notin S}
<1>1. SUFFICES ASSUME Bad # {} PROVE FALSE
  OBVIOUS
<1>2. PICK x \in Bad : \A y \in Bad : x <= y
  <2>1. Bad \in SUBSET Nat
    OBVIOUS
  <2>. HIDE DEF Bad
  <2> QED BY <1>1, <2>1, LeastNumber
<1>3. x \in 0 .. n /\ x \notin S /\ x # 0
  BY <1>2
<1>4. x - 1 \in 0 .. n /\ x - 1 < n /\ (x - 1) + 1 = x /\ ~ x <= x - 1
  BY <1>3
<1>5. x - 1 \in S
  BY <1>2, <1>4
<1> QED BY <1>3, <1>4, <1>5

LEMMA Concatenation ==
    ASSUME NEW S, NEW s \in Seq(S), NEW t \in Seq(S), NEW r, r = s \o t
    PROVE  /\ r \in Seq(S) /\ Len(r) = Len(s) + Len(t)
           /\ \A i \in 1 .. Len(s) : r[i] = s[i]
           /\ \A i \in 1 .. Len(t) : r[Len(s) + i] = t[i]
<1>1. /\ r \in Seq(S) /\ Len(r) = Len(s) + Len(t)
      /\ \A i \in 1 .. Len(s) + Len(t) : r[i] = IF i <= Len(s) THEN s[i] ELSE t[i - Len(s)]
  BY ConcatProperties, Zenon
<1>2. Len(s) \in Nat /\ Len(t) \in Nat
  OBVIOUS
<1>3. \A i \in 1 .. Len(s) : r[i] = s[i]
  BY <1>1, <1>2
<1>4. ASSUME NEW i \in 1 .. Len(t) PROVE r[Len(s) + i] = t[i]
  <2>1. Len(s) + i \in 1 .. Len(s) + Len(t) /\ ~ (Len(s) + i <= Len(s))
        /\ (Len(s) + i) - Len(s) = i
    BY <1>2
  <2> QED BY <2>1, <1>1
<1> QED BY <1>1, <1>3, <1>4

LEMMA Part ==
    ASSUME NEW S, NEW s \in Seq(S), NEW m \in 1 .. Len(s) + 1, NEW n \in m - 1 .. Len(s)
    PROVE  /\ SubSeq(s, m, n) \in Seq(S) /\ Len(SubSeq(s, m, n)) = n - m + 1
           /\ \A i \in 1 .. n - m + 1 : SubSeq(s, m, n)[i] = s[m + i - 1]
BY SubSeqProperties

\* Sequences with the same elements are the same.
LEMMA SameSeq ==
    ASSUME NEW S, NEW s \in Seq(S), NEW t \in Seq(S), Len(s) = Len(t),
           \A i \in 1 .. Len(s) : s[i] = t[i]
    PROVE  s = t
BY SeqEqual

LEMMA Associative ==
    ASSUME NEW S, NEW s \in Seq(S), NEW t \in Seq(S), NEW u \in Seq(S)
    PROVE  (s \o t) \o u = s \o (t \o u)
BY ConcatAssociative

LEMMA EitherWay ==
    ASSUME NEW S, NEW s \in Seq(S), NEW t \in Seq(S), NEW u \in Seq(S),
           NEW m, m = s \o t, NEW n, n = t \o u
    PROVE  m \o u = s \o n
BY Associative

\* The same for strings.
LEMMA StringEitherWay ==
    ASSUME NEW s \in Seq(Symbols), NEW t \in Seq(Symbols), NEW u \in Seq(Symbols),
           NEW m, m = s \o t, NEW n, n = t \o u
    PROVE  n \in Seq(Symbols) /\ m \o u = s \o n
<1>1. n \in Seq(Symbols)
  BY ConcatProperties
<1>2. m \o u = s \o n
  BY EitherWay
<1> QED BY <1>1, <1>2

-----------------------------------------------------------------------------
(***************************************************************************)
(* Recursive functions of the position.  That there is one is shown by     *)
(* induction up to the last position; what it has at a position then       *)
(* follows from the one before.                                            *)
(***************************************************************************)

FlatUpTo(f, s, n) == f = [i \in 1 .. n |-> IF i = 1 THEN s[i] ELSE f[i - 1] \o s[i]]

LEMMA FlatLonger ==
    ASSUME NEW s, NEW n \in Nat, \E f : FlatUpTo(f, s, n)
    PROVE  \E g : FlatUpTo(g, s, n + 1)
<1>1. PICK f : FlatUpTo(f, s, n)
  OBVIOUS
<1>. DEFINE G(i) == IF i = 1 THEN s[i] ELSE f[i - 1] \o s[i]
            g == [i \in 1 .. n + 1 |-> G(i)]
<1>2. \A i \in 1 .. n : f[i] = G(i)
  BY <1>1 DEF FlatUpTo
<1>3. \A i \in 1 .. n + 1 : g[i] = G(i)
  OBVIOUS
<1>4. ASSUME NEW i \in 1 .. n + 1 PROVE G(i) = IF i = 1 THEN s[i] ELSE g[i - 1] \o s[i]
  <2>1. CASE i = 1
    BY <2>1
  <2>2. CASE i # 1
    <3>1. i - 1 \in 1 .. n /\ i - 1 \in 1 .. n + 1
      BY <2>2
    <3>2. g[i - 1] = f[i - 1]
      BY <3>1, <1>2, <1>3
    <3> QED BY <2>2, <3>2
  <2> QED BY <2>1, <2>2
<1>5. FlatUpTo(g, s, n + 1)
  <2>. HIDE DEF G
  <2>1. [i \in 1 .. n + 1 |-> G(i)]
           = [i \in 1 .. n + 1 |-> IF i = 1 THEN s[i] ELSE g[i - 1] \o s[i]]
    <3>. HIDE DEF g
    <3> QED BY <1>4
  <2> QED BY <2>1 DEF FlatUpTo
<1> QED BY <1>5

LEMMA FlatExists ==
    ASSUME NEW s, NEW m \in Nat
    PROVE  \E f : FlatUpTo(f, s, m)
<1>. DEFINE S == {n \in Nat : \E f : FlatUpTo(f, s, n)}
<1>1. 0 \in S
  <2>1. FlatUpTo(<<>>, s, 0)
    BY DEF FlatUpTo
  <2> QED BY <2>1
<1>2. \A n \in 0 .. m : n \in S /\ n < m => n + 1 \in S
  BY FlatLonger
<1>3. 0 .. m \subseteq S
  <2>. HIDE DEF S
  <2> QED BY <1>1, <1>2, UpTo
<1> QED BY <1>3

\* FlattenSeq, element by element.
LEMMA FlattenSeqIs ==
    ASSUME NEW S, NEW s \in Seq(Seq(S))
    PROVE  \E f \in [0 .. Len(s) -> Seq(S)] :
              /\ f[0] = <<>> /\ FlattenSeq(s) = f[Len(s)]
              /\ \A i \in 1 .. Len(s) : f[i] = f[i - 1] \o s[i]
<1>0. Len(s) \in Nat /\ <<>> \in Seq(S) /\ \A i \in 1 .. Len(s) : s[i] \in Seq(S)
  BY EmptySeq, ElementOfSeq
<1>1. CASE Len(s) = 0
  <2>1. FlattenSeq(s) = <<>>
    <3>1. s = <<>>
      BY <1>1, EmptySeq
    <3> QED BY <3>1, <1>1, Zenon DEF FlattenSeq
  <2>. DEFINE f == [i \in 0 .. Len(s) |-> <<>>]
  <2>2. f \in [0 .. Len(s) -> Seq(S)] /\ f[0] = <<>> /\ f[Len(s)] = <<>>
    <3>1. 0 \in 0 .. Len(s) /\ Len(s) \in 0 .. Len(s)
      BY <1>0
    <3>2. \A i \in 0 .. Len(s) : f[i] = <<>>
      OBVIOUS
    <3>3. f \in [0 .. Len(s) -> Seq(S)]
      BY <1>0
    <3>. HIDE DEF f
    <3> QED BY <3>1, <3>2, <3>3
  <2>3. \A i \in 1 .. Len(s) : f[i] = f[i - 1] \o s[i]
    BY <1>1
  <2>. HIDE DEF f
  <2> QED BY <2>1, <2>2, <2>3
<1>2. CASE Len(s) # 0
  <2>1. \E g : FlatUpTo(g, s, Len(s))
    BY <1>0, FlatExists
  <2>2. PICK g : FlatUpTo(g, s, Len(s)) /\ FlattenSeq(s) = g[Len(s)]
    BY <2>1, <1>2, Zenon DEF FlatUpTo, FlattenSeq
  <2>3. \A i \in 1 .. Len(s) : g[i] = IF i = 1 THEN s[i] ELSE g[i - 1] \o s[i]
    BY <2>2 DEF FlatUpTo
  <2>. DEFINE f == [i \in 0 .. Len(s) |-> IF i = 0 THEN <<>> ELSE g[i]]
  <2>4. f[0] = <<>> /\ \A i \in 1 .. Len(s) : f[i] = g[i]
    BY <1>0
  <2>5. ASSUME NEW i \in 1 .. Len(s) PROVE f[i] = f[i - 1] \o s[i]
    <3>1. CASE i = 1
      <4>1. <<>> \o s[1] = s[1]
        BY <1>0, ConcatEmptySeq, <3>1
      <4>2. f[i - 1] = <<>> /\ f[i] = s[1]
        BY <3>1, <2>3, <2>4
      <4> QED BY <3>1, <4>1, <4>2
    <3>2. CASE i # 1
      <4>1. i - 1 \in 1 .. Len(s)
        BY <3>2
      <4> QED BY <3>2, <4>1, <2>3, <2>4
    <3> QED BY <3>1, <3>2
  <2>6. f[Len(s)] = FlattenSeq(s)
    <3>1. Len(s) \in 1 .. Len(s)
      BY <1>0, <1>2
    <3> QED BY <2>2, <2>4, <3>1
  <2>7. f \in [0 .. Len(s) -> Seq(S)]
    <3>. DEFINE T == {i \in 0 .. Len(s) : f[i] \in Seq(S)}
    <3>. HIDE DEF f
    <3>1. 0 \in T
      <4>1. 0 \in 0 .. Len(s) /\ f[0] \in Seq(S)
        BY <1>0, <2>4
      <4> QED BY <4>1
    <3>2. ASSUME NEW i \in 0 .. Len(s), i \in T, i < Len(s) PROVE i + 1 \in T
      <4>1. i + 1 \in 1 .. Len(s) /\ (i + 1) - 1 = i /\ f[i] \in Seq(S)
        BY <1>0, <3>2
      <4>2. f[i + 1] = f[i] \o s[i + 1] /\ s[i + 1] \in Seq(S)
        BY <4>1, <2>5, <1>0
      <4>3. f[i + 1] \in Seq(S)
        BY <4>1, <4>2, ConcatProperties
      <4> QED BY <4>1, <4>3
    <3>3. 0 .. Len(s) \subseteq T
      <4>. HIDE DEF T
      <4> QED BY <1>0, <3>1, <3>2, UpTo
    <3>4. \A i \in 0 .. Len(s) : f[i] \in Seq(S)
      BY <3>3
    <3>5. f = [i \in 0 .. Len(s) |-> f[i]]
      BY DEF f
    <3> QED BY <3>4, <3>5
  <2>. HIDE DEF f
  <2> QED BY <2>4, <2>5, <2>6, <2>7
<1> QED BY <1>1, <1>2

LEMMA FlatNothing == FlattenSeq(<<>>) = <<>>
<1>1. Len(<<>>) = 0
  OBVIOUS
<1> QED BY <1>1, Zenon DEF FlattenSeq

\* A set of sequences that has what it puts together has what is put together
\* of many of them.
LEMMA FlatClosed ==
    ASSUME NEW S, NEW T \in SUBSET Seq(S), <<>> \in T,
           \A a, b \in T : a \o b \in T,
           NEW s \in Seq(T)
    PROVE  FlattenSeq(s) \in T
<1>1. s \in Seq(Seq(S)) /\ Len(s) \in Nat /\ \A i \in 1 .. Len(s) : s[i] \in T
  BY SeqMonotonic, ElementOfSeq
<1>2. PICK f \in [0 .. Len(s) -> Seq(S)] :
              /\ f[0] = <<>> /\ FlattenSeq(s) = f[Len(s)]
              /\ \A i \in 1 .. Len(s) : f[i] = f[i - 1] \o s[i]
  <2>. s \in Seq(Seq(S))
    BY <1>1
  <2> QED BY FlattenSeqIs
<1>. DEFINE R == {i \in 0 .. Len(s) : f[i] \in T}
<1>3. 0 \in R
  BY <1>1, <1>2
<1>4. ASSUME NEW i \in 0 .. Len(s), i \in R, i < Len(s) PROVE i + 1 \in R
  <2>1. i + 1 \in 1 .. Len(s) /\ (i + 1) - 1 = i /\ f[i] \in T
    BY <1>1, <1>4
  <2>2. f[i + 1] = f[i] \o s[i + 1] /\ s[i + 1] \in T
    BY <2>1, <1>1, <1>2
  <2>3. f[i + 1] \in T
    BY <2>1, <2>2
  <2> QED BY <2>1, <2>3
<1>5. 0 .. Len(s) \subseteq R
  <2>. HIDE DEF R
  <2> QED BY <1>1, <1>3, <1>4, UpTo
<1>6. f[Len(s)] \in T
  BY <1>5, <1>1
<1> QED BY <1>2, <1>6

\* One more at the end.
LEMMA FlatAppend ==
    ASSUME NEW S, NEW s \in Seq(Seq(S)), NEW e \in Seq(S), NEW r, r = Append(s, e)
    PROVE  FlattenSeq(r) = FlattenSeq(s) \o e
<1>0. /\ r \in Seq(Seq(S)) /\ Len(r) = Len(s) + 1 /\ Len(s) \in Nat /\ r[Len(s) + 1] = e
      /\ \A i \in 1 .. Len(s) : r[i] = s[i]
  BY AppendProperties
<1>1. PICK f \in [0 .. Len(s) -> Seq(S)] :
              /\ f[0] = <<>> /\ FlattenSeq(s) = f[Len(s)]
              /\ \A i \in 1 .. Len(s) : f[i] = f[i - 1] \o s[i]
  BY FlattenSeqIs
<1>2. PICK g \in [0 .. Len(r) -> Seq(S)] :
              /\ g[0] = <<>> /\ FlattenSeq(r) = g[Len(r)]
              /\ \A i \in 1 .. Len(r) : g[i] = g[i - 1] \o r[i]
  <2>. r \in Seq(Seq(S))
    BY <1>0
  <2> QED BY FlattenSeqIs
<1>. DEFINE R == {i \in 0 .. Len(s) : f[i] = g[i]}
<1>3. 0 \in R
  BY <1>0, <1>1, <1>2
<1>4. ASSUME NEW i \in 0 .. Len(s), i \in R, i < Len(s) PROVE i + 1 \in R
  <2>1. i + 1 \in 1 .. Len(s) /\ i + 1 \in 1 .. Len(r) /\ (i + 1) - 1 = i /\ f[i] = g[i]
    BY <1>0, <1>4
  <2>2. f[i + 1] = g[i + 1]
    BY ZenonT(40), <2>1, <1>0, <1>1, <1>2
  <2> QED BY <2>1, <2>2
<1>5. 0 .. Len(s) \subseteq R
  <2>. HIDE DEF R
  <2> QED BY <1>0, <1>3, <1>4, UpTo
<1>6. f[Len(s)] = g[Len(s)]
  BY <1>5, <1>0
<1>7. Len(s) + 1 \in 1 .. Len(r) /\ (Len(s) + 1) - 1 = Len(s)
  BY <1>0
<1> QED BY <1>0, <1>1, <1>2, <1>6, <1>7

-----------------------------------------------------------------------------
(***************************************************************************)
(* What a client writes: no newline but at the end of a line, and no '%'   *)
(* without two hex digits behind it.                                       *)
(***************************************************************************)

HasDigits(s, i) == i + 2 <= Len(s) /\ <<s[i + 1], s[i + 2]>> \in DOMAIN Hex
Codes ==
    {s \in Seq(Symbols) : \A i \in 1 .. Len(s) : s[i] # NL /\ (s[i] = "%" => HasDigits(s, i))}

LEMMA SecondAndThird ==
    ASSUME NEW S, NEW t \in Seq(S), Len(t) >= 3
    PROVE  SubSeq(t, 2, 3) = <<t[2], t[3]>>
<1>1. PICK u : u = SubSeq(t, 2, 3)
  OBVIOUS
<1>2. /\ u \in Seq(S) /\ Len(u) = 3 - 2 + 1
      /\ \A i \in 1 .. 3 - 2 + 1 : u[i] = t[2 + i - 1]
  <2>1. 2 \in 1 .. Len(t) + 1 /\ 3 \in 2 - 1 .. Len(t)
    OBVIOUS
  <2> QED BY <1>1, <2>1, Part
<1>3. Len(u) = 2 /\ u[1] = t[2] /\ u[2] = t[3]
  BY <1>2
<1>4. PICK v : v = <<t[2], t[3]>>
  OBVIOUS
<1>5. v \in Seq(S) /\ Len(v) = 2 /\ v[1] = t[2] /\ v[2] = t[3]
  BY <1>4
<1>6. \A i \in 1 .. Len(u) : u[i] = v[i]
  <2>1. \A i \in 1 .. Len(u) : i = 1 \/ i = 2
    BY <1>3
  <2> QED BY <2>1, <1>3, <1>5
<1>7. u = v
  BY <1>2, <1>3, <1>5, <1>6, SameSeq
<1> QED BY <1>1, <1>4, <1>7

LEMMA CodesClosed ==
    ASSUME NEW a \in Codes, NEW b \in Codes
    PROVE  a \o b \in Codes
<1>1. PICK r : r = a \o b
  OBVIOUS
<1>2. /\ a \in Seq(Symbols) /\ b \in Seq(Symbols) /\ Len(a) \in Nat /\ Len(b) \in Nat
      /\ \A i \in 1 .. Len(a) : a[i] # NL /\ (a[i] = "%" => HasDigits(a, i))
      /\ \A i \in 1 .. Len(b) : b[i] # NL /\ (b[i] = "%" => HasDigits(b, i))
  BY DEF Codes
<1>3. /\ r \in Seq(Symbols) /\ Len(r) = Len(a) + Len(b)
      /\ \A i \in 1 .. Len(a) : r[i] = a[i]
      /\ \A i \in 1 .. Len(b) : r[Len(a) + i] = b[i]
  BY <1>1, <1>2, Concatenation
<1>4. ASSUME NEW i \in 1 .. Len(r) PROVE r[i] # NL /\ (r[i] = "%" => HasDigits(r, i))
  <2>1. CASE i <= Len(a)
    <3>1. i \in 1 .. Len(a) /\ r[i] = a[i]
      BY <1>2, <1>3, <2>1
    <3>2. ASSUME r[i] = "%" PROVE HasDigits(r, i)
      <4>1. i + 2 <= Len(a) /\ <<a[i + 1], a[i + 2]>> \in DOMAIN Hex
        BY <1>2, <3>1, <3>2 DEF HasDigits
      <4>2. i + 1 \in 1 .. Len(a) /\ i + 2 \in 1 .. Len(a) /\ i + 2 <= Len(r)
        BY <1>2, <1>3, <4>1
      <4>3. r[i + 1] = a[i + 1] /\ r[i + 2] = a[i + 2]
        BY <1>3, <4>2
      <4> QED BY <4>1, <4>2, <4>3 DEF HasDigits
    <3> QED BY <1>2, <3>1, <3>2
  <2>2. CASE ~ i <= Len(a)
    <3>1. PICK j \in 1 .. Len(b) : i = Len(a) + j
      <4>1. i - Len(a) \in 1 .. Len(b) /\ i = Len(a) + (i - Len(a))
        BY <1>2, <1>3, <2>2
      <4> QED BY <4>1
    <3>2. r[i] = b[j]
      BY <1>3, <3>1
    <3>3. ASSUME r[i] = "%" PROVE HasDigits(r, i)
      <4>1. j + 2 <= Len(b) /\ <<b[j + 1], b[j + 2]>> \in DOMAIN Hex
        BY <1>2, <3>1, <3>2, <3>3 DEF HasDigits
      <4>2. /\ j + 1 \in 1 .. Len(b) /\ j + 2 \in 1 .. Len(b) /\ i + 2 <= Len(r)
            /\ i + 1 = Len(a) + (j + 1) /\ i + 2 = Len(a) + (j + 2)
        BY <1>2, <1>3, <3>1, <4>1
      <4>3. r[i + 1] = b[j + 1] /\ r[i + 2] = b[j + 2]
        BY <1>3, <4>2
      <4> QED BY <4>1, <4>2, <4>3 DEF HasDigits
    <3> QED BY <1>2, <3>1, <3>2, <3>3
  <2> QED BY <2>1, <2>2
<1> QED BY <1>1, <1>3, <1>4 DEF Codes

\* A special character is written as '%' and its digits, another one as itself.
LEMMA CodeIs ==
    ASSUME NEW c \in Symbols
    PROVE  \/ c \notin Special /\ Code(c) = <<c>>
           \/ /\ c \in Special
              /\ \E d \in DOMAIN Hex :
                    /\ Code(c) = <<"%", d[1], d[2]>> /\ Hex[d] = c /\ d = <<d[1], d[2]>>
                    /\ d[1] \in Symbols \ Special /\ d[2] \in Symbols \ Special
<1>1. CASE c \notin Special
  BY <1>1 DEF Code
<1>2. CASE c \in Special
  <2>1. PICK d \in DOMAIN Hex : d = (CHOOSE digits \in DOMAIN Hex : Hex[digits] = c)
                                /\ Hex[d] = c
    BY <1>2 DEF Special
  <2>2. d \in Seq(Symbols \ Special) /\ Len(d) = 2
    BY SymbolsAssumption
  <2>3. d = <<d[1], d[2]>>
    BY <2>2
  <2>4. d[1] \in Symbols \ Special /\ d[2] \in Symbols \ Special
    <3>1. PICK A : A = Symbols \ Special
      OBVIOUS
    <3>2. d \in Seq(A) /\ 1 \in 1 .. Len(d) /\ 2 \in 1 .. Len(d)
      BY <2>2, <3>1
    <3>3. d[1] \in A /\ d[2] \in A
      BY <3>2, ElementOfSeq
    <3> QED BY <3>1, <3>3
  <2>5. Code(c) = <<"%">> \o d
    BY <1>2, <2>1 DEF Code
  <2>6. <<"%">> \o <<d[1], d[2]>> = <<"%", d[1], d[2]>>
    <3>1. PICK h : h = "%"
      OBVIOUS
    <3>2. h \in Symbols
      BY SymbolsAssumption, <3>1
    <3>3. PICK r : r = <<h>> \o <<d[1], d[2]>>
      OBVIOUS
    <3>4. <<h>> \in Seq(Symbols) /\ <<d[1], d[2]>> \in Seq(Symbols) /\ <<h, d[1], d[2]>> \in Seq(Symbols)
      BY <3>2, <2>4
    <3>5. /\ r \in Seq(Symbols) /\ Len(r) = Len(<<h>>) + Len(<<d[1], d[2]>>)
          /\ \A i \in 1 .. Len(<<h>>) : r[i] = <<h>>[i]
          /\ \A i \in 1 .. Len(<<d[1], d[2]>>) : r[Len(<<h>>) + i] = <<d[1], d[2]>>[i]
      BY <3>3, <3>4, Concatenation
    <3>6. Len(r) = 3 /\ r[1] = h /\ r[2] = d[1] /\ r[3] = d[2]
      BY <3>5
    <3>7. r = <<h, d[1], d[2]>>
      BY <3>4, <3>5, <3>6
    <3> QED BY <3>1, <3>3, <3>7
  <2> QED BY <1>2, <2>1, <2>3, <2>4, <2>5, <2>6
<1> QED BY <1>1, <1>2

LEMMA CodeIsCode ==
    ASSUME NEW c \in Symbols
    PROVE  Code(c) \in Codes
<1>0. "%" \in Symbols \cap Special /\ NL \in Symbols \cap Special /\ NL # "%"
  BY SymbolsAssumption
<1>1. CASE c \notin Special
  <2>1. Code(c) = <<c>> /\ c # NL /\ c # "%"
    BY <1>0, <1>1, CodeIs
  <2>2. <<c>> \in Seq(Symbols) /\ Len(<<c>>) = 1 /\ <<c>>[1] = c
    OBVIOUS
  <2> QED BY <2>1, <2>2 DEF Codes
<1>2. CASE c \in Special
  <2>1. PICK d \in DOMAIN Hex :
           /\ Code(c) = <<"%", d[1], d[2]>> /\ d = <<d[1], d[2]>>
           /\ d[1] \in Symbols \ Special /\ d[2] \in Symbols \ Special
    BY <1>2, CodeIs
  <2>2. PICK s : s = <<"%", d[1], d[2]>>
    OBVIOUS
  <2>3. s \in Seq(Symbols) /\ Len(s) = 3 /\ s[1] = "%" /\ s[2] = d[1] /\ s[3] = d[2]
    BY <1>0, <2>1, <2>2
  <2>4. HasDigits(s, 1)
    BY <2>1, <2>3 DEF HasDigits
  <2>5. ASSUME NEW i \in 1 .. Len(s) PROVE s[i] # NL /\ (s[i] = "%" => HasDigits(s, i))
    <3>1. i = 1 \/ i = 2 \/ i = 3
      BY <2>3
    <3>2. s[2] # NL /\ s[2] # "%" /\ s[3] # NL /\ s[3] # "%" /\ s[1] # NL
      BY <1>0, <2>1, <2>3
    <3> QED BY <2>4, <3>1, <3>2
  <2> QED BY <2>1, <2>2, <2>3, <2>5 DEF Codes
<1> QED BY <1>1, <1>2

LEMMA CodesAreSeqs ==
    /\ Codes \in SUBSET Seq(Symbols) /\ <<>> \in Codes
    /\ <<",">> \in Codes /\ \A a, b \in Codes : a \o b \in Codes
<1>1. Codes \in SUBSET Seq(Symbols)
  BY DEF Codes
<1>2. <<>> \in Codes
  BY EmptySeq DEF Codes
<1>3. <<",">> \in Codes
  <2>1. PICK c : c = ","
    OBVIOUS
  <2>2. c \in Symbols /\ NL # c /\ c # "%"
    BY <2>1, SymbolsAssumption
  <2>3. PICK s : s = <<c>>
    OBVIOUS
  <2>4. s \in Seq(Symbols) /\ Len(s) = 1 /\ s[1] = c
    BY <2>2, <2>3
  <2>5. \A i \in 1 .. Len(s) : s[i] = c
    BY <2>4
  <2>6. s \in Codes
    BY <2>2, <2>4, <2>5 DEF Codes
  <2> QED BY <2>1, <2>3, <2>6
<1> QED BY <1>1, <1>2, <1>3, CodesClosed

\* A field.
LEMMA EscapeIsCode ==
    ASSUME NEW field \in Seq(Symbols)
    PROVE  /\ [i \in DOMAIN field |-> Code(field[i])] \in Seq(Codes)
           /\ Escape(field) \in Codes
<1>1. PICK s : s = [i \in DOMAIN field |-> Code(field[i])]
  OBVIOUS
<1>2. Len(field) \in Nat /\ DOMAIN field = 1 .. Len(field)
      /\ \A i \in 1 .. Len(field) : field[i] \in Symbols
  BY ElementOfSeq
<1>3. \A i \in 1 .. Len(field) : Code(field[i]) \in Codes
  BY <1>2, CodeIsCode
<1>4. s \in Seq(Codes)
  BY <1>1, <1>2, <1>3, IsASeq
<1>5. FlattenSeq(s) \in Codes
  BY <1>4, CodesAreSeqs, FlatClosed
<1> QED BY <1>1, <1>4, <1>5 DEF Escape

\* A command, and its parts: each field, but the first with a comma before it.
Piece(fields, i) == (IF i = 1 THEN <<>> ELSE <<",">>) \o Escape(fields[i])

LEMMA LineIsCode ==
    ASSUME NEW fields \in Seq(Seq(Symbols))
    PROVE  /\ [i \in DOMAIN fields |-> Piece(fields, i)] \in Seq(Codes)
           /\ Line(fields) = FlattenSeq([i \in DOMAIN fields |-> Piece(fields, i)])
           /\ Line(fields) \in Codes
<1>1. PICK s : s = [i \in DOMAIN fields |-> Piece(fields, i)]
  OBVIOUS
<1>2. Len(fields) \in Nat /\ DOMAIN fields = 1 .. Len(fields)
      /\ \A i \in 1 .. Len(fields) : fields[i] \in Seq(Symbols)
  BY ElementOfSeq
<1>3. ASSUME NEW i \in 1 .. Len(fields) PROVE Piece(fields, i) \in Codes
  <2>1. Escape(fields[i]) \in Codes
    BY <1>2, EscapeIsCode
  <2>2. (IF i = 1 THEN <<>> ELSE <<",">>) \in Codes
    BY CodesAreSeqs
  <2> QED BY <2>1, <2>2, CodesAreSeqs DEF Piece
<1>4. s \in Seq(Codes)
  BY <1>1, <1>2, <1>3, IsASeq
<1>5. FlattenSeq(s) \in Codes
  BY <1>4, CodesAreSeqs, FlatClosed
<1>6. Line(fields) = FlattenSeq(s)
  BY <1>1, Zenon DEF Line, Piece
<1> QED BY <1>1, <1>4, <1>5, <1>6

\* It is never half an escape.
LEMMA CodeNotMalformed ==
    ASSUME NEW s \in Codes
    PROVE  ~ Malformed(s)
<1>1. SUFFICES ASSUME NEW i \in 1 .. Len(s), s[i] = "%"
               PROVE  Escaped(SubSeq(s, i, Len(s)))
  BY DEF Malformed
<1>2. s \in Seq(Symbols) /\ Len(s) \in Nat
      /\ i + 2 <= Len(s) /\ <<s[i + 1], s[i + 2]>> \in DOMAIN Hex
  <2>1. s \in Seq(Symbols) /\ HasDigits(s, i)
    BY <1>1 DEF Codes
  <2> QED BY <2>1 DEF HasDigits
<1>3. PICK t : t = SubSeq(s, i, Len(s))
  OBVIOUS
<1>4. t \in Seq(Symbols) /\ Len(t) = Len(s) - i + 1
      /\ \A j \in 1 .. Len(s) - i + 1 : t[j] = s[i + j - 1]
  <2>1. i \in 1 .. Len(s) + 1 /\ Len(s) \in i - 1 .. Len(s)
    BY <1>2
  <2> QED BY <1>2, <1>3, <2>1, Part
<1>5. Len(t) >= 3 /\ t[1] = s[i] /\ t[2] = s[i + 1] /\ t[3] = s[i + 2]
  BY <1>2, <1>4
<1>6. SubSeq(t, 2, 3) = <<t[2], t[3]>>
  BY <1>4, <1>5, SecondAndThird
<1> QED BY <1>1, <1>2, <1>3, <1>5, <1>6 DEF Escaped

-----------------------------------------------------------------------------
(***************************************************************************)
(* What unescape makes of a string, from its end: it takes characters off  *)
(* its beginning, whatever comes behind them.                              *)
(***************************************************************************)

Ending(str, k) == SubSeq(str, Len(str) - k + 1, Len(str))
NsAt(f, str, k) ==
    IF k = 0 THEN <<>>
    ELSE IF Escaped(Ending(str, k)) THEN <<Hex[SubSeq(Ending(str, k), 2, 3)]>> \o f[k - 3]
    ELSE <<Head(Ending(str, k))>> \o f[k - 1]
NsUpTo(f, str, n) == f = [k \in 0 .. n |-> NsAt(f, str, k)]

LEMMA EndingIs ==
    ASSUME NEW S, NEW str \in Seq(S), NEW k \in 0 .. Len(str)
    PROVE  /\ Ending(str, k) \in Seq(S) /\ Len(Ending(str, k)) = k
           /\ \A i \in 1 .. k : Ending(str, k)[i] = str[Len(str) - k + i]
           /\ Escaped(Ending(str, k)) => k >= 3
           /\ k # 0 => Head(Ending(str, k)) = str[Len(str) - k + 1]
<1>1. PICK t : t = Ending(str, k)
  OBVIOUS
<1>2. Len(str) \in Nat /\ k \in Nat /\ k <= Len(str)
  OBVIOUS
<1>3. /\ t \in Seq(S) /\ Len(t) = Len(str) - (Len(str) - k + 1) + 1
      /\ \A i \in 1 .. Len(str) - (Len(str) - k + 1) + 1 :
            t[i] = str[(Len(str) - k + 1) + i - 1]
  <2>1. PICK m : m = Len(str) - k + 1
    OBVIOUS
  <2>2. m \in 1 .. Len(str) + 1 /\ Len(str) \in m - 1 .. Len(str)
    BY <1>2, <2>1
  <2>3. /\ t \in Seq(S) /\ Len(t) = Len(str) - m + 1
        /\ \A i \in 1 .. Len(str) - m + 1 : t[i] = str[m + i - 1]
    BY <1>1, <2>1, <2>2, Part DEF Ending
  <2> QED BY <2>1, <2>3
<1>4. Len(t) = k /\ \A i \in 1 .. k : t[i] = str[Len(str) - k + i]
  BY <1>2, <1>3
<1>5. Escaped(t) => k >= 3
  BY <1>4 DEF Escaped
<1>6. k # 0 => Head(t) = str[Len(str) - k + 1]
  BY <1>2, <1>3, <1>4
<1> QED BY <1>1, <1>3, <1>4, <1>5, <1>6

LEMMA NsAtNothing == \A f, str : NsAt(f, str, 0) = <<>>
BY DEF NsAt

LEMMA NsLonger ==
    ASSUME NEW S, NEW str \in Seq(S), NEW n \in 0 .. Len(str), n < Len(str),
           \E f : NsUpTo(f, str, n)
    PROVE  \E g : NsUpTo(g, str, n + 1)
<1>1. PICK f : NsUpTo(f, str, n)
  OBVIOUS
<1>. DEFINE G(k) == NsAt(f, str, k)
            g == [k \in 0 .. n + 1 |-> G(k)]
<1>2. \A k \in 0 .. n : f[k] = G(k)
  BY <1>1 DEF NsUpTo
<1>3. \A k \in 0 .. n + 1 : g[k] = G(k)
  OBVIOUS
<1>4. ASSUME NEW k \in 0 .. n + 1 PROVE G(k) = NsAt(g, str, k)
  <2>. HIDE DEF G, g
  <2>1. k \in 0 .. Len(str)
    OBVIOUS
  <2>2. Escaped(Ending(str, k)) => k >= 3
    BY <2>1, EndingIs
  <2>3. Escaped(Ending(str, k)) => g[k - 3] = f[k - 3]
    <3>1. k >= 3 => k - 3 \in 0 .. n /\ k - 3 \in 0 .. n + 1
      OBVIOUS
    <3> QED BY <2>2, <3>1, <1>2, <1>3
  <2>4. k # 0 => g[k - 1] = f[k - 1]
    <3>1. k # 0 => k - 1 \in 0 .. n /\ k - 1 \in 0 .. n + 1
      OBVIOUS
    <3> QED BY <3>1, <1>2, <1>3
  <2> QED BY <2>3, <2>4 DEF NsAt, G
<1>5. NsUpTo(g, str, n + 1)
  <2>. HIDE DEF G
  <2>1. [k \in 0 .. n + 1 |-> G(k)] = [k \in 0 .. n + 1 |-> NsAt(g, str, k)]
    <3>. HIDE DEF g
    <3> QED BY <1>4
  <2> QED BY <2>1 DEF NsUpTo
<1> QED BY <1>5

LEMMA NsExists ==
    ASSUME NEW S, NEW str \in Seq(S)
    PROVE  \E f : NsUpTo(f, str, Len(str))
<1>. DEFINE R == {n \in Nat : \E f : NsUpTo(f, str, n)}
<1>0. Len(str) \in Nat
  OBVIOUS
<1>1. 0 \in R
  <2>. DEFINE f == [k \in 0 .. 0 |-> <<>>]
  <2>1. [k \in 0 .. 0 |-> <<>>] = [k \in 0 .. 0 |-> NsAt(f, str, k)]
    <3>. HIDE DEF f
    <3>1. \A k \in 0 .. 0 : NsAt(f, str, k) = <<>>
      BY DEF NsAt
    <3> QED BY <3>1
  <2>2. NsUpTo(f, str, 0)
    BY <2>1 DEF NsUpTo
  <2> QED BY <2>2
<1>2. \A n \in 0 .. Len(str) : n \in R /\ n < Len(str) => n + 1 \in R
  BY <1>0, NsLonger
<1>3. 0 .. Len(str) \subseteq R
  <2>. HIDE DEF R
  <2> QED BY <1>0, <1>1, <1>2, UpTo
<1> QED BY <1>0, <1>3

LEMMA UnescapeIs ==
    ASSUME NEW S, NEW str \in Seq(S)
    PROVE  \E f : /\ \A k \in 0 .. Len(str) : f[k] = NsAt(f, str, k)
                  /\ unescape(str) = f[Len(str)]
<1>1. \E f : NsUpTo(f, str, Len(str))
  BY NsExists
<1>2. PICK f : NsUpTo(f, str, Len(str)) /\ unescape(str) = f[Len(str)]
  BY <1>1, Zenon DEF unescape, NsUpTo, NsAt, Ending
<1> QED BY <1>2 DEF NsUpTo

\* It has characters again.
LEMMA UnescapeType ==
    ASSUME NEW str \in Seq(Symbols)
    PROVE  unescape(str) \in Seq(Symbols)
<1>0. Len(str) \in Nat
  OBVIOUS
<1>1. PICK f : /\ \A k \in 0 .. Len(str) : f[k] = NsAt(f, str, k)
               /\ unescape(str) = f[Len(str)]
  BY UnescapeIs
<1>. DEFINE R == {k \in 0 .. Len(str) : \A j \in 0 .. k : f[j] \in Seq(Symbols)}
<1>2. 0 \in R
  <2>1. 0 \in 0 .. Len(str) /\ f[0] = <<>>
    BY <1>0, <1>1, NsAtNothing
  <2>2. \A j \in 0 .. 0 : j = 0
    OBVIOUS
  <2>3. \A j \in 0 .. 0 : f[j] \in Seq(Symbols)
    BY <2>1, <2>2, EmptySeq
  <2> QED BY <2>1, <2>3
<1>3. ASSUME NEW n \in 0 .. Len(str), n \in R, n < Len(str) PROVE n + 1 \in R
  <2>1. PICK k : k = n + 1
    OBVIOUS
  <2>2. k \in 1 .. Len(str) /\ \A j \in 0 .. k - 1 : f[j] \in Seq(Symbols)
    BY <1>0, <1>3, <2>1
  <2>3. PICK e : e = Ending(str, k)
    OBVIOUS
  <2>4. /\ e \in Seq(Symbols) /\ Len(e) = k /\ (Escaped(e) => k >= 3)
    BY <2>2, <2>3, EndingIs
  <2>5. f[k] = IF Escaped(e) THEN <<Hex[SubSeq(e, 2, 3)]>> \o f[k - 3]
               ELSE <<Head(e)>> \o f[k - 1]
    BY <1>1, <2>2, <2>3 DEF NsAt
  <2>6. ASSUME Escaped(e) PROVE f[k] \in Seq(Symbols)
    <3>1. Hex[SubSeq(e, 2, 3)] \in Symbols
      BY <2>6, SymbolsAssumption DEF Escaped, Special
    <3>2. k - 3 \in 0 .. k - 1
      BY <2>2, <2>4, <2>6
    <3>3. <<Hex[SubSeq(e, 2, 3)]>> \in Seq(Symbols) /\ f[k - 3] \in Seq(Symbols)
      BY <2>2, <3>1, <3>2
    <3> QED BY <2>5, <2>6, <3>3, ConcatProperties
  <2>7. ASSUME ~ Escaped(e) PROVE f[k] \in Seq(Symbols)
    <3>1. Head(e) \in Symbols
      BY <2>2, <2>4
    <3>2. <<Head(e)>> \in Seq(Symbols) /\ f[k - 1] \in Seq(Symbols)
      BY <2>2, <3>1
    <3> QED BY <2>5, <2>7, <3>2, ConcatProperties
  <2>8. f[k] \in Seq(Symbols)
    BY <2>6, <2>7
  <2>9. \A j \in 0 .. k : j \in 0 .. k - 1 \/ j = k
    BY <2>2
  <2> QED BY <2>1, <2>2, <2>8, <2>9
<1>4. 0 .. Len(str) \subseteq R
  <2>. HIDE DEF R
  <2> QED BY <1>0, <1>2, <1>3, UpTo
<1>5. f[Len(str)] \in Seq(Symbols)
  BY <1>0, <1>4
<1> QED BY <1>1, <1>5

\* What it makes of the end of a string is what it makes of this alone.
LEMMA NsOfEnd ==
    ASSUME NEW p \in Seq(Symbols), NEW r \in Seq(Symbols), NEW str, str = p \o r,
           NEW f, \A k \in 0 .. Len(str) : f[k] = NsAt(f, str, k)
    PROVE  f[Len(r)] = unescape(r)
<1>0. /\ str \in Seq(Symbols) /\ Len(str) = Len(p) + Len(r) /\ Len(p) \in Nat /\ Len(r) \in Nat
      /\ \A i \in 1 .. Len(r) : str[Len(p) + i] = r[i]
  BY Concatenation
<1>1. PICK g : (\A k \in 0 .. Len(r) : g[k] = NsAt(g, r, k)) /\ unescape(r) = g[Len(r)]
  BY UnescapeIs
<1>2. ASSUME NEW k \in 0 .. Len(r) PROVE Ending(str, k) = Ending(r, k)
  <2>1. PICK s, t : s = Ending(str, k) /\ t = Ending(r, k)
    OBVIOUS
  <2>2. k \in 0 .. Len(str)
    BY <1>0
  <2>3. /\ s \in Seq(Symbols) /\ Len(s) = k
        /\ \A i \in 1 .. k : s[i] = str[Len(str) - k + i]
    BY <1>0, <2>1, <2>2, EndingIs
  <2>4. /\ t \in Seq(Symbols) /\ Len(t) = k
        /\ \A i \in 1 .. k : t[i] = r[Len(r) - k + i]
    BY <1>0, <2>1, EndingIs
  <2>5. ASSUME NEW i \in 1 .. k PROVE s[i] = t[i]
    <3>1. Len(r) - k + i \in 1 .. Len(r)
          /\ Len(str) - k + i = Len(p) + (Len(r) - k + i)
      BY <1>0
    <3> QED BY <1>0, <2>3, <2>4, <3>1
  <2>6. s = t
    BY <2>3, <2>4, <2>5, SameSeq
  <2> QED BY <2>1, <2>6
<1>. DEFINE R == {k \in 0 .. Len(r) : \A j \in 0 .. k : f[j] = g[j]}
<1>3. 0 \in R
  <2>1. 0 \in 0 .. Len(r) /\ f[0] = <<>> /\ g[0] = <<>>
    <3>1. 0 \in 0 .. Len(r) /\ 0 \in 0 .. Len(str)
      BY <1>0
    <3> QED BY <3>1, <1>1, NsAtNothing
  <2>2. \A j \in 0 .. 0 : f[j] = g[j]
    BY <2>1
  <2> QED BY <1>0, <2>2
<1>4. ASSUME NEW n \in 0 .. Len(r), n \in R, n < Len(r) PROVE n + 1 \in R
  <2>1. PICK k : k = n + 1
    OBVIOUS
  <2>2. k \in 1 .. Len(r) /\ k \in 0 .. Len(str) /\ \A j \in 0 .. k - 1 : f[j] = g[j]
    BY <1>0, <1>4, <2>1
  <2>3. PICK e : e = Ending(r, k)
    OBVIOUS
  <2>4. Ending(str, k) = e /\ (Escaped(e) => k >= 3)
    BY <1>2, <2>2, <2>3, EndingIs
  <2>5. f[k] = IF Escaped(e) THEN <<Hex[SubSeq(e, 2, 3)]>> \o f[k - 3]
               ELSE <<Head(e)>> \o f[k - 1]
    BY <2>2, <2>4 DEF NsAt
  <2>6. g[k] = IF Escaped(e) THEN <<Hex[SubSeq(e, 2, 3)]>> \o g[k - 3]
               ELSE <<Head(e)>> \o g[k - 1]
    BY <1>1, <2>2, <2>3 DEF NsAt
  <2>7. (Escaped(e) => f[k - 3] = g[k - 3]) /\ f[k - 1] = g[k - 1]
    BY <2>2, <2>4
  <2>8. f[k] = g[k]
    BY <2>5, <2>6, <2>7
  <2> QED BY <2>1, <2>2, <2>8
<1>5. 0 .. Len(r) \subseteq R
  <2>. HIDE DEF R
  <2> QED BY <1>0, <1>3, <1>4, UpTo
<1>6. f[Len(r)] = g[Len(r)]
  BY <1>0, <1>5
<1> QED BY <1>1, <1>6

LEMMA UnescapeNothing == unescape(<<>>) = <<>>
<1>1. PICK str : str = <<>>
  OBVIOUS
<1>2. str \in Seq(Symbols) /\ Len(str) = 0
  BY <1>1, EmptySeq
<1>3. PICK f : /\ \A k \in 0 .. Len(str) : f[k] = NsAt(f, str, k)
               /\ unescape(str) = f[Len(str)]
  BY <1>2, UnescapeIs
<1>4. f[0] = <<>>
  BY <1>2, <1>3 DEF NsAt
<1> QED BY <1>1, <1>2, <1>3, <1>4

\* What the client writes for a character, read before anything else.
LEMMA UnescapeOther ==
    ASSUME NEW c \in Symbols, c # "%", NEW r \in Seq(Symbols), NEW str, str = <<c>> \o r
    PROVE  unescape(str) = <<c>> \o unescape(r)
<1>1. PICK p : p = <<c>>
  OBVIOUS
<1>2. p \in Seq(Symbols) /\ Len(p) = 1 /\ p[1] = c
  BY <1>1
<1>3. /\ str \in Seq(Symbols) /\ Len(str) = 1 + Len(r) /\ str[1] = c
      /\ Len(r) \in Nat /\ str = p \o r
  BY <1>1, <1>2, Concatenation
<1>4. PICK f : /\ \A k \in 0 .. Len(str) : f[k] = NsAt(f, str, k)
               /\ unescape(str) = f[Len(str)]
  BY <1>3, UnescapeIs
<1>5. PICK k, e : k = Len(str) /\ e = Ending(str, k)
  OBVIOUS
<1>6. k \in 0 .. Len(str) /\ k # 0 /\ k - 1 = Len(r) /\ Len(str) - k + 1 = 1 /\ 1 \in 1 .. k
  BY <1>3, <1>5
<1>7. Head(e) = str[Len(str) - k + 1] /\ e[1] = str[Len(str) - k + 1]
  BY <1>3, <1>5, <1>6, EndingIs
<1>8. ~ Escaped(e) /\ Head(e) = c
  BY <1>3, <1>6, <1>7 DEF Escaped
<1>9. f[k] = <<c>> \o f[k - 1]
  BY <1>4, <1>5, <1>6, <1>8 DEF NsAt
<1>10. f[Len(r)] = unescape(r)
  <2>1. p \in Seq(Symbols) /\ r \in Seq(Symbols) /\ str = p \o r
    BY <1>2, <1>3
  <2>2. \A n \in 0 .. Len(str) : f[n] = NsAt(f, str, n)
    BY <1>4
  <2> QED BY <2>1, <2>2, NsOfEnd, Zenon
<1> QED BY <1>4, <1>5, <1>6, <1>9, <1>10

\* What is read as b, whatever comes behind.
Reads(a, b) ==
    /\ a \in Seq(Symbols) /\ b \in Seq(Symbols)
    /\ \A t \in Seq(Symbols) : unescape(a \o t) = b \o unescape(t)

\* p is '%', x, y, which stands for c.
IsEscape(p, x, y, c) ==
    /\ p \in Seq(Symbols) /\ Len(p) = 3 /\ p[1] = "%" /\ p[2] = x /\ p[3] = y
    /\ <<x, y>> \in DOMAIN Hex /\ Hex[<<x, y>>] = c

LEMMA UnescapeEscaped ==
    ASSUME NEW x \in Symbols, NEW y \in Symbols, NEW p, NEW c, IsEscape(p, x, y, c),
           c \in Symbols
    PROVE  Reads(p, <<c>>)
<1>b. PICK b : b = <<c>>
  OBVIOUS
<1>c. SUFFICES ASSUME NEW r \in Seq(Symbols) PROVE unescape(p \o r) = b \o unescape(r)
  <2>1. p \in Seq(Symbols) /\ b \in Seq(Symbols)
    BY <1>b DEF IsEscape
  <2>2. CASE Reads(p, b)
    BY <1>b, <2>2
  <2> QED BY <2>1, <2>2 DEF Reads
<1>0. PICK h : h = "%"
  OBVIOUS
<1>a. PICK str : str = p \o r
  OBVIOUS
<1>1. <<x, y>> \in DOMAIN Hex /\ Hex[<<x, y>>] = c
  BY DEF IsEscape
<1>2. p \in Seq(Symbols) /\ Len(p) = 3 /\ p[1] = h /\ p[2] = x /\ p[3] = y
  BY <1>0 DEF IsEscape
<1>3. /\ str \in Seq(Symbols) /\ Len(str) = 3 + Len(r) /\ Len(r) \in Nat /\ str = p \o r
      /\ \A i \in 1 .. 3 : str[i] = p[i]
  <2>1. p \in Seq(Symbols)
    BY <1>2
  <2>2. /\ str \in Seq(Symbols) /\ Len(str) = Len(p) + Len(r)
        /\ \A i \in 1 .. Len(p) : str[i] = p[i]
    BY <1>a, <2>1, Concatenation
  <2> QED BY <1>a, <1>2, <2>2
<1>4. PICK f : /\ \A k \in 0 .. Len(str) : f[k] = NsAt(f, str, k)
               /\ unescape(str) = f[Len(str)]
  BY <1>3, UnescapeIs
<1>5. PICK k, e : k = Len(str) /\ e = Ending(str, k)
  OBVIOUS
<1>6. k \in 0 .. Len(str) /\ k # 0 /\ k - 3 = Len(r) /\ k >= 3
  BY <1>3, <1>5
<1>7. /\ e \in Seq(Symbols) /\ Len(e) = k
      /\ \A i \in 1 .. k : e[i] = str[Len(str) - k + i]
  <2>1. str \in Seq(Symbols) /\ k \in 0 .. Len(str)
    BY <1>3, <1>6
  <2>2. e = Ending(str, k)
    BY <1>5
  <2> QED BY <2>1, <2>2, EndingIs
<1>8. e[1] = h /\ e[2] = x /\ e[3] = y
  <2>1. 1 \in 1 .. k /\ 2 \in 1 .. k /\ 3 \in 1 .. k
    BY <1>6
  <2>2. \A i \in 1 .. k : e[i] = str[i]
    <3>1. k = Len(str) /\ k \in Nat
      BY <1>3, <1>5
    <3>2. \A i \in 1 .. k : Len(str) - k + i = i
      BY <3>1
    <3> QED BY <3>2, <1>7
  <2>3. e[1] = str[1] /\ e[2] = str[2] /\ e[3] = str[3]
    BY <2>1, <2>2
  <2>4. str[1] = p[1] /\ str[2] = p[2] /\ str[3] = p[3]
    BY <1>3
  <2> QED BY <1>2, <2>3, <2>4
<1>9. SubSeq(e, 2, 3) = <<x, y>>
  BY <1>6, <1>7, <1>8, SecondAndThird
<1>10. Escaped(e)
  BY <1>0, <1>1, <1>6, <1>7, <1>8, <1>9 DEF Escaped
<1>11. f[k] = b \o f[k - 3]
  BY <1>b, <1>1, <1>4, <1>5, <1>6, <1>9, <1>10 DEF NsAt
<1>12. f[Len(r)] = unescape(r)
  <2>1. p \in Seq(Symbols) /\ r \in Seq(Symbols) /\ str = p \o r
    BY <1>a, <1>2, <1>3
  <2>2. \A n \in 0 .. Len(str) : f[n] = NsAt(f, str, n)
    BY <1>4
  <2> QED BY <2>1, <2>2, NsOfEnd, Zenon
<1> QED BY <1>a, <1>4, <1>5, <1>6, <1>11, <1>12

-----------------------------------------------------------------------------
(* Induction over sequences, on the set of those for which something holds. *)

LEMMA FrontAndLast ==
    ASSUME NEW C, NEW s \in Seq(C), s # <<>>
    PROVE  \E t \in Seq(C), c \in C : s = Append(t, c) /\ Len(t) = Len(s) - 1
<1>1. Len(s) \in Nat /\ Len(s) # 0 /\ s[Len(s)] \in C
  BY EmptySeq, ElementOfSeq
<1>2. PICK t : t = SubSeq(s, 1, Len(s) - 1)
  OBVIOUS
<1>3. 1 \in 1 .. Len(s) + 1 /\ Len(s) - 1 \in 1 - 1 .. Len(s)
  BY <1>1
<1>4. t \in Seq(C) /\ Len(t) = Len(s) - 1 /\ \A i \in 1 .. Len(s) - 1 : t[i] = s[i]
  <2>1. /\ t \in Seq(C) /\ Len(t) = (Len(s) - 1) - 1 + 1
        /\ \A i \in 1 .. (Len(s) - 1) - 1 + 1 : t[i] = s[1 + i - 1]
    BY <1>2, <1>3, Part
  <2>2. (Len(s) - 1) - 1 + 1 = Len(s) - 1 /\ \A i \in 1 .. Len(s) - 1 : 1 + i - 1 = i
    BY <1>1
  <2> QED BY <2>1, <2>2
<1>5. PICK r : r = Append(t, s[Len(s)])
  OBVIOUS
<1>6. r \in Seq(C) /\ Len(r) = Len(s) /\ \A i \in 1 .. Len(s) : r[i] = s[i]
  <2>1. /\ r \in Seq(C) /\ Len(r) = Len(t) + 1 /\ r[Len(t) + 1] = s[Len(s)]
        /\ \A i \in 1 .. Len(t) : r[i] = t[i]
    BY <1>1, <1>4, <1>5, AppendProperties
  <2> QED BY <1>1, <1>4, <2>1
<1>7. r = s
  BY <1>6, SameSeq
<1> QED BY <1>1, <1>4, <1>5, <1>7

LEMMA SequencesUpTo ==
    ASSUME NEW C, NEW T, <<>> \in T,
           \A s \in Seq(C), c \in C : s \in T => Append(s, c) \in T
    PROVE  Seq(C) \subseteq T
<1>. SUFFICES ASSUME NEW s \in Seq(C) PROVE s \in T
  OBVIOUS
<1>0. Len(s) \in Nat
  OBVIOUS
<1>. DEFINE R == {n \in Nat : \A t \in Seq(C) : Len(t) = n => t \in T}
<1>1. 0 \in R
  BY EmptySeq
<1>2. ASSUME NEW n \in 0 .. Len(s), n \in R, n < Len(s) PROVE n + 1 \in R
  <2>1. ASSUME NEW t \in Seq(C), Len(t) = n + 1 PROVE t \in T
    <3>1. t # <<>> /\ n \in Nat
      BY <2>1
    <3>2. PICK u \in Seq(C), c \in C : t = Append(u, c) /\ Len(u) = Len(t) - 1
      BY <3>1, FrontAndLast
    <3>3. Len(u) = n
      BY <2>1, <3>1, <3>2
    <3>4. u \in T
      BY <1>2, <3>3
    <3> QED BY <3>2, <3>4
  <2> QED BY <2>1
<1>3. 0 .. Len(s) \subseteq R
  <2>. HIDE DEF R
  <2> QED BY <1>0, <1>1, <1>2, UpTo
<1>4. Len(s) \in R
  <2>. HIDE DEF R
  <2> QED BY <1>0, <1>3
<1> QED BY <1>4

-----------------------------------------------------------------------------
(* What a reader knows of a stream, character by character.                *)

ScanUpTo(f, k, s, n) == f = [i \in 0 .. n |-> IF i = 0 THEN k ELSE Feed(f[i - 1], s[i])]

LEMMA ScanLonger ==
    ASSUME NEW k, NEW s, NEW n \in Nat, \E f : ScanUpTo(f, k, s, n)
    PROVE  \E g : ScanUpTo(g, k, s, n + 1)
<1>1. PICK f : ScanUpTo(f, k, s, n)
  OBVIOUS
<1>. DEFINE G(i) == IF i = 0 THEN k ELSE Feed(f[i - 1], s[i])
            g == [i \in 0 .. n + 1 |-> G(i)]
<1>2. \A i \in 0 .. n : f[i] = G(i)
  BY <1>1 DEF ScanUpTo
<1>3. \A i \in 0 .. n + 1 : g[i] = G(i)
  OBVIOUS
<1>4. ASSUME NEW i \in 0 .. n + 1
      PROVE  G(i) = IF i = 0 THEN k ELSE Feed(g[i - 1], s[i])
  <2>1. CASE i = 0
    BY <2>1
  <2>2. CASE i # 0
    <3>1. i - 1 \in 0 .. n /\ i - 1 \in 0 .. n + 1
      BY <2>2
    <3>2. g[i - 1] = f[i - 1]
      BY <3>1, <1>2, <1>3
    <3> QED BY <2>2, <3>2
  <2> QED BY <2>1, <2>2
<1>5. ScanUpTo(g, k, s, n + 1)
  <2>. HIDE DEF G
  <2>1. [i \in 0 .. n + 1 |-> G(i)]
           = [i \in 0 .. n + 1 |-> IF i = 0 THEN k ELSE Feed(g[i - 1], s[i])]
    <3>. HIDE DEF g
    <3> QED BY <1>4
  <2> QED BY <2>1 DEF ScanUpTo
<1> QED BY <1>5

LEMMA ScanExists ==
    ASSUME NEW k, NEW s, NEW m \in Nat
    PROVE  \E f : ScanUpTo(f, k, s, m)
<1>. DEFINE R == {n \in Nat : \E f : ScanUpTo(f, k, s, n)}
<1>1. 0 \in R
  <2>. DEFINE f == [i \in 0 .. 0 |-> k]
  <2>1. [i \in 0 .. 0 |-> k]
           = [i \in 0 .. 0 |-> IF i = 0 THEN k ELSE Feed(f[i - 1], s[i])]
    <3>. HIDE DEF f
    <3>1. \A i \in 0 .. 0 : i = 0
      OBVIOUS
    <3> QED BY <3>1
  <2>2. ScanUpTo(f, k, s, 0)
    BY <2>1 DEF ScanUpTo
  <2> QED BY <2>2
<1>2. \A n \in 0 .. m : n \in R /\ n < m => n + 1 \in R
  BY ScanLonger
<1>3. 0 .. m \subseteq R
  <2>. HIDE DEF R
  <2> QED BY <1>1, <1>2, UpTo
<1> QED BY <1>3

ScanTrail(f, k, s) ==
    /\ f[0] = k /\ Scan(k, s) = f[Len(s)]
    /\ \A i \in 1 .. Len(s) : f[i] = Feed(f[i - 1], s[i])

LEMMA ScanIs ==
    ASSUME NEW k, NEW s, Len(s) \in Nat
    PROVE  \E f : ScanTrail(f, k, s)
<1>1. \E f : ScanUpTo(f, k, s, Len(s))
  BY ScanExists
<1>2. PICK f : ScanUpTo(f, k, s, Len(s)) /\ Scan(k, s) = f[Len(s)]
  BY <1>1, Zenon DEF Scan, ScanUpTo
<1>3. \A i \in 0 .. Len(s) : f[i] = IF i = 0 THEN k ELSE Feed(f[i - 1], s[i])
  BY <1>2 DEF ScanUpTo
<1>4. 0 \in 0 .. Len(s) /\ \A i \in 1 .. Len(s) : i \in 0 .. Len(s) /\ i # 0
  OBVIOUS
<1>5. f[0] = k /\ \A i \in 1 .. Len(s) : f[i] = Feed(f[i - 1], s[i])
  BY <1>3, <1>4
<1>6. ScanTrail(f, k, s)
  BY <1>2, <1>5 DEF ScanTrail
<1> QED BY <1>6

\* Nothing, and one more at the end.
LEMMA ScanNothing ==
    ASSUME NEW k, NEW s, Len(s) = 0
    PROVE  Scan(k, s) = k
<1>1. Len(s) \in Nat
  OBVIOUS
<1>2. PICK f : ScanTrail(f, k, s)
  BY <1>1, ScanIs
<1> QED BY <1>2 DEF ScanTrail

LEMMA ScanMore ==
    ASSUME NEW k, NEW s \in Seq(Symbols), NEW c \in Symbols, NEW r, r = Append(s, c)
    PROVE  Scan(k, r) = Feed(Scan(k, s), c)
<1>0. /\ Len(s) \in Nat /\ Len(r) \in Nat /\ Len(r) = Len(s) + 1 /\ r[Len(s) + 1] = c
      /\ \A i \in 1 .. Len(s) : r[i] = s[i]
  BY AppendProperties
<1>1. PICK f : ScanTrail(f, k, s)
  BY <1>0, ScanIs
<1>2. Len(r) \in Nat
  BY <1>0
<1>3. PICK g : ScanTrail(g, k, r)
  BY <1>2, ScanIs
<1>. DEFINE R == {i \in 0 .. Len(s) : f[i] = g[i]}
<1>4. 0 \in R
  BY <1>0, <1>1, <1>3 DEF ScanTrail
<1>5. ASSUME NEW i \in 0 .. Len(s), i \in R, i < Len(s) PROVE i + 1 \in R
  <2>1. /\ i + 1 \in 1 .. Len(s) /\ i + 1 \in 1 .. Len(r) /\ (i + 1) - 1 = i
        /\ f[i] = g[i] /\ i + 1 \in 0 .. Len(s)
    BY <1>0, <1>5
  <2>2. f[i + 1] = g[i + 1]
    BY <2>1, <1>0, <1>1, <1>3 DEF ScanTrail
  <2> QED BY <2>1, <2>2
<1>6. 0 .. Len(s) \subseteq R
  <2>. HIDE DEF R
  <2> QED BY <1>0, <1>4, <1>5, UpTo
<1>7. f[Len(s)] = g[Len(s)]
  BY <1>6, <1>0
<1>8. Len(s) + 1 \in 1 .. Len(r) /\ (Len(s) + 1) - 1 = Len(s)
  BY <1>0
<1> QED BY <1>0, <1>1, <1>3, <1>7, <1>8 DEF ScanTrail

-----------------------------------------------------------------------------
(* The tokens of a string, character by character.                         *)

SplitUpTo(f, s, n) == f = [i \in 0 .. n |-> IF i = 0 THEN << <<>> >> ELSE Extend(f[i - 1], s[i])]

LEMMA SplitLonger ==
    ASSUME NEW s, NEW n \in Nat, \E f : SplitUpTo(f, s, n)
    PROVE  \E g : SplitUpTo(g, s, n + 1)
<1>1. PICK f : SplitUpTo(f, s, n)
  OBVIOUS
<1>. DEFINE G(i) == IF i = 0 THEN << <<>> >> ELSE Extend(f[i - 1], s[i])
            g == [i \in 0 .. n + 1 |-> G(i)]
<1>2. \A i \in 0 .. n : f[i] = G(i)
  BY <1>1 DEF SplitUpTo
<1>3. \A i \in 0 .. n + 1 : g[i] = G(i)
  OBVIOUS
<1>4. ASSUME NEW i \in 0 .. n + 1
      PROVE  G(i) = IF i = 0 THEN << <<>> >> ELSE Extend(g[i - 1], s[i])
  <2>1. CASE i = 0
    BY <2>1
  <2>2. CASE i # 0
    <3>1. i - 1 \in 0 .. n /\ i - 1 \in 0 .. n + 1
      BY <2>2
    <3>2. g[i - 1] = f[i - 1]
      BY <3>1, <1>2, <1>3
    <3> QED BY <2>2, <3>2
  <2> QED BY <2>1, <2>2
<1>5. SplitUpTo(g, s, n + 1)
  <2>. HIDE DEF G
  <2>1. [i \in 0 .. n + 1 |-> G(i)]
           = [i \in 0 .. n + 1 |-> IF i = 0 THEN << <<>> >> ELSE Extend(g[i - 1], s[i])]
    <3>. HIDE DEF g
    <3> QED BY <1>4
  <2> QED BY <2>1 DEF SplitUpTo
<1> QED BY <1>5

LEMMA SplitExists ==
    ASSUME NEW s, NEW m \in Nat
    PROVE  \E f : SplitUpTo(f, s, m)
<1>. DEFINE R == {n \in Nat : \E f : SplitUpTo(f, s, n)}
<1>1. 0 \in R
  <2>. DEFINE f == [i \in 0 .. 0 |-> << <<>> >>]
  <2>1. [i \in 0 .. 0 |-> << <<>> >>]
           = [i \in 0 .. 0 |-> IF i = 0 THEN << <<>> >> ELSE Extend(f[i - 1], s[i])]
    <3>. HIDE DEF f
    <3>1. \A i \in 0 .. 0 : i = 0
      OBVIOUS
    <3> QED BY <3>1
  <2>2. SplitUpTo(f, s, 0)
    BY <2>1 DEF SplitUpTo
  <2> QED BY <2>2
<1>2. \A n \in 0 .. m : n \in R /\ n < m => n + 1 \in R
  BY SplitLonger
<1>3. 0 .. m \subseteq R
  <2>. HIDE DEF R
  <2> QED BY <1>1, <1>2, UpTo
<1> QED BY <1>3

SplitTrail(f, s) ==
    /\ f[0] = << <<>> >> /\ Tokens(s) = f[Len(s)]
    /\ \A i \in 1 .. Len(s) : f[i] = Extend(f[i - 1], s[i])

LEMMA SplitIs ==
    ASSUME NEW s, Len(s) \in Nat
    PROVE  \E f : SplitTrail(f, s)
<1>1. \E f : SplitUpTo(f, s, Len(s))
  BY SplitExists
<1>2. PICK f : SplitUpTo(f, s, Len(s)) /\ Tokens(s) = f[Len(s)]
  BY <1>1, Zenon DEF Tokens, SplitUpTo
<1>3. \A i \in 0 .. Len(s) : f[i] = IF i = 0 THEN << <<>> >> ELSE Extend(f[i - 1], s[i])
  BY <1>2 DEF SplitUpTo
<1>4. 0 \in 0 .. Len(s) /\ \A i \in 1 .. Len(s) : i \in 0 .. Len(s) /\ i # 0
  OBVIOUS
<1>5. f[0] = << <<>> >> /\ \A i \in 1 .. Len(s) : f[i] = Extend(f[i - 1], s[i])
  BY <1>3, <1>4
<1>6. SplitTrail(f, s)
  BY <1>2, <1>5 DEF SplitTrail
<1> QED BY <1>6

\* Nothing, and one more at the end.
LEMMA SplitNothing ==
    ASSUME NEW s, Len(s) = 0
    PROVE  Tokens(s) = << <<>> >>
<1>1. Len(s) \in Nat
  OBVIOUS
<1>2. PICK f : SplitTrail(f, s)
  BY <1>1, SplitIs
<1> QED BY <1>2 DEF SplitTrail

LEMMA SplitMore ==
    ASSUME NEW s \in Seq(Symbols), NEW c \in Symbols, NEW r, r = Append(s, c)
    PROVE  Tokens(r) = Extend(Tokens(s), c)
<1>0. /\ Len(s) \in Nat /\ Len(r) \in Nat /\ Len(r) = Len(s) + 1 /\ r[Len(s) + 1] = c
      /\ \A i \in 1 .. Len(s) : r[i] = s[i]
  BY AppendProperties
<1>1. PICK f : SplitTrail(f, s)
  BY <1>0, SplitIs
<1>2. Len(r) \in Nat
  BY <1>0
<1>3. PICK g : SplitTrail(g, r)
  BY <1>2, SplitIs
<1>. DEFINE R == {i \in 0 .. Len(s) : f[i] = g[i]}
<1>4. 0 \in R
  BY <1>0, <1>1, <1>3 DEF SplitTrail
<1>5. ASSUME NEW i \in 0 .. Len(s), i \in R, i < Len(s) PROVE i + 1 \in R
  <2>1. /\ i + 1 \in 1 .. Len(s) /\ i + 1 \in 1 .. Len(r) /\ (i + 1) - 1 = i
        /\ f[i] = g[i] /\ i + 1 \in 0 .. Len(s)
    BY <1>0, <1>5
  <2>2. f[i + 1] = g[i + 1]
    BY <2>1, <1>0, <1>1, <1>3 DEF SplitTrail
  <2> QED BY <2>1, <2>2
<1>6. 0 .. Len(s) \subseteq R
  <2>. HIDE DEF R
  <2> QED BY <1>0, <1>4, <1>5, UpTo
<1>7. f[Len(s)] = g[Len(s)]
  BY <1>6, <1>0
<1>8. Len(s) + 1 \in 1 .. Len(r) /\ (Len(s) + 1) - 1 = Len(s)
  BY <1>0
<1> QED BY <1>0, <1>1, <1>3, <1>7, <1>8 DEF SplitTrail
-----------------------------------------------------------------------------
(* What the client has escaped, unescape gives back, whatever comes behind. *)

LEMMA ReadsAll ==
    ASSUME NEW a, NEW b, Reads(a, b)
    PROVE  unescape(a) = b
<1>1. PICK e : e = <<>>
  OBVIOUS
<1>2. e \in Seq(Symbols) /\ unescape(e) = e
  BY <1>1, EmptySeq, UnescapeNothing
<1>3. unescape(a \o e) = b \o e /\ a \in Seq(Symbols) /\ b \in Seq(Symbols)
  BY <1>2 DEF Reads
<1>4. a \o e = a /\ b \o e = b
  BY <1>1, <1>3, ConcatEmptySeq
<1> QED BY <1>3, <1>4

LEMMA ReadsNothing == Reads(<<>>, <<>>)
<1>1. PICK e : e = <<>>
  OBVIOUS
<1>2. e \in Seq(Symbols)
  BY <1>1, EmptySeq
<1>3. ASSUME NEW t \in Seq(Symbols) PROVE unescape(e \o t) = e \o unescape(t)
  <2>1. unescape(t) \in Seq(Symbols)
    BY UnescapeType
  <2>2. e \o t = t /\ e \o unescape(t) = unescape(t)
    BY <1>1, <2>1, ConcatEmptySeq
  <2> QED BY <2>2
<1>4. Reads(e, e)
  BY <1>2, <1>3 DEF Reads
<1> QED BY <1>1, <1>4

LEMMA ReadsBoth ==
    ASSUME NEW a, NEW b, NEW c, NEW d, Reads(a, b), Reads(c, d)
    PROVE  Reads(a \o c, b \o d)
<1>0. /\ a \in Seq(Symbols) /\ b \in Seq(Symbols) /\ c \in Seq(Symbols) /\ d \in Seq(Symbols)
      /\ \A t \in Seq(Symbols) : unescape(a \o t) = b \o unescape(t)
      /\ \A t \in Seq(Symbols) : unescape(c \o t) = d \o unescape(t)
  BY DEF Reads
<1>1. a \o c \in Seq(Symbols) /\ b \o d \in Seq(Symbols)
  BY <1>0, ConcatProperties
<1>2. ASSUME NEW t \in Seq(Symbols) PROVE unescape((a \o c) \o t) = (b \o d) \o unescape(t)
  <2>1. PICK u, v : u = c \o t /\ v = unescape(t)
    OBVIOUS
  <2>2. u \in Seq(Symbols) /\ v \in Seq(Symbols)
    BY <2>1, <1>0, ConcatProperties, UnescapeType
  <2>3. (a \o c) \o t = a \o (c \o t)
    <3>1. a \in Seq(Symbols) /\ c \in Seq(Symbols) /\ t \in Seq(Symbols)
      BY <1>0
    <3> QED BY <3>1, Associative
  <2>5. (b \o d) \o v = b \o (d \o v)
    <3>1. b \in Seq(Symbols) /\ d \in Seq(Symbols) /\ v \in Seq(Symbols)
      BY <1>0, <2>2
    <3> QED BY <3>1, Associative
  <2>4. unescape(a \o u) = b \o unescape(u) /\ unescape(u) = d \o v
    BY <2>1, <2>2, <1>0
  <2> QED BY <2>1, <2>3, <2>4, <2>5
<1> QED BY <1>1, <1>2 DEF Reads

\* A character.
LEMMA ReadsOther ==
    ASSUME NEW c \in Symbols, c # "%"
    PROVE  Reads(<<c>>, <<c>>)
<1>1. PICK s : s = <<c>>
  OBVIOUS
<1>2. s \in Seq(Symbols)
  BY <1>1
<1>3. \A t \in Seq(Symbols) : unescape(s \o t) = s \o unescape(t)
  BY <1>1, UnescapeOther
<1> QED BY <1>1, <1>2, <1>3 DEF Reads

LEMMA ReadsCode ==
    ASSUME NEW c \in Symbols
    PROVE  Reads(Code(c), <<c>>)
<1>1. CASE c \notin Special /\ Code(c) = <<c>>
  <2>1. c # "%"
    BY <1>1, SymbolsAssumption
  <2> QED BY <1>1, <2>1, ReadsOther
<1>2. ASSUME c \in Special, NEW d \in DOMAIN Hex, Code(c) = <<"%", d[1], d[2]>>, Hex[d] = c,
             d = <<d[1], d[2]>>, d[1] \in Symbols \ Special, d[2] \in Symbols \ Special
      PROVE  Reads(Code(c), <<c>>)
  <2>1. PICK x, y : x = d[1] /\ y = d[2]
    OBVIOUS
  <2>2. x \in Symbols /\ y \in Symbols /\ <<x, y>> \in DOMAIN Hex /\ Hex[<<x, y>>] = c
    BY <1>2, <2>1
  <2>3. PICK a : a = <<"%", d[1], d[2]>>
    OBVIOUS
  <2>4. a = Code(c) /\ IsEscape(a, x, y, c)
    <3>1. a = Code(c)
      BY <1>2, <2>3
    <3>2. a \in Seq(Symbols) /\ Len(a) = 3 /\ a[1] = "%" /\ a[2] = d[1] /\ a[3] = d[2]
      <4>1. "%" \in Symbols
        BY SymbolsAssumption
      <4> QED BY <4>1, <1>2, <2>3
    <3> QED BY <3>1, <3>2, <2>1, <2>2 DEF IsEscape
  <2>5. x \in Symbols /\ y \in Symbols /\ IsEscape(a, x, y, c)
    BY <2>2, <2>4
  <2>6. Reads(a, <<c>>)
    BY <2>5, UnescapeEscaped, Zenon
  <2> QED BY <2>4, <2>6
<1> QED BY <1>1, <1>2, CodeIs

\* A field.
LEMMA EscapeNothing == Escape(<<>>) = <<>>
<1>1. PICK e : e = <<>>
  OBVIOUS
<1>2. e \in Seq(Seq(Symbols)) /\ Len(e) = 0 /\ DOMAIN e = 1 .. 0
  BY <1>1, EmptySeq
<1>3. PICK s : s = [i \in DOMAIN e |-> Code(e[i])]
  OBVIOUS
<1>4. s = e
  BY <1>1, <1>2, <1>3
<1>6. FlattenSeq(s) = e
  BY <1>1, <1>4, FlatNothing
<1>7. Escape(e) = FlattenSeq(s)
  BY <1>3 DEF Escape
<1> QED BY <1>1, <1>6, <1>7

LEMMA EscapeMore ==
    ASSUME NEW field \in Seq(Symbols), NEW c \in Symbols, NEW r, r = Append(field, c)
    PROVE  Escape(r) = Escape(field) \o Code(c)
<1>0. /\ r \in Seq(Symbols) /\ Len(r) = Len(field) + 1 /\ Len(field) \in Nat
      /\ r[Len(field) + 1] = c /\ \A i \in 1 .. Len(field) : r[i] = field[i]
  BY AppendProperties
<1>1. PICK s, t : s = [i \in DOMAIN field |-> Code(field[i])] /\ t = [i \in DOMAIN r |-> Code(r[i])]
  OBVIOUS
<1>2. s \in Seq(Seq(Symbols)) /\ t \in Seq(Seq(Symbols)) /\ Code(c) \in Seq(Symbols)
  <2>1. Codes \in SUBSET Seq(Symbols)
    BY CodesAreSeqs
  <2>2. s \in Seq(Codes) /\ t \in Seq(Codes) /\ Code(c) \in Codes
    BY <1>0, <1>1, EscapeIsCode, CodeIsCode
  <2> QED BY <2>1, <2>2, SeqMonotonic
<1>3. PICK u : u = Append(s, Code(c))
  OBVIOUS
<1>4. Len(s) = Len(field) /\ Len(t) = Len(r)
      /\ (\A i \in 1 .. Len(field) : s[i] = Code(field[i]))
      /\ (\A i \in 1 .. Len(r) : t[i] = Code(r[i]))
  <2>1. DOMAIN field = 1 .. Len(field) /\ DOMAIN r = 1 .. Len(r)
    BY <1>0
  <2> QED BY <1>0, <1>1, <1>2, <2>1
<1>5. /\ u \in Seq(Seq(Symbols)) /\ Len(u) = Len(s) + 1 /\ u[Len(s) + 1] = Code(c)
      /\ \A i \in 1 .. Len(s) : u[i] = s[i]
  BY <1>2, <1>3, AppendProperties
<1>6. \A i \in 1 .. Len(u) : u[i] = t[i]
  <2>1. ASSUME NEW i \in 1 .. Len(u) PROVE u[i] = t[i]
    <3>1. i \in 1 .. Len(r) /\ (i \in 1 .. Len(field) \/ i = Len(field) + 1)
      BY <1>0, <1>4, <1>5
    <3> QED BY <3>1, <1>0, <1>4, <1>5
  <2> QED BY <2>1
<1>7. u = t
  <2>1. Len(u) = Len(t)
    BY <1>0, <1>4, <1>5
  <2> QED BY <1>2, <1>5, <1>6, <2>1, SameSeq
<1>8. FlattenSeq(u) = FlattenSeq(s) \o Code(c)
  BY <1>2, <1>3, FlatAppend
<1> QED BY <1>1, <1>7, <1>8 DEF Escape

LEMMA ReadsEscape ==
    ASSUME NEW field \in Seq(Symbols)
    PROVE  Reads(Escape(field), field)
<1>. DEFINE T == {f \in Seq(Symbols) : Reads(Escape(f), f)}
<1>1. <<>> \in T
  BY EmptySeq, EscapeNothing, ReadsNothing
<1>2. ASSUME NEW f \in Seq(Symbols), NEW c \in Symbols, f \in T PROVE Append(f, c) \in T
  <2>1. PICK r : r = Append(f, c)
    OBVIOUS
  <2>2. r \in Seq(Symbols) /\ r = f \o <<c>>
    BY <2>1, AppendIsConcat, AppendProperties
  <2>3. Escape(r) = Escape(f) \o Code(c)
    BY <2>1, EscapeMore
  <2>4. Reads(Escape(f) \o Code(c), f \o <<c>>)
    BY <1>2, ReadsCode, ReadsBoth
  <2> QED BY <2>1, <2>2, <2>3, <2>4
<1>3. Seq(Symbols) \subseteq T
  <2>. HIDE DEF T
  <2> QED BY <1>1, <1>2, SequencesUpTo
<1> QED BY <1>3

-----------------------------------------------------------------------------
(* The tokens of a string.                                                 *)

LEMMA AppendAfter ==
    ASSUME NEW S, NEW s \in Seq(S), NEW u \in Seq(S), NEW c \in S, NEW r, r = Append(u, c)
    PROVE  s \o u \in Seq(S) /\ Append(s \o u, c) = s \o r
<1>1. PICK k : k = <<c>>
  OBVIOUS
<1>2. k \in Seq(S) /\ r = u \o k
  BY <1>1, AppendIsConcat
<1>3. (s \o u) \o k = s \o (u \o k)
  BY <1>2, Associative
<1>4. s \o u \in Seq(S)
  BY ConcatProperties
<1>5. Append(s \o u, c) = (s \o u) \o k
  BY <1>1, <1>4, AppendIsConcat
<1> QED BY <1>1, <1>2, <1>3, <1>4, <1>5

IsComma(c) == c = ","
CommaFree(s) == \A i \in 1 .. Len(s) : ~ IsComma(s[i])
TokenLists == {t \in Seq(Seq(Symbols)) : Len(t) >= 1}

\* u is t with more text, s, at the end of its last token.
Grown(u, t, s) ==
    /\ u \in TokenLists /\ Len(u) = Len(t)
    /\ \A i \in 1 .. Len(t) - 1 : u[i] = t[i]
    /\ u[Len(t)] = t[Len(t)] \o s

LEMMA TokenListIs ==
    ASSUME NEW t \in TokenLists
    PROVE  /\ t \in Seq(Seq(Symbols)) /\ Len(t) \in Nat /\ Len(t) >= 1
           /\ Len(t) \in 1 .. Len(t) /\ t[Len(t)] \in Seq(Symbols)
<1>1. t \in Seq(Seq(Symbols)) /\ Len(t) >= 1
  BY DEF TokenLists
<1>2. Len(t) \in Nat
  BY <1>1
<1>3. Len(t) \in 1 .. Len(t)
  BY <1>1, <1>2
<1>4. t[Len(t)] \in Seq(Symbols)
  BY <1>1, <1>3, ElementOfSeq
<1> QED BY <1>1, <1>2, <1>3, <1>4

LEMMA ExtendComma ==
    ASSUME NEW t \in TokenLists, NEW c, IsComma(c)
    PROVE  Extend(t, c) \in TokenLists /\ Extend(t, c) = Append(t, <<>>)
<1>1. Extend(t, c) = Append(t, <<>>)
  BY DEF Extend, IsComma
<1>2. /\ t \in Seq(Seq(Symbols)) /\ Len(t) \in Nat /\ Len(t) >= 1
      /\ <<>> \in Seq(Symbols)
  BY EmptySeq, TokenListIs
<1>3. PICK u : u = Append(t, <<>>)
  OBVIOUS
<1>4. u \in Seq(Seq(Symbols)) /\ Len(u) = Len(t) + 1
  BY <1>2, <1>3, AppendProperties
<1>5. Len(u) >= 1
  BY <1>2, <1>4
<1>6. u \in TokenLists
  BY <1>4, <1>5 DEF TokenLists
<1> QED BY <1>1, <1>3, <1>6

LEMMA ExtendOther ==
    ASSUME NEW t \in TokenLists, NEW c \in Symbols, ~ IsComma(c)
    PROVE  Grown(Extend(t, c), t, <<c>>)
<1>0. /\ t \in Seq(Seq(Symbols)) /\ Len(t) \in Nat /\ Len(t) >= 1
      /\ Len(t) \in 1 .. Len(t) /\ t[Len(t)] \in Seq(Symbols)
  BY TokenListIs
<1>1. PICK n, u, l : n = Len(t) /\ l = Append(t[n], c) /\ u = [t EXCEPT ![n] = l]
  OBVIOUS
<1>2. Extend(t, c) = u
  BY <1>1 DEF Extend, IsComma
<1>3. n \in 1 .. Len(t) /\ t[n] \in Seq(Symbols)
  BY <1>0, <1>1
<1>4. l \in Seq(Symbols) /\ l = t[n] \o <<c>>
  BY <1>1, <1>3, AppendProperties, AppendIsConcat
<1>5. u \in Seq(Seq(Symbols)) /\ Len(u) = Len(t) /\ u[n] = l
      /\ \A i \in 1 .. Len(t) - 1 : u[i] = t[i]
  <2>1. /\ u \in Seq(Seq(Symbols)) /\ Len(u) = Len(t)
        /\ \A i \in 1 .. Len(t) : u[i] = IF i = n THEN l ELSE t[i]
    <3>1. t \in Seq(Seq(Symbols)) /\ n \in 1 .. Len(t) /\ l \in Seq(Symbols)
      BY <1>0, <1>3, <1>4
    <3>2. u = [t EXCEPT ![n] = l]
      BY <1>1
    <3> QED BY <3>1, <3>2, ExceptSeq
  <2> QED BY <1>0, <1>1, <1>3, <2>1
<1> QED BY <1>0, <1>1, <1>2, <1>4, <1>5 DEF Grown, TokenLists

LEMMA GrownMore ==
    ASSUME NEW t \in TokenLists, NEW x, NEW y, NEW u \in Seq(Symbols), NEW c \in Symbols,
           NEW r, r = Append(u, c), Grown(x, t, u), Grown(y, x, <<c>>)
    PROVE  Grown(y, t, r)
<1>1. PICK n, l, m, k : n = Len(t) /\ l = t[n] /\ m = l \o u /\ k = <<c>>
  OBVIOUS
<1>2. n \in Nat /\ l \in Seq(Symbols)
  BY <1>1, TokenListIs
<1>3. m \in Seq(Symbols) /\ Append(m, c) = l \o r
  <2>1. m = l \o u /\ l \in Seq(Symbols)
    BY <1>1, <1>2
  <2>2. PICK q : q = l \o r
    OBVIOUS
  <2>3. m \in Seq(Symbols) /\ q = Append(m, c)
    BY <2>1, <2>2, AppendAfter
  <2> QED BY <2>2, <2>3
<1>4. Append(m, c) = m \o <<c>>
  BY <1>3, AppendIsConcat
<1>5. /\ y \in TokenLists /\ Len(y) = Len(x) /\ y[Len(x)] = x[Len(x)] \o k
      /\ \A i \in 1 .. Len(x) - 1 : y[i] = x[i]
  BY <1>1 DEF Grown
<1>6. Len(x) = n /\ x[n] = m /\ \A i \in 1 .. n - 1 : x[i] = t[i]
  BY <1>1 DEF Grown
<1>7. m \o k = l \o r
  BY <1>1, <1>3, <1>4
<1>8. Len(y) = Len(t) /\ y[Len(t)] = t[Len(t)] \o r
  BY <1>1, <1>5, <1>6, <1>7
<1>9. \A i \in 1 .. Len(t) - 1 : y[i] = t[i]
  BY <1>1, <1>5, <1>6
<1> QED BY <1>5, <1>8, <1>9 DEF Grown

LEMMA SplitFirst == Tokens(<<>>) = << <<>> >>
<1>1. Len(<<>>) = 0
  OBVIOUS
<1> QED BY <1>1, SplitNothing

LEMMA TokensType ==
    ASSUME NEW s \in Seq(Symbols)
    PROVE  Tokens(s) \in TokenLists
<1>. DEFINE T == {u \in Seq(Symbols) : Tokens(u) \in TokenLists}
<1>1. <<>> \in T
  <2>1. <<>> \in Seq(Symbols)
    BY EmptySeq
  <2>2. << <<>> >> \in TokenLists
    BY <2>1 DEF TokenLists
  <2> QED BY <2>1, <2>2, SplitFirst
<1>2. ASSUME NEW u \in Seq(Symbols), NEW c \in Symbols, u \in T PROVE Append(u, c) \in T
  <2>1. PICK r : r = Append(u, c)
    OBVIOUS
  <2>2. r \in Seq(Symbols) /\ Tokens(r) = Extend(Tokens(u), c) /\ Tokens(u) \in TokenLists
    BY <1>2, <2>1, AppendProperties, SplitMore
  <2>3. Extend(Tokens(u), c) \in TokenLists
    <3>1. CASE IsComma(c)
      BY <2>2, <3>1, ExtendComma
    <3>2. CASE ~ IsComma(c)
      BY <2>2, <3>2, ExtendOther DEF Grown
    <3> QED BY <3>1, <3>2
  <2> QED BY <2>1, <2>2, <2>3
<1>3. Seq(Symbols) \subseteq T
  <2>. HIDE DEF T
  <2> QED BY <1>1, <1>2, SequencesUpTo
<1> QED BY <1>3

\* Text without a comma goes to the last token.
LEMMA TokensGrow ==
    ASSUME NEW s \in Seq(Symbols), NEW f \in Seq(Symbols), CommaFree(f)
    PROVE  Grown(Tokens(s \o f), Tokens(s), f)
<1>0. Tokens(s) \in TokenLists
  BY TokensType
<1>. DEFINE T == {u \in Seq(Symbols) : CommaFree(u) => Grown(Tokens(s \o u), Tokens(s), u)}
<1>1. <<>> \in T
  <2>1. PICK e, t : e = <<>> /\ t = Tokens(s)
    OBVIOUS
  <2>2. e \in Seq(Symbols) /\ s \o e = s
    BY <2>1, EmptySeq, ConcatEmptySeq
  <2>4. t[Len(t)] \in Seq(Symbols)
    BY <1>0, <2>1, TokenListIs
  <2>5. t[Len(t)] \o e = t[Len(t)]
    BY <2>1, <2>4, ConcatEmptySeq
  <2>6. Grown(t, t, e)
    BY <1>0, <2>1, <2>5 DEF Grown
  <2> QED BY <2>1, <2>2, <2>6
<1>2. ASSUME NEW u \in Seq(Symbols), NEW c \in Symbols, u \in T PROVE Append(u, c) \in T
  <2>1. PICK r : r = Append(u, c)
    OBVIOUS
  <2>2. r \in Seq(Symbols) /\ Len(r) = Len(u) + 1 /\ Len(u) \in Nat /\ r[Len(u) + 1] = c
        /\ r = u \o <<c>> /\ \A i \in 1 .. Len(u) : r[i] = u[i]
    BY <2>1, AppendProperties, AppendIsConcat
  <2>3. ASSUME CommaFree(r) PROVE Grown(Tokens(s \o r), Tokens(s), r)
    <3>1. CommaFree(u) /\ ~ IsComma(c)
      <4>1. Len(u) + 1 \in 1 .. Len(r) /\ \A i \in 1 .. Len(u) : i \in 1 .. Len(r)
        BY <2>2
      <4> QED BY <2>2, <2>3, <4>1 DEF CommaFree
    <3>2. PICK w, v, t : w = s \o u /\ v = s \o r /\ t = Tokens(s)
      OBVIOUS
    <3>3. w \in Seq(Symbols) /\ v = Append(w, c)
      BY <2>1, <3>2, AppendAfter
    <3>4. PICK x, y : x = Tokens(w) /\ y = Tokens(v)
      OBVIOUS
    <3>5. y = Extend(x, c)
      BY <3>3, <3>4, SplitMore
    <3>6. Grown(x, t, u)
      BY <1>2, <3>1, <3>2, <3>4
    <3>7. x \in TokenLists
      BY <3>6 DEF Grown
    <3>8. Grown(y, x, <<c>>)
      BY <3>1, <3>5, <3>7, ExtendOther
    <3>11. Grown(y, t, r)
      <4>1. t \in TokenLists
        BY <1>0, <3>2
      <4> QED BY <2>1, <3>6, <3>8, <4>1, GrownMore
    <3> QED BY <3>2, <3>4, <3>11
  <2> QED BY <2>1, <2>2, <2>3
<1>3. Seq(Symbols) \subseteq T
  <2>. HIDE DEF T
  <2> QED BY <1>1, <1>2, SequencesUpTo
<1> QED BY <1>3

\* Whatever comes behind, there are not fewer tokens; the first of two is whole.
LEMMA TokensStay ==
    ASSUME NEW s \in Seq(Symbols), NEW f \in Seq(Symbols)
    PROVE  /\ Len(Tokens(s \o f)) >= Len(Tokens(s))
           /\ Len(Tokens(s)) >= 2 => Tokens(s \o f)[1] = Tokens(s)[1]
<1>0. Tokens(s) \in TokenLists
  BY TokensType
<1>. DEFINE Stays(x, t) == x \in TokenLists /\ Len(x) >= Len(t) /\ (Len(t) >= 2 => x[1] = t[1])
            T == {u \in Seq(Symbols) : Stays(Tokens(s \o u), Tokens(s))}
<1>1. <<>> \in T
  <2>1. <<>> \in Seq(Symbols) /\ s \o <<>> = s
    BY EmptySeq, ConcatEmptySeq
  <2>2. Stays(Tokens(s), Tokens(s))
    BY <1>0 DEF TokenLists
  <2>. HIDE DEF Stays
  <2> QED BY <2>1, <2>2
<1>2. ASSUME NEW u \in Seq(Symbols), NEW c \in Symbols, u \in T PROVE Append(u, c) \in T
  <2>1. PICK r, w, v : r = Append(u, c) /\ w = s \o u /\ v = s \o r
    OBVIOUS
  <2>2. r \in Seq(Symbols) /\ r = u \o <<c>>
    BY <2>1, AppendProperties, AppendIsConcat
  <2>3. w \in Seq(Symbols) /\ v = Append(w, c)
    BY <2>1, AppendAfter
  <2>4. PICK x, y, t : x = Tokens(w) /\ y = Tokens(v) /\ t = Tokens(s)
    OBVIOUS
  <2>5. y = Extend(x, c)
    BY <2>3, <2>4, SplitMore
  <2>6. x \in TokenLists /\ Len(x) >= Len(t) /\ (Len(t) >= 2 => x[1] = t[1])
    BY <1>2, <2>1, <2>4
  <2>7. x \in Seq(Seq(Symbols)) /\ Len(x) >= 1 /\ Len(x) \in Nat /\ Len(t) \in Nat
    BY <1>0, <2>4, <2>6, TokenListIs
  <2>8. y \in TokenLists /\ Len(y) >= Len(x) /\ (Len(x) >= 2 => y[1] = x[1])
    <3>1. CASE IsComma(c)
      <4>1. y \in TokenLists /\ y = Append(x, <<>>)
        BY <2>5, <2>6, <3>1, ExtendComma
      <4>2. <<>> \in Seq(Symbols)
        BY EmptySeq
      <4>3. Len(y) = Len(x) + 1 /\ \A i \in 1 .. Len(x) : y[i] = x[i]
        BY <2>7, <4>1, <4>2, AppendProperties
      <4> QED BY <2>7, <4>1, <4>3
    <3>2. CASE ~ IsComma(c)
      <4>1. Grown(y, x, <<c>>)
        BY <2>5, <2>6, <3>2, ExtendOther
      <4>2. y \in TokenLists /\ Len(y) = Len(x) /\ \A i \in 1 .. Len(x) - 1 : y[i] = x[i]
        BY <4>1 DEF Grown
      <4> QED BY <2>7, <4>2
    <3> QED BY <3>1, <3>2
  <2>9. Stays(y, t)
    <3>1. Len(y) \in Nat
      BY <2>8 DEF TokenLists
    <3> QED BY <2>6, <2>7, <2>8, <3>1
  <2>. HIDE DEF Stays
  <2> QED BY <2>1, <2>2, <2>4, <2>9
<1>3. Seq(Symbols) \subseteq T
  <2>. HIDE DEF T
  <2> QED BY <1>1, <1>2, SequencesUpTo
<1> QED BY <1>3

-----------------------------------------------------------------------------
(* What becomes of a command.                                              *)

\* t are the tokens of a command with the fields fs.
TokensOf(t, fs) ==
    /\ t \in TokenLists /\ Len(t) >= Len(fs)
    /\ CommaFree(fs[1]) => t[1] = fs[1]
    /\ (\A i \in 1 .. Len(fs) : CommaFree(fs[i])) => t = fs

LineRead(fs) == \E b : Reads(Line(fs), b) /\ TokensOf(Tokens(b), fs)

LEMMA ReadsComma == Reads(<<",">>, <<",">>)
<1>1. PICK c : c = ","
  OBVIOUS
<1>2. c \in Symbols /\ c # "%"
  BY <1>1, SymbolsAssumption
<1>3. Reads(<<c>>, <<c>>)
  BY <1>2, ReadsOther
<1> QED BY <1>1, <1>3

\* One more field.
LEMMA LineMore ==
    ASSUME NEW fs \in Seq(Seq(Symbols)), NEW f \in Seq(Symbols), NEW r, r = Append(fs, f)
    PROVE  Line(r) = Line(fs) \o ((IF fs = <<>> THEN <<>> ELSE <<",">>) \o Escape(f))
<1>0. /\ r \in Seq(Seq(Symbols)) /\ Len(r) = Len(fs) + 1 /\ Len(fs) \in Nat
      /\ r[Len(fs) + 1] = f /\ \A i \in 1 .. Len(fs) : r[i] = fs[i]
  BY AppendProperties
<1>1. PICK s, t : s = [i \in DOMAIN fs |-> Piece(fs, i)] /\ t = [i \in DOMAIN r |-> Piece(r, i)]
  OBVIOUS
<1>2. PICK p : p = (IF fs = <<>> THEN <<>> ELSE <<",">>) \o Escape(f)
  OBVIOUS
<1>3. Line(fs) = FlattenSeq(s) /\ Line(r) = FlattenSeq(t) /\ s \in Seq(Codes) /\ t \in Seq(Codes)
  BY <1>0, <1>1, LineIsCode
<1>4. s \in Seq(Seq(Symbols)) /\ t \in Seq(Seq(Symbols))
  <2>1. Codes \in SUBSET Seq(Symbols)
    BY DEF Codes
  <2> QED BY <1>3, <2>1, SeqMonotonic
<1>5. Piece(r, Len(fs) + 1) = p
  <2>1. (Len(fs) + 1 = 1) <=> (fs = <<>>)
    BY <1>0, EmptySeq
  <2> QED BY <1>0, <1>2, <2>1 DEF Piece
<1>6. \A i \in 1 .. Len(fs) : Piece(r, i) = Piece(fs, i)
  BY <1>0 DEF Piece
<1>7. Len(s) = Len(fs) /\ Len(t) = Len(r)
      /\ (\A i \in 1 .. Len(fs) : s[i] = Piece(fs, i))
      /\ (\A i \in 1 .. Len(r) : t[i] = Piece(r, i))
  <2>1. DOMAIN fs = 1 .. Len(fs) /\ DOMAIN r = 1 .. Len(r)
    BY <1>0
  <2> QED BY <1>0, <1>1, <1>4, <2>1
<1>8. p \in Seq(Symbols)
  <2>1. Len(r) \in 1 .. Len(r)
    BY <1>0
  <2>2. t[Len(r)] = p
    BY <1>0, <1>5, <1>7, <2>1
  <2>3. t[Len(r)] \in Seq(Symbols)
    BY <1>4, <1>7, <2>1, ElementOfSeq
  <2> QED BY <2>2, <2>3
<1>9. PICK u : u = Append(s, p)
  OBVIOUS
<1>10. /\ u \in Seq(Seq(Symbols)) /\ Len(u) = Len(s) + 1 /\ u[Len(s) + 1] = p
       /\ \A i \in 1 .. Len(s) : u[i] = s[i]
  BY <1>4, <1>8, <1>9, AppendProperties
<1>11. \A i \in 1 .. Len(u) : u[i] = t[i]
  <2>1. ASSUME NEW i \in 1 .. Len(u) PROVE u[i] = t[i]
    <3>1. i \in 1 .. Len(r) /\ (i \in 1 .. Len(fs) \/ i = Len(fs) + 1)
      BY <1>0, <1>7, <1>10
    <3>2. CASE i \in 1 .. Len(fs)
      BY <3>1, <3>2, <1>6, <1>7, <1>10
    <3>3. CASE i = Len(fs) + 1
      BY <3>1, <3>3, <1>5, <1>7, <1>10
    <3> QED BY <3>1, <3>2, <3>3
  <2> QED BY <2>1
<1>12. u = t
  <2>1. Len(u) = Len(t)
    BY <1>0, <1>7, <1>10
  <2> QED BY <1>4, <1>10, <1>11, <2>1, SameSeq
<1>13. FlattenSeq(u) = FlattenSeq(s) \o p
  BY <1>4, <1>8, <1>9, FlatAppend
<1> QED BY <1>2, <1>3, <1>12, <1>13

\* A command with one field.
LEMMA FirstFieldRead ==
    ASSUME NEW f \in Seq(Symbols), NEW r, r = Append(<<>>, f)
    PROVE  LineRead(r)
<1>0. PICK e : e = <<>>
  OBVIOUS
<1>1. e \in Seq(Seq(Symbols)) /\ e \in Seq(Symbols) /\ e \in Seq(Codes) /\ Len(e) = 0 /\ r = Append(e, f)
  BY <1>0, EmptySeq
<1>2. Line(r) = Line(e) \o (e \o Escape(f))
  BY <1>0, <1>1, LineMore
<1>3. Escape(f) \in Seq(Symbols)
  BY EscapeIsCode DEF Codes
<1>4. Line(e) = e
  <2>1. [i \in DOMAIN e |-> Piece(e, i)] = e
    <3>1. DOMAIN e = 1 .. 0
      BY <1>1
    <3> QED BY <1>0, <3>1
  <2>2. Line(e) = FlattenSeq([i \in DOMAIN e |-> Piece(e, i)])
    BY <1>1, LineIsCode
  <2> QED BY <1>0, <2>1, <2>2, FlatNothing
<1>5. Line(r) = Escape(f)
  BY <1>0, <1>2, <1>3, <1>4, ConcatEmptySeq
<1>6. Reads(Line(r), f)
  BY <1>5, ReadsEscape
<1>7. PICK t : t = Tokens(f)
  OBVIOUS
<1>8. t \in TokenLists /\ t \in Seq(Seq(Symbols)) /\ Len(t) \in Nat /\ Len(t) >= 1
  BY <1>7, TokensType, TokenListIs
<1>9. r \in Seq(Seq(Symbols)) /\ Len(r) = 1 /\ r[1] = f
  BY <1>1, AppendProperties
<1>10. ASSUME CommaFree(f) PROVE t = r
  <2>1. PICK u : u = Tokens(e)
    OBVIOUS
  <2>2. u = <<e>>
    BY <1>0, <2>1, SplitFirst
  <2>3. Len(u) = 1 /\ u[1] = e
    BY <2>2
  <2>4. e \o f = f
    BY <1>0, ConcatEmptySeq
  <2>5. Grown(t, u, f)
    BY <1>1, <1>7, <1>10, <2>1, <2>4, TokensGrow
  <2>6. Len(t) = 1 /\ t[1] = f
    BY <2>3, <2>4, <2>5 DEF Grown
  <2>7. \A i \in 1 .. Len(t) : t[i] = r[i]
    BY <1>9, <2>6
  <2>8. Len(t) = Len(r)
    BY <1>9, <2>6
  <2> QED BY <1>8, <1>9, <2>7, <2>8, SameSeq
<1>11. CommaFree(f) => t[1] = r[1] /\ t = r
  BY <1>10
<1>12. (\A i \in 1 .. Len(r) : CommaFree(r[i])) => CommaFree(f)
  BY <1>9
<1>13. TokensOf(t, r)
  BY <1>8, <1>9, <1>11, <1>12 DEF TokensOf
<1> QED BY <1>6, <1>7, <1>13 DEF LineRead

\* One more.
LEMMA NextFieldRead ==
    ASSUME NEW fs \in Seq(Seq(Symbols)), fs # <<>>, LineRead(fs),
           NEW f \in Seq(Symbols), NEW r, r = Append(fs, f)
    PROVE  LineRead(r)
<1>0. /\ r \in Seq(Seq(Symbols)) /\ Len(r) = Len(fs) + 1 /\ Len(fs) \in Nat /\ Len(fs) >= 1
      /\ r[Len(fs) + 1] = f /\ (\A i \in 1 .. Len(fs) : r[i] = fs[i]) /\ r[1] = fs[1]
  <2>1. /\ r \in Seq(Seq(Symbols)) /\ Len(r) = Len(fs) + 1 /\ Len(fs) \in Nat
        /\ r[Len(fs) + 1] = f /\ (\A i \in 1 .. Len(fs) : r[i] = fs[i])
    BY AppendProperties
  <2>2. Len(fs) >= 1
    BY <2>1, EmptySeq
  <2> QED BY <2>1, <2>2
<1>1. PICK b : Reads(Line(fs), b) /\ TokensOf(Tokens(b), fs)
  BY DEF LineRead
<1>2. PICK k : k = <<",">>
  OBVIOUS
<1>3. k \in Seq(Symbols) /\ b \in Seq(Symbols) /\ Reads(k, k)
  BY <1>1, <1>2, ReadsComma DEF Reads
<1>4. PICK w, v : w = b \o k /\ v = w \o f
  OBVIOUS
<1>5. Reads(Line(r), v)
  <2>1. PICK e : e = Escape(f)
    OBVIOUS
  <2>2. Reads(e, f)
    BY <2>1, ReadsEscape
  <2>3. Reads(k \o e, k \o f)
    BY <1>3, <2>2, ReadsBoth
  <2>4. Reads(Line(fs) \o (k \o e), b \o (k \o f))
    BY <1>1, <2>3, ReadsBoth
  <2>5. Line(r) = Line(fs) \o (k \o e)
    <3>1. Line(r) = Line(fs) \o ((IF fs = <<>> THEN <<>> ELSE <<",">>) \o Escape(f))
      BY LineMore
    <3> QED BY <1>2, <2>1, <3>1
  <2>6. PICK n : n = k \o f
    OBVIOUS
  <2>7. w \o f = b \o n
    <3>1. b \in Seq(Symbols) /\ k \in Seq(Symbols) /\ w = b \o k
      BY <1>3, <1>4
    <3> QED BY <2>6, <3>1, StringEitherWay
  <2> QED BY <1>4, <2>4, <2>5, <2>6, <2>7
<1>6. PICK t, x, y : t = Tokens(b) /\ x = Tokens(w) /\ y = Tokens(v)
  OBVIOUS
<1>7. /\ t \in TokenLists /\ Len(t) >= Len(fs)
      /\ CommaFree(fs[1]) => t[1] = fs[1]
      /\ (\A i \in 1 .. Len(fs) : CommaFree(fs[i])) => t = fs
  BY <1>1, <1>6 DEF TokensOf
<1>8. w \in Seq(Symbols) /\ v \in Seq(Symbols)
  BY <1>3, <1>4, ConcatProperties
<1>9. PICK e : e = <<>>
  OBVIOUS
<1>10. x \in TokenLists /\ x = Append(t, e)
  <2>1. PICK c : c = ","
    OBVIOUS
  <2>2. c \in Symbols /\ IsComma(c)
    BY <2>1, SymbolsAssumption DEF IsComma
  <2>3. w = Append(b, c)
    <3>1. k = <<c>>
      BY <1>2, <2>1
    <3> QED BY <1>3, <1>4, <2>2, <3>1, AppendIsConcat
  <2>4. x = Extend(t, c)
    BY <1>3, <1>6, <2>2, <2>3, SplitMore
  <2> QED BY <1>7, <1>9, <2>2, <2>4, ExtendComma
<1>11. /\ t \in Seq(Seq(Symbols)) /\ Len(t) \in Nat /\ Len(t) >= 1 /\ Len(x) = Len(t) + 1
       /\ x[Len(t) + 1] = e /\ (\A i \in 1 .. Len(t) : x[i] = t[i]) /\ x[1] = t[1]
  <2>1. t \in Seq(Seq(Symbols)) /\ Len(t) \in Nat /\ Len(t) >= 1 /\ e \in Seq(Symbols)
    BY <1>7, <1>9, TokenListIs, EmptySeq
  <2>2. /\ Len(x) = Len(t) + 1 /\ x[Len(t) + 1] = e
        /\ \A i \in 1 .. Len(t) : x[i] = t[i]
    BY <1>10, <2>1, AppendProperties
  <2> QED BY <2>1, <2>2
<1>12. /\ y \in TokenLists /\ y \in Seq(Seq(Symbols)) /\ Len(y) \in Nat
       /\ Len(y) >= Len(x) /\ (Len(x) >= 2 => y[1] = x[1])
  <2>1. y \in TokenLists /\ y \in Seq(Seq(Symbols)) /\ Len(y) \in Nat
    BY <1>6, <1>8, TokensType, TokenListIs
  <2>2. Len(y) >= Len(x) /\ (Len(x) >= 2 => y[1] = x[1])
    BY <1>4, <1>6, <1>8, TokensStay
  <2> QED BY <2>1, <2>2
<1>13. Len(y) >= Len(r)
  BY <1>0, <1>7, <1>11, <1>12
<1>14. CommaFree(r[1]) => y[1] = r[1]
  BY <1>0, <1>7, <1>11, <1>12
<1>15. ASSUME \A i \in 1 .. Len(r) : CommaFree(r[i]) PROVE y = r
  <2>1. CommaFree(f) /\ \A i \in 1 .. Len(fs) : CommaFree(fs[i])
    <3>1. Len(fs) + 1 \in 1 .. Len(r) /\ \A i \in 1 .. Len(fs) : i \in 1 .. Len(r)
      BY <1>0
    <3> QED BY <1>0, <1>15, <3>1
  <2>2. t = fs
    BY <1>7, <2>1
  <2>3. Grown(y, x, f)
    BY <1>4, <1>6, <1>8, <2>1, TokensGrow
  <2>4. e \o f = f
    BY <1>9, ConcatEmptySeq
  <2>5. Len(y) = Len(r) /\ y[Len(r)] = f /\ \A i \in 1 .. Len(r) - 1 : y[i] = r[i]
    <3>1. /\ Len(y) = Len(x) /\ y[Len(x)] = x[Len(x)] \o f
          /\ \A i \in 1 .. Len(x) - 1 : y[i] = x[i]
      BY <2>3 DEF Grown
    <3>2. Len(x) = Len(r) /\ x[Len(x)] = e /\ Len(x) - 1 = Len(fs)
      BY <1>0, <1>11, <2>2
    <3> QED BY <1>0, <1>11, <2>2, <2>4, <3>1, <3>2
  <2>6. \A i \in 1 .. Len(r) : y[i] = r[i]
    BY <1>0, <2>5
  <2> QED BY <1>0, <1>12, <2>5, <2>6, SameSeq
<1>16. TokensOf(y, r)
  BY <1>12, <1>13, <1>14, <1>15 DEF TokensOf
<1> QED BY <1>5, <1>6, <1>16 DEF LineRead

\* Every command is read as its fields, when there is no comma in these; when
\* there is, there are only more tokens.
LEMMA CommandRead ==
    ASSUME NEW fs \in Seq(Seq(Symbols)), fs # <<>>
    PROVE  TokensOf(Tokens(unescape(Line(fs))), fs)
<1>. DEFINE T == {u \in Seq(Seq(Symbols)) : u # <<>> => LineRead(u)}
<1>1. <<>> \in T
  BY EmptySeq
<1>2. ASSUME NEW u \in Seq(Seq(Symbols)), NEW f \in Seq(Symbols), u \in T
      PROVE  Append(u, f) \in T
  <2>1. PICK r : r = Append(u, f)
    OBVIOUS
  <2>2. r \in Seq(Seq(Symbols))
    BY <2>1, AppendProperties
  <2>3. LineRead(r)
    <3>1. CASE u = <<>>
      <4>1. r = Append(<<>>, f)
        BY <2>1, <3>1
      <4> QED BY <4>1, FirstFieldRead
    <3>2. CASE u # <<>>
      <4>1. LineRead(u)
        BY <1>2, <3>2
      <4> QED BY <2>1, <3>2, <4>1, NextFieldRead
    <3> QED BY <3>1, <3>2
  <2> QED BY <2>1, <2>2, <2>3
<1>3. Seq(Seq(Symbols)) \subseteq T
  <2>. HIDE DEF T
  <2> QED BY <1>1, <1>2, SequencesUpTo
<1>4. LineRead(fs)
  BY <1>3
<1>5. PICK b : Reads(Line(fs), b) /\ TokensOf(Tokens(b), fs)
  BY <1>4 DEF LineRead
<1>6. unescape(Line(fs)) = b
  BY <1>5, ReadsAll
<1> QED BY <1>5, <1>6

-----------------------------------------------------------------------------
(* The lines of a stream.                                                  *)

K(d, p, k) == [done |-> d, part |-> p, skip |-> k]
NoNL(s) == \A i \in 1 .. Len(s) : s[i] # NL

LEMMA KIs ==
    ASSUME NEW d, NEW p, NEW k
    PROVE  K(d, p, k).done = d /\ K(d, p, k).part = p /\ K(d, p, k).skip = k
BY DEF K

LEMMA FeedNL ==
    ASSUME NEW d, NEW p, NEW k \in BOOLEAN
    PROVE  Feed(K(d, p, k), NL) = IF k THEN K(d, <<>>, FALSE) ELSE K(Append(d, p), <<>>, FALSE)
BY DEF K, Feed

LEMMA FeedSkip ==
    ASSUME NEW d, NEW p, NEW c, c # NL
    PROVE  Feed(K(d, p, TRUE), c) = K(d, <<>>, TRUE)
BY DEF K, Feed

LEMMA FeedFull ==
    ASSUME NEW d, NEW p, NEW c, c # NL, Len(p) = SIZE - 1
    PROVE  Feed(K(d, p, FALSE), c) = K(d, <<>>, TRUE)
BY DEF K, Feed

LEMMA FeedChar ==
    ASSUME NEW d, NEW p, NEW c, c # NL, Len(p) # SIZE - 1
    PROVE  Feed(K(d, p, FALSE), c) = K(d, Append(p, c), FALSE)
BY DEF K, Feed

LEMMA ScanFirst ==
    ASSUME NEW k
    PROVE  Scan(k, <<>>) = k
<1>1. Len(<<>>) = 0
  OBVIOUS
<1> QED BY <1>1, ScanNothing

IsNext(v, w, c) == w \in Seq(Symbols) /\ c \in Symbols /\ v = Append(w, c)

LEMMA ScanNext ==
    ASSUME NEW k, NEW v, NEW w, NEW c, IsNext(v, w, c)
    PROVE  Scan(k, v) = Feed(Scan(k, w), c)
BY ZenonT(40), ScanMore DEF IsNext

LEMMA ScanConcat ==
    ASSUME NEW k, NEW s \in Seq(Symbols), NEW t \in Seq(Symbols)
    PROVE  Scan(k, s \o t) = Scan(Scan(k, s), t)
<1>. DEFINE T == {u \in Seq(Symbols) : Scan(k, s \o u) = Scan(Scan(k, s), u)}
<1>1. <<>> \in T
  <2>1. <<>> \in Seq(Symbols) /\ s \o <<>> = s
    BY EmptySeq, ConcatEmptySeq
  <2> QED BY <2>1, ScanFirst
<1>2. ASSUME NEW u \in Seq(Symbols), NEW c \in Symbols, u \in T PROVE Append(u, c) \in T
  <2>0. PICK h : h = Scan(k, s)
    OBVIOUS
  <2>1. PICK r, w, v : r = Append(u, c) /\ w = s \o u /\ v = s \o r
    OBVIOUS
  <2>2. r \in Seq(Symbols)
    BY <2>1, AppendProperties
  <2>3. w \in Seq(Symbols) /\ v = Append(w, c)
    BY <2>1, AppendAfter
  <2>4. Scan(k, v) = Feed(Scan(k, w), c)
    <3>1. IsNext(v, w, c)
      BY <2>3 DEF IsNext
    <3> QED BY <3>1, ScanNext
  <2>5. Scan(h, r) = Feed(Scan(h, u), c)
    BY ZenonT(40), <2>1, ScanMore
  <2>6. Scan(k, w) = Scan(h, u)
    BY <1>2, <2>0, <2>1
  <2> QED BY <2>0, <2>1, <2>2, <2>4, <2>5, <2>6
<1>3. Seq(Symbols) \subseteq T
  <2>. HIDE DEF T
  <2> QED BY <1>1, <1>2, SequencesUpTo
<1> QED BY <1>3

LEMMA NoNLMore ==
    ASSUME NEW u \in Seq(Symbols), NEW c \in Symbols, NEW r, r = Append(u, c), NoNL(r)
    PROVE  NoNL(u) /\ c # NL
<1>1. Len(u) \in Nat /\ Len(r) = Len(u) + 1 /\ r[Len(u) + 1] = c
      /\ \A i \in 1 .. Len(u) : r[i] = u[i]
  BY AppendProperties
<1>2. Len(u) + 1 \in 1 .. Len(r) /\ \A i \in 1 .. Len(u) : i \in 1 .. Len(r)
  BY <1>1
<1> QED BY <1>1, <1>2 DEF NoNL

\* Within a line that is dropped.
LEMMA ScanSkip ==
    ASSUME NEW d, NEW s \in Seq(Symbols), NoNL(s)
    PROVE  Scan(K(d, <<>>, TRUE), s) = K(d, <<>>, TRUE)
<1>0. PICK k : k = K(d, <<>>, TRUE)
  OBVIOUS
<1>. DEFINE T == {u \in Seq(Symbols) : NoNL(u) => Scan(k, u) = k}
<1>1. <<>> \in T
  BY EmptySeq, ScanFirst
<1>2. ASSUME NEW u \in Seq(Symbols), NEW c \in Symbols, u \in T PROVE Append(u, c) \in T
  <2>1. PICK r : r = Append(u, c)
    OBVIOUS
  <2>2. r \in Seq(Symbols)
    BY <2>1, AppendProperties
  <2>3. ASSUME NoNL(r) PROVE Scan(k, r) = k
    <3>1. NoNL(u) /\ c # NL
      BY <2>1, <2>3, NoNLMore
    <3>2. Scan(k, r) = Feed(Scan(k, u), c)
      BY <2>1, ScanMore
    <3>3. Feed(k, c) = k
      BY <1>0, <3>1, FeedSkip
    <3> QED BY <1>2, <3>1, <3>2, <3>3
  <2> QED BY <2>1, <2>2, <2>3
<1>3. Seq(Symbols) \subseteq T
  <2>. HIDE DEF T
  <2> QED BY <1>1, <1>2, SequencesUpTo
<1> QED BY <1>0, <1>3

\* A line that fits with its newline, and one that does not, before the newline.
LEMMA ScanPart ==
    ASSUME NEW d, NEW s \in Seq(Symbols), NoNL(s)
    PROVE  Scan(K(d, <<>>, FALSE), s) = IF Len(s) < SIZE THEN K(d, s, FALSE) ELSE K(d, <<>>, TRUE)
<1>0. PICK k : k = K(d, <<>>, FALSE)
  OBVIOUS
<1>00. SIZE \in Nat \ {0}
  BY InputAssumption
<1>. DEFINE Is(u) == Scan(k, u) = IF Len(u) < SIZE THEN K(d, u, FALSE) ELSE K(d, <<>>, TRUE)
            T == {u \in Seq(Symbols) : NoNL(u) => Is(u)}
<1>1. <<>> \in T
  <2>1. PICK e : e = <<>>
    OBVIOUS
  <2>2. e \in Seq(Symbols) /\ Len(e) = 0
    BY <2>1, EmptySeq
  <2>3. Scan(k, e) = K(d, e, FALSE)
    BY <1>0, <2>1, ScanFirst
  <2>4. Len(e) < SIZE
    BY <1>00, <2>2
  <2>5. Is(e)
    BY <2>3, <2>4
  <2>. HIDE DEF Is
  <2> QED BY <2>1, <2>2, <2>5
<1>2. ASSUME NEW u \in Seq(Symbols), NEW c \in Symbols, u \in T PROVE Append(u, c) \in T
  <2>1. PICK r : r = Append(u, c)
    OBVIOUS
  <2>2. r \in Seq(Symbols) /\ Len(r) = Len(u) + 1 /\ Len(u) \in Nat
    BY <2>1, AppendProperties
  <2>3. ASSUME NoNL(r) PROVE Is(r)
    <3>1. NoNL(u) /\ c # NL
      BY <2>1, <2>3, NoNLMore
    <3>2. Scan(k, r) = Feed(Scan(k, u), c)
      BY <2>1, ScanMore
    <3>3. Is(u)
      BY <1>2, <3>1
    <3>4. CASE Len(u) < SIZE - 1
      <4>1. Len(u) < SIZE /\ Len(u) # SIZE - 1 /\ Len(r) < SIZE
        BY <1>00, <2>2, <3>4
      <4>2. Feed(K(d, u, FALSE), c) = K(d, r, FALSE)
        BY <2>1, <3>1, <4>1, FeedChar
      <4> QED BY <3>2, <3>3, <4>1, <4>2
    <3>5. CASE Len(u) = SIZE - 1
      <4>1. Len(u) < SIZE /\ ~ (Len(r) < SIZE)
        BY <1>00, <2>2, <3>5
      <4>2. Feed(K(d, u, FALSE), c) = K(d, <<>>, TRUE)
        BY <3>1, <3>5, FeedFull
      <4> QED BY <3>2, <3>3, <4>1, <4>2
    <3>6. CASE Len(u) > SIZE - 1
      <4>1. ~ (Len(u) < SIZE) /\ ~ (Len(r) < SIZE)
        BY <1>00, <2>2, <3>6
      <4>2. Feed(K(d, <<>>, TRUE), c) = K(d, <<>>, TRUE)
        BY <3>1, FeedSkip
      <4> QED BY <3>2, <3>3, <4>1, <4>2
    <3>7. Len(u) < SIZE - 1 \/ Len(u) = SIZE - 1 \/ Len(u) > SIZE - 1
      BY <1>00, <2>2
    <3>. HIDE DEF Is
    <3> QED BY <3>4, <3>5, <3>6, <3>7
  <2> QED BY <2>1, <2>2, <2>3
<1>3. Seq(Symbols) \subseteq T
  <2>. HIDE DEF T
  <2> QED BY <1>1, <1>2, SequencesUpTo
<1>4. Is(s)
  BY <1>3
<1> QED BY <1>0, <1>4

\* A whole line.
IsLine(s, l) ==
    /\ s \in Seq(Symbols) /\ NoNL(s) /\ l = Append(s, NL)
Noted(d, s, k) == IF ~ k /\ Len(s) < SIZE THEN Append(d, s) ELSE d

LEMMA ScanLine ==
    ASSUME NEW d, NEW s, NEW r, IsLine(s, r), NEW k \in BOOLEAN
    PROVE  Scan(K(d, <<>>, k), r) = K(Noted(d, s, k), <<>>, FALSE)
<1>0. s \in Seq(Symbols) /\ NoNL(s) /\ r = Append(s, NL)
  BY DEF IsLine
<1>. USE <1>0
<1>1. NL \in Symbols
  BY SymbolsAssumption
<1>3. Scan(K(d, <<>>, k), r) = Feed(Scan(K(d, <<>>, k), s), NL)
  BY ZenonT(40), <1>1, ScanMore
<1>7. Scan(K(d, <<>>, k), r)
          = IF ~ k /\ Len(s) < SIZE THEN K(Append(d, s), <<>>, FALSE) ELSE K(d, <<>>, FALSE)
  <2>4. CASE k
    <3>1. Scan(K(d, <<>>, TRUE), s) = K(d, <<>>, TRUE)
      BY ScanSkip
    <3>2. Feed(K(d, <<>>, TRUE), NL) = K(d, <<>>, FALSE)
      BY FeedNL
    <3> QED BY <1>3, <2>4, <3>1, <3>2
  <2>5. CASE ~ k /\ Len(s) < SIZE
    <3>1. Scan(K(d, <<>>, FALSE), s) = K(d, s, FALSE)
      BY <2>5, ScanPart
    <3>2. Feed(K(d, s, FALSE), NL) = K(Append(d, s), <<>>, FALSE)
      BY FeedNL
    <3> QED BY <1>3, <2>5, <3>1, <3>2
  <2>6. CASE ~ k /\ ~ (Len(s) < SIZE)
    <3>1. Scan(K(d, <<>>, FALSE), s) = K(d, <<>>, TRUE)
      BY <2>6, ScanPart
    <3>2. Feed(K(d, <<>>, TRUE), NL) = K(d, <<>>, FALSE)
      BY FeedNL
    <3> QED BY <1>3, <2>6, <3>1, <3>2
  <2> QED BY <2>4, <2>5, <2>6
<1> QED BY <1>7 DEF Noted

\* The lines that are known already stay, before the others.
Extends(h, g, a) ==
    \E e \in Seq(Seq(Symbols)), q \in Seq(Symbols), j \in BOOLEAN :
        a = K(e, q, j) /\ h = K(g \o e, q, j)

LEMMA FeedExtends ==
    ASSUME NEW h, NEW g \in Seq(Seq(Symbols)), NEW a, Extends(h, g, a), NEW c \in Symbols
    PROVE  Extends(Feed(h, c), g, Feed(a, c))
<1>1. PICK e \in Seq(Seq(Symbols)), q \in Seq(Symbols), j \in BOOLEAN :
          a = K(e, q, j) /\ h = K(g \o e, q, j)
  BY DEF Extends
<1>2. PICK n : n = <<>>
  OBVIOUS
<1>3. n \in Seq(Symbols)
  BY <1>2, EmptySeq
<1>4. PICK d : d = g \o e
  OBVIOUS
<1>5. CASE c = NL /\ j
  <2>1. Feed(a, c) = K(e, n, FALSE) /\ Feed(h, c) = K(d, n, FALSE)
    BY <1>1, <1>2, <1>4, <1>5, FeedNL
  <2> QED BY <1>3, <1>4, <2>1 DEF Extends
<1>6. CASE c = NL /\ ~ j
  <2>1. PICK f : f = Append(e, q)
    OBVIOUS
  <2>2. f \in Seq(Seq(Symbols)) /\ Append(d, q) = g \o f
    <3>1. f \in Seq(Seq(Symbols))
      BY <2>1, AppendProperties
    <3>2. PICK x : x = g \o f
      OBVIOUS
    <3>3. x = Append(d, q)
      BY <1>4, <2>1, <3>2, AppendAfter
    <3> QED BY <3>1, <3>2, <3>3
  <2>3. Feed(a, c) = K(f, n, FALSE) /\ Feed(h, c) = K(Append(d, q), n, FALSE)
    BY <1>1, <1>2, <1>4, <1>6, <2>1, FeedNL
  <2> QED BY <1>3, <2>2, <2>3 DEF Extends
<1>7. CASE c # NL /\ j
  <2>1. Feed(a, c) = K(e, n, TRUE) /\ Feed(h, c) = K(d, n, TRUE)
    BY <1>1, <1>2, <1>4, <1>7, FeedSkip
  <2> QED BY <1>3, <1>4, <2>1 DEF Extends
<1>8. CASE c # NL /\ ~ j /\ Len(q) = SIZE - 1
  <2>0. Feed(K(e, q, FALSE), c) = K(e, <<>>, TRUE) /\ Feed(K(d, q, FALSE), c) = K(d, <<>>, TRUE)
    BY <1>8, FeedFull, Zenon
  <2>1. Feed(a, c) = K(e, n, TRUE) /\ Feed(h, c) = K(d, n, TRUE)
    BY <1>1, <1>2, <1>4, <1>8, <2>0
  <2> QED BY <1>3, <1>4, <2>1 DEF Extends
<1>9. CASE c # NL /\ ~ j /\ Len(q) # SIZE - 1
  <2>1. PICK x : x = Append(q, c)
    OBVIOUS
  <2>2. x \in Seq(Symbols)
    BY <2>1, AppendProperties
  <2>3. Feed(a, c) = K(e, x, FALSE) /\ Feed(h, c) = K(d, x, FALSE)
    BY <1>1, <1>4, <1>9, <2>1, FeedChar
  <2> QED BY <1>4, <2>2, <2>3 DEF Extends
<1> QED BY <1>5, <1>6, <1>7, <1>8, <1>9

LEMMA ScanExtends ==
    ASSUME NEW h, NEW g \in Seq(Seq(Symbols)), NEW a, Extends(h, g, a), NEW s \in Seq(Symbols)
    PROVE  Extends(Scan(h, s), g, Scan(a, s))
<1>. DEFINE T == {u \in Seq(Symbols) : Extends(Scan(h, u), g, Scan(a, u))}
<1>1. <<>> \in T
  BY EmptySeq, ScanFirst
<1>2. ASSUME NEW u \in Seq(Symbols), NEW c \in Symbols, u \in T PROVE Append(u, c) \in T
  <2>1. PICK r : r = Append(u, c)
    OBVIOUS
  <2>2. r \in Seq(Symbols)
    BY <2>1, AppendProperties
  <2>3. Scan(h, r) = Feed(Scan(h, u), c) /\ Scan(a, r) = Feed(Scan(a, u), c)
    BY ZenonT(40), <2>1, ScanMore
  <2>4. Extends(Feed(Scan(h, u), c), g, Feed(Scan(a, u), c))
    BY <1>2, FeedExtends
  <2> QED BY <2>1, <2>2, <2>3, <2>4
<1>3. Seq(Symbols) \subseteq T
  <2>. HIDE DEF T
  <2> QED BY <1>1, <1>2, SequencesUpTo
<1> QED BY <1>3

LEMMA ExtendsFirst ==
    ASSUME NEW g \in Seq(Seq(Symbols)), NEW k \in BOOLEAN
    PROVE  Extends(K(g, <<>>, k), g, K(<<>>, <<>>, k))
<1>1. PICK e, n : e = <<>> /\ n = <<>>
  OBVIOUS
<1>2. e \in Seq(Seq(Symbols)) /\ n \in Seq(Symbols) /\ g \o e = g
  BY <1>1, EmptySeq, ConcatEmptySeq
<1>3. Extends(K(g, n, k), g, K(e, n, k))
  BY <1>2 DEF Extends
<1> QED BY <1>1, <1>3

-----------------------------------------------------------------------------
(* The buffer.                                                             *)

\* Facts on sequences, for strings.
Joins(r, s, t) ==
    /\ r \in Seq(Symbols) /\ Len(r) = Len(s) + Len(t)
    /\ \A i \in 1 .. Len(s) : r[i] = s[i]
    /\ \A i \in 1 .. Len(t) : r[Len(s) + i] = t[i]

LEMMA Joined ==
    ASSUME NEW s \in Seq(Symbols), NEW t \in Seq(Symbols), NEW r, r = s \o t
    PROVE  Joins(r, s, t)
BY Concatenation DEF Joins

LEMMA SameText ==
    ASSUME NEW s \in Seq(Symbols), NEW t \in Seq(Symbols), Len(s) = Len(t),
           \A i \in 1 .. Len(s) : s[i] = t[i]
    PROVE  s = t
BY SameSeq

LEMMA OneMore ==
    ASSUME NEW s \in Seq(Symbols), NEW c \in Symbols, NEW r, r = Append(s, c)
    PROVE  /\ r \in Seq(Symbols) /\ Len(r) = Len(s) + 1 /\ r[Len(s) + 1] = c
           /\ (\A i \in 1 .. Len(s) : r[i] = s[i]) /\ r = s \o <<c>>
BY AppendProperties, AppendIsConcat

\* x is a line s, its end c, and the rest.
Ended(x, s, c, t) ==
    /\ x \in Seq(Symbols) /\ Len(x) = Len(s) + 1 + Len(t)
    /\ \A i \in 1 .. Len(s) : x[i] = s[i]
    /\ x[Len(s) + 1] = c
    /\ \A i \in 1 .. Len(t) : x[Len(s) + 1 + i] = t[i]

LEMMA ThreeParts ==
    ASSUME NEW s \in Seq(Symbols), NEW c \in Symbols, NEW t \in Seq(Symbols),
           NEW r, r = Append(s, c), NEW x, x = r \o t
    PROVE  Ended(x, s, c, t)
<1>2. /\ r \in Seq(Symbols) /\ Len(r) = Len(s) + 1 /\ r[Len(s) + 1] = c
      /\ \A i \in 1 .. Len(s) : r[i] = s[i]
  BY OneMore
<1>3. r \in Seq(Symbols)
  BY <1>2
<1>4. /\ x \in Seq(Symbols) /\ Len(x) = Len(r) + Len(t)
      /\ \A i \in 1 .. Len(r) : x[i] = r[i]
      /\ \A i \in 1 .. Len(t) : x[Len(r) + i] = t[i]
  <2>1. Joins(x, r, t)
    BY <1>3, Joined
  <2> QED BY <2>1 DEF Joins
<1>5. Len(s) \in Nat /\ Len(r) \in Nat
  BY <1>2
<1>6. Len(s) + 1 \in 1 .. Len(r) /\ \A i \in 1 .. Len(s) : i \in 1 .. Len(r)
  BY <1>2, <1>5
<1>7. (\A i \in 1 .. Len(s) : x[i] = s[i]) /\ x[Len(s) + 1] = c
  BY <1>2, <1>4, <1>6
<1>8. (\A i \in 1 .. Len(t) : x[Len(s) + 1 + i] = t[i]) /\ Len(x) = Len(s) + 1 + Len(t)
  BY <1>2, <1>4
<1> QED BY <1>4, <1>7, <1>8 DEF Ended

Bytes == Symbols \cup {NUL}
Clean(b, n) == \A i \in 1 .. n : b[i] # NUL
Buffers == {b \in Seq(Bytes) : Len(b) = SIZE}

\* The first newline, if no NUL is before it.
LEMMA NewlineIs ==
    ASSUME NEW b \in Buffers
    PROVE  /\ Newline(b) \in 0 .. SIZE
           /\ Newline(b) # 0 => /\ b[Newline(b)] = NL
                                /\ \A j \in 1 .. Newline(b) - 1 : b[j] \notin {NL, NUL}
           /\ Newline(b) = 0 => \A i \in 1 .. SIZE : b[i] = NL => \E j \in 1 .. i - 1 : b[j] = NUL
<1>0. SIZE \in Nat /\ b \in Seq(Bytes) /\ Len(b) = SIZE /\ NL # NUL
  BY InputAssumption, SymbolsAssumption DEF Buffers
<1>. DEFINE I == {i \in 1 .. Len(b) : b[i] \in {NL, NUL}}
<1>1. PICK x : x = SelectInSeq(b, LAMBDA c : c \in {NL, NUL})
  OBVIOUS
<1>2. CASE I = {}
  <2>1. x = 0
    BY <1>1, <1>2 DEF SelectInSeq
  <2>2. Newline(b) = 0
    BY <1>1, <2>1 DEF Newline
  <2>3. \A i \in 1 .. SIZE : b[i] # NL
    BY <1>0, <1>2
  <2> QED BY <1>0, <2>2, <2>3
<1>3. CASE I # {}
  <2>1. PICK m \in I : \A y \in I : m <= y
    <3>1. I \in SUBSET Nat
      OBVIOUS
    <3>. HIDE DEF I
    <3> QED BY <1>3, <3>1, LeastNumber
  <2>2. x \in I /\ \A y \in I : x <= y
    <3>1. x = Min(I)
      BY <1>1, <1>3 DEF SelectInSeq
    <3>2. \E z \in I : \A y \in I : z <= y
      BY <2>1
    <3>. HIDE DEF I
    <3> QED BY <3>1, <3>2 DEF Min
  <2>3. x \in 1 .. SIZE /\ b[x] \in {NL, NUL}
    BY <1>0, <2>2
  <2>4. \A j \in 1 .. x - 1 : b[j] \notin {NL, NUL}
    <3>1. ASSUME NEW j \in 1 .. x - 1, b[j] \in {NL, NUL} PROVE FALSE
      <4>1. j \in I /\ ~ (x <= j)
        BY <1>0, <2>3, <3>1
      <4> QED BY <2>2, <4>1
    <3> QED BY <3>1
  <2>5. CASE b[x] = NL
    <3>1. Newline(b) = x
      BY <1>1, <2>3, <2>5 DEF Newline
    <3> QED BY <1>0, <2>3, <2>4, <2>5, <3>1
  <2>6. CASE b[x] = NUL
    <3>1. Newline(b) = 0
      BY <1>0, <1>1, <2>6 DEF Newline
    <3>2. ASSUME NEW i \in 1 .. SIZE, b[i] = NL PROVE \E j \in 1 .. i - 1 : b[j] = NUL
      <4>1. i \in I /\ i # x
        BY <1>0, <2>6, <3>2
      <4>2. x <= i
        BY <2>2, <4>1
      <4>3. x \in 1 .. i - 1
        BY <2>3, <3>2, <4>1, <4>2
      <4> QED BY <2>6, <4>3
    <3> QED BY <1>0, <3>1, <3>2
  <2> QED BY <2>3, <2>5, <2>6
<1> QED BY <1>2, <1>3

\* A state of the buffer: in overflow mode there is nothing in it.
BufferOK(b, n, o) ==
    /\ b \in Buffers /\ n \in 0 .. SIZE /\ o \in BOOLEAN
    /\ Clean(b, n) /\ (o => n = 0)

\* What is in it.
LEMMA ContentIs ==
    ASSUME NEW b \in Buffers, NEW n \in 0 .. SIZE, Clean(b, n)
    PROVE  /\ SubSeq(b, 1, n) \in Seq(Symbols) /\ Len(SubSeq(b, 1, n)) = n
           /\ \A i \in 1 .. n : SubSeq(b, 1, n)[i] = b[i]
<1>0. SIZE \in Nat /\ b \in Seq(Bytes) /\ Len(b) = SIZE
  BY InputAssumption DEF Buffers
<1>00. \A i \in 1 .. n : b[i] # NUL
  BY DEF Clean
<1>1. PICK s : s = SubSeq(b, 1, n)
  OBVIOUS
<1>2. s \in Seq(Bytes) /\ Len(s) = n /\ \A i \in 1 .. n : s[i] = b[i]
  <2>1. 1 \in 1 .. Len(b) + 1 /\ n \in 1 - 1 .. Len(b) /\ n - 1 + 1 = n
        /\ \A i \in 1 .. n : 1 + i - 1 = i
    BY <1>0
  <2>2. /\ s \in Seq(Bytes) /\ Len(s) = n - 1 + 1
        /\ \A i \in 1 .. n - 1 + 1 : s[i] = b[1 + i - 1]
    BY <1>0, <1>1, <2>1, Part
  <2> QED BY <2>1, <2>2
<1>3. \A i \in 1 .. n : s[i] \in Symbols
  <2>1. ASSUME NEW i \in 1 .. n PROVE s[i] \in Symbols
    <3>1. s[i] \in Bytes
      BY <1>2, ElementOfSeq
    <3> QED BY <1>00, <1>2, <3>1 DEF Bytes
  <2> QED BY <2>1
<1>4. s \in Seq(Symbols)
  <2>1. s = [i \in 1 .. n |-> s[i]]
    BY <1>2
  <2>2. n \in Nat
    BY <1>0
  <2>3. [i \in 1 .. n |-> s[i]] \in Seq(Symbols)
    BY <1>3, <2>2, IsASeq
  <2> QED BY <2>1, <2>3
<1> QED BY <1>1, <1>2, <1>4

-----------------------------------------------------------------------------
(* What vchannel_read does with the buffer.                                *)

\* What is in the buffer and on the wire, and what a reader will know of it
\* who has had the lines g.
Stream(b, n, w) == SubSeq(b, 1, n) \o w
Ahead(g, b, n, o, w) == Scan(K(g, <<>>, o), Stream(b, n, w))

\* q begins with the m elements of b that are behind the k-th.
Follows(q, m, b, k) == \A i \in 1 .. m : q[i] = b[k + i]

\* The buffer after n symbols of the wire w have come behind the first z ones.
Put(b, z, w, n) == [i \in 1 .. SIZE |-> IF i \in z + 1 .. z + n THEN w[i - z] ELSE b[i]]

LEMMA BufferIs ==
    ASSUME NEW b, b \in [1 .. SIZE -> Bytes]
    PROVE  b \in Buffers
<1>1. SIZE \in Nat
  BY InputAssumption
<1>2. b \in Seq(Bytes) /\ Len(b) = SIZE
  BY <1>1
<1> QED BY <1>2 DEF Buffers

LEMMA BufferHas ==
    ASSUME NEW b \in Buffers
    PROVE  /\ SIZE \in Nat \ {0} /\ b \in Seq(Bytes) /\ Len(b) = SIZE /\ DOMAIN b = 1 .. SIZE
           /\ \A i \in 1 .. SIZE : b[i] \in Bytes
<1>1. SIZE \in Nat \ {0} /\ b \in Seq(Bytes) /\ Len(b) = SIZE
  BY InputAssumption DEF Buffers
<1>2. DOMAIN b = 1 .. SIZE
  BY <1>1
<1>3. \A i \in 1 .. SIZE : b[i] \in Bytes
  BY <1>1, ElementOfSeq
<1> QED BY <1>1, <1>2, <1>3

LEMMA PutIs ==
    ASSUME NEW b \in Buffers, NEW z \in 0 .. SIZE, Clean(b, z),
           NEW w \in Seq(Symbols), NEW n \in 0 .. SIZE - z, n <= Len(w),
           NEW p, p = Put(b, z, w, n)
    PROVE  /\ p \in Buffers
           /\ \A i \in 1 .. z : p[i] = b[i]
           /\ \A i \in 1 .. n : p[z + i] = w[i]
           /\ Clean(p, z + n)
<1>00. \A i \in 1 .. z : b[i] # NUL
  BY DEF Clean
<1>0. /\ SIZE \in Nat \ {0} /\ (\A i \in 1 .. SIZE : b[i] \in Bytes) /\ Len(w) \in Nat
      /\ (\A i \in 1 .. Len(w) : w[i] \in Symbols) /\ NUL \notin Symbols
  <2>1. SIZE \in Nat \ {0} /\ (\A i \in 1 .. SIZE : b[i] \in Bytes)
    BY BufferHas
  <2>2. Len(w) \in Nat /\ (\A i \in 1 .. Len(w) : w[i] \in Symbols)
    BY ElementOfSeq
  <2>3. NUL \notin Symbols
    BY InputAssumption
  <2> QED BY <2>1, <2>2, <2>3
<1>1. \A i \in 1 .. SIZE : p[i] = IF i \in z + 1 .. z + n THEN w[i - z] ELSE b[i]
  BY DEF Put
<1>2. \A i \in 1 .. z : p[i] = b[i]
  <2>1. \A i \in 1 .. z : i \in 1 .. SIZE /\ i \notin z + 1 .. z + n
    BY <1>0
  <2> QED BY <1>1, <2>1
<1>3. ASSUME NEW i \in 1 .. n PROVE p[z + i] = w[i] /\ w[i] \in Symbols
  <2>1. z + i \in 1 .. SIZE /\ z + i \in z + 1 .. z + n /\ (z + i) - z = i /\ i \in 1 .. Len(w)
    BY <1>0
  <2>2. p[z + i] = w[(z + i) - z]
    BY <1>1, <2>1
  <2> QED BY <1>0, <2>1, <2>2
<1>4. ASSUME NEW i \in 1 .. SIZE PROVE p[i] \in Bytes
  <2>1. CASE i \in z + 1 .. z + n
    <3>1. i - z \in 1 .. n /\ z + (i - z) = i
      BY <1>0, <2>1
    <3>2. p[z + (i - z)] = w[i - z] /\ w[i - z] \in Symbols
      BY <1>3, <3>1
    <3> QED BY <3>1, <3>2 DEF Bytes
  <2>2. CASE i \notin z + 1 .. z + n
    BY <1>0, <1>1, <2>2
  <2> QED BY <2>1, <2>2
<1>5. p \in [1 .. SIZE -> Bytes]
  <2>1. p = [i \in 1 .. SIZE |-> p[i]]
    BY DEF Put
  <2> QED BY <1>4, <2>1
<1>6. p \in Buffers
  BY <1>5, BufferIs
<1>7. ASSUME NEW i \in 1 .. z + n PROVE p[i] # NUL
  <2>1. CASE i \in 1 .. z
    BY <1>00, <1>2, <2>1
  <2>2. CASE i \notin 1 .. z
    <3>1. i - z \in 1 .. n /\ z + (i - z) = i
      BY <1>0, <2>2
    <3>2. p[z + (i - z)] = w[i - z] /\ w[i - z] \in Symbols
      BY <1>3, <3>1
    <3> QED BY <1>0, <3>1, <3>2
  <2> QED BY <2>1, <2>2
<1> QED BY <1>2, <1>3, <1>6, <1>7 DEF Clean

\* The buffer b with z symbols gets the first n of w, and there are zn then;
\* v is left of w.  Nothing is lost on the way.
IsPut(p, b, z, w, n, zn, v) ==
    /\ b \in Buffers /\ z \in 0 .. SIZE /\ Clean(b, z)
    /\ w \in Seq(Symbols) /\ n \in 0 .. SIZE - z /\ n <= Len(w)
    /\ p = Put(b, z, w, n) /\ zn = z + n /\ v = SubSeq(w, n + 1, Len(w))
Arrived(p, b, z, w, zn, v) ==
    /\ p \in Buffers /\ Clean(p, zn) /\ zn \in 0 .. SIZE
    /\ v \in Seq(Symbols) /\ Stream(p, zn, v) = Stream(b, z, w)

LEMMA PutKeeps ==
    ASSUME NEW p, NEW b, NEW z, NEW w, NEW n, NEW zn, NEW v, IsPut(p, b, z, w, n, zn, v)
    PROVE  Arrived(p, b, z, w, zn, v)
<1>a. /\ b \in Buffers /\ z \in 0 .. SIZE /\ Clean(b, z)
      /\ w \in Seq(Symbols) /\ n \in 0 .. SIZE - z /\ n <= Len(w)
      /\ p = Put(b, z, w, n)
  BY DEF IsPut
<1>b. zn = z + n /\ v = SubSeq(w, n + 1, Len(w))
  BY DEF IsPut
<1>. USE <1>a
<1>0. /\ p \in Buffers
      /\ \A i \in 1 .. z : p[i] = b[i]
      /\ \A i \in 1 .. n : p[z + i] = w[i]
      /\ Clean(p, z + n)
  BY PutIs
<1>1. SIZE \in Nat /\ Len(w) \in Nat /\ n \in 0 .. Len(w) /\ z + n \in 0 .. SIZE /\ z + n \in Nat
  BY BufferHas
<1>2. /\ v \in Seq(Symbols) /\ Len(v) = Len(w) - n
      /\ \A i \in 1 .. Len(w) - n : v[i] = w[n + i]
  <2>1. n + 1 \in 1 .. Len(w) + 1 /\ Len(w) \in (n + 1) - 1 .. Len(w)
        /\ Len(w) - (n + 1) + 1 = Len(w) - n
        /\ \A i \in 1 .. Len(w) - n : (n + 1) + i - 1 = n + i
    BY <1>1
  <2>2. /\ v \in Seq(Symbols) /\ Len(v) = Len(w) - (n + 1) + 1
        /\ \A i \in 1 .. Len(w) - (n + 1) + 1 : v[i] = w[(n + 1) + i - 1]
    BY ZenonT(40), <2>1, <1>b, Part
  <2> QED BY <2>1, <2>2
<1>3. PICK c, d : c = SubSeq(p, 1, z + n) /\ d = SubSeq(b, 1, z)
  OBVIOUS
<1>4. c \in Seq(Symbols) /\ Len(c) = z + n /\ \A i \in 1 .. z + n : c[i] = p[i]
  BY <1>0, <1>1, <1>3, ContentIs
<1>5. d \in Seq(Symbols) /\ Len(d) = z /\ \A i \in 1 .. z : d[i] = b[i]
  BY <1>3, ContentIs
<1>6. PICK x, y : x = c \o v /\ y = d \o w
  OBVIOUS
<1>7. /\ x \in Seq(Symbols) /\ Len(x) = Len(c) + Len(v)
      /\ \A i \in 1 .. Len(c) : x[i] = c[i]
      /\ \A i \in 1 .. Len(v) : x[Len(c) + i] = v[i]
  <2>1. c \in Seq(Symbols) /\ v \in Seq(Symbols) /\ x = c \o v
    BY <1>2, <1>4, <1>6
  <2>2. Joins(x, c, v)
    BY <2>1, Joined
  <2> QED BY <2>2 DEF Joins
<1>8. /\ y \in Seq(Symbols) /\ Len(y) = Len(d) + Len(w)
      /\ \A i \in 1 .. Len(d) : y[i] = d[i]
      /\ \A i \in 1 .. Len(w) : y[Len(d) + i] = w[i]
  <2>1. d \in Seq(Symbols) /\ y = d \o w
    BY <1>5, <1>6
  <2>2. Joins(y, d, w)
    BY <2>1, Joined
  <2> QED BY <2>2 DEF Joins
<1>9. Len(x) = z + Len(w) /\ Len(y) = z + Len(w)
  BY <1>1, <1>2, <1>4, <1>5, <1>7, <1>8
<1>10. ASSUME NEW i \in 1 .. Len(x) PROVE x[i] = y[i]
  <2>1. CASE i \in 1 .. z
    <3>1. i \in 1 .. z + n
      BY <1>1, <2>1
    <3>2. x[i] = p[i]
      BY <3>1, <1>4, <1>7
    <3>3. y[i] = b[i]
      BY <2>1, <1>5, <1>8
    <3> QED BY <2>1, <3>2, <3>3, <1>0
  <2>2. CASE i \in z + 1 .. z + n
    <3>1. i - z \in 1 .. n /\ z + (i - z) = i /\ i - z \in 1 .. Len(w) /\ i \in 1 .. z + n
      BY <1>1, <2>2
    <3>2. p[z + (i - z)] = w[i - z] /\ y[z + (i - z)] = w[i - z]
      BY <3>1, <1>0, <1>5, <1>8
    <3> QED BY <3>1, <3>2, <1>4, <1>7
  <2>3. CASE i \in z + n + 1 .. z + Len(w)
    <3>1. i - (z + n) \in 1 .. Len(w) - n /\ (z + n) + (i - (z + n)) = i
          /\ i - z \in 1 .. Len(w) /\ z + (i - z) = i /\ n + (i - (z + n)) = i - z
      BY <1>1, <2>3
    <3>2. x[(z + n) + (i - (z + n))] = v[i - (z + n)]
      BY <3>1, <1>2, <1>4, <1>7
    <3>3. v[i - (z + n)] = w[n + (i - (z + n))]
      BY <3>1, <1>2
    <3>4. y[z + (i - z)] = w[i - z]
      BY <3>1, <1>5, <1>8
    <3> QED BY <3>1, <3>2, <3>3, <3>4
  <2>4. i \in 1 .. z \/ i \in z + 1 .. z + n \/ i \in z + n + 1 .. z + Len(w)
    BY <1>1, <1>9
  <2> QED BY <2>1, <2>2, <2>3, <2>4
<1>11. x = y
  <2>1. Len(x) = Len(y)
    BY <1>9
  <2> QED BY <1>7, <1>8, <1>10, <2>1, SameText
<1>12. Stream(p, z + n, v) = Stream(b, z, w)
  BY <1>3, <1>6, <1>11 DEF Stream
<1> QED BY <1>0, <1>1, <1>2, <1>12, <1>b DEF Arrived

LEMMA ShiftIs ==
    ASSUME NEW b \in Buffers, NEW k \in 1 .. SIZE, NEW m \in 0 .. SIZE - k,
           NEW p, p = Shifted(b, k, m)
    PROVE  p \in Buffers /\ Follows(p, m, b, k)
<1>0. SIZE \in Nat \ {0} /\ DOMAIN b = 1 .. SIZE /\ \A i \in 1 .. SIZE : b[i] \in Bytes
  BY BufferHas
<1>1. p = [i \in 1 .. SIZE |-> IF i <= m THEN b[k + i] ELSE b[i]]
  BY <1>0 DEF Shifted
<1>2. \A i \in 1 .. m : i \in 1 .. SIZE /\ i <= m /\ k + i \in 1 .. SIZE
  BY <1>0
<1>3. \A i \in 1 .. m : p[i] = b[k + i]
  BY <1>1, <1>2
<1>4. ASSUME NEW i \in 1 .. SIZE PROVE p[i] \in Bytes
  <2>1. CASE i <= m
    <3>1. i \in 1 .. m
      BY <1>0, <2>1
    <3> QED BY <1>0, <1>2, <1>3, <3>1
  <2>2. CASE ~ (i <= m)
    BY <1>0, <1>1, <2>2
  <2> QED BY <2>1, <2>2
<1>5. p \in [1 .. SIZE -> Bytes]
  <2>1. p = [i \in 1 .. SIZE |-> p[i]]
    BY <1>1
  <2> QED BY <1>4, <2>1
<1> QED BY <1>3, <1>5, BufferIs DEF Follows

\* A line is taken off the buffer; r is the rest, and the line is l with its
\* end.
HasEnd(b, n, k, line) ==
    /\ b \in Buffers /\ n \in 0 .. SIZE /\ Clean(b, n)
    /\ k = Newline(b) /\ k \in 1 .. n /\ line = SubSeq(b, 1, k - 1)
IsRest(r, m, n, b, k) ==
    /\ r \in Seq(Symbols) /\ Len(r) = m /\ m = n - k /\ Follows(r, m, b, k)
TakenOff(c, line, l, r) ==
    /\ line \in Seq(Symbols) /\ NoNL(line) /\ Len(line) < SIZE
    /\ l \in Seq(Symbols) /\ c = l \o r

LEMMA LineOff ==
    ASSUME NEW b, NEW n, NEW k, NEW line, HasEnd(b, n, k, line),
           NEW r, NEW m, IsRest(r, m, n, b, k), NEW l, l = Append(line, NL),
           NEW c, c = SubSeq(b, 1, n)
    PROVE  TakenOff(c, line, l, r)
<1>a. /\ b \in Buffers /\ n \in 0 .. SIZE /\ Clean(b, n)
      /\ k = Newline(b) /\ k \in 1 .. n /\ line = SubSeq(b, 1, k - 1)
  BY DEF HasEnd
<1>b. r \in Seq(Symbols) /\ Len(r) = n - k /\ Follows(r, n - k, b, k)
  BY DEF IsRest
<1>. USE <1>a, <1>b
<1>00. (\A i \in 1 .. n : b[i] # NUL) /\ (\A i \in 1 .. n - k : r[i] = b[k + i])
  BY DEF Clean, Follows
<1>0. SIZE \in Nat \ {0} /\ k \in Nat /\ n \in Nat /\ k - 1 \in 0 .. SIZE /\ NL \in Symbols
  <2>1. SIZE \in Nat \ {0}
    BY BufferHas
  <2>2. NL \in Symbols
    BY SymbolsAssumption
  <2> QED BY <2>1, <2>2
<1>1. b[k] = NL /\ \A j \in 1 .. k - 1 : b[j] \notin {NL, NUL}
  <2>1. k # 0
    BY <1>0
  <2> QED BY <2>1, NewlineIs
<1>2. line \in Seq(Symbols) /\ Len(line) = k - 1 /\ \A i \in 1 .. k - 1 : line[i] = b[i]
  <2>1. Clean(b, k - 1)
    BY <1>1 DEF Clean
  <2> QED BY <1>0, <2>1, ContentIs
<1>3. NoNL(line)
  BY <1>1, <1>2 DEF NoNL
<1>5. c \in Seq(Symbols) /\ Len(c) = n /\ \A i \in 1 .. n : c[i] = b[i]
  BY ContentIs
<1>12. PICK x : x = l \o r
  OBVIOUS
<1>13. l \in Seq(Symbols)
  BY <1>0, <1>2, AppendProperties
<1>7. /\ x \in Seq(Symbols) /\ Len(x) = Len(line) + 1 + Len(r)
      /\ (\A i \in 1 .. Len(line) : x[i] = line[i]) /\ x[Len(line) + 1] = NL
      /\ \A i \in 1 .. Len(r) : x[Len(line) + 1 + i] = r[i]
  <2>1. line \in Seq(Symbols) /\ NL \in Symbols
    BY <1>0, <1>2
  <2>2. Ended(x, line, NL, r)
    BY <1>12, <2>1, ThreeParts
  <2> QED BY <2>2 DEF Ended
<1>8. /\ Len(x) = n /\ (\A i \in 1 .. k - 1 : x[i] = line[i]) /\ x[k] = NL
      /\ \A i \in 1 .. n - k : x[k + i] = r[i]
  <2>1. Len(line) + 1 = k /\ k + (n - k) = n
    BY <1>0, <1>2
  <2> QED BY <1>2, <1>7, <2>1
<1>9. ASSUME NEW i \in 1 .. Len(c) PROVE c[i] = x[i]
  <2>1. CASE i \in 1 .. k - 1
    BY <2>1, <1>2, <1>5, <1>8
  <2>2. CASE i = k
    BY <2>2, <1>1, <1>5, <1>8
  <2>3. CASE i \in k + 1 .. n
    <3>1. i - k \in 1 .. n - k /\ k + (i - k) = i
      BY SMTT(30), <1>0, <2>3
    <3>2. x[k + (i - k)] = r[i - k] /\ r[i - k] = b[k + (i - k)]
      BY <3>1, <1>00, <1>8
    <3> QED BY <3>1, <3>2, <1>5
  <2>4. i \in 1 .. k - 1 \/ i = k \/ i \in k + 1 .. n
    BY <1>0, <1>5
  <2> QED BY <2>1, <2>2, <2>3, <2>4
<1>10. c = x
  <2>1. Len(x) = Len(c)
    BY <1>5, <1>8
  <2> QED BY <1>5, <1>7, <1>9, <2>1, SameText
<1>11. Len(line) < SIZE
  BY <1>0, <1>2
<1> QED BY <1>2, <1>3, <1>10, <1>11, <1>12, <1>13 DEF TakenOff

-----------------------------------------------------------------------------
(* One call of vchannel_read.                                              *)

Halves(c, l, r, v, y, x) ==
    /\ l \in Seq(Symbols) /\ r \in Seq(Symbols) /\ v \in Seq(Symbols)
    /\ c = l \o r /\ y = c \o v /\ x = r \o v

LEMMA ScanHalves ==
    ASSUME NEW k, NEW c, NEW l, NEW r, NEW v, NEW y, NEW x, Halves(c, l, r, v, y, x)
    PROVE  Scan(k, y) = Scan(Scan(k, l), x)
<1>0. /\ l \in Seq(Symbols) /\ r \in Seq(Symbols) /\ v \in Seq(Symbols)
      /\ c = l \o r /\ x = r \o v
  BY DEF Halves
<1>1. x \in Seq(Symbols) /\ c \o v = l \o x
  BY <1>0, StringEitherWay
<1>2. Scan(k, l \o x) = Scan(Scan(k, l), x)
  BY <1>0, <1>1, ScanConcat
<1>3. y = c \o v
  BY DEF Halves
<1> QED BY <1>1, <1>2, <1>3

LEMMA EmptyContent ==
    ASSUME NEW b \in Buffers
    PROVE  SubSeq(b, 1, 0) = <<>>
<1>1. 0 \in 0 .. SIZE
  BY BufferHas
<1>2. SubSeq(b, 1, 0) \in Seq(Symbols) /\ Len(SubSeq(b, 1, 0)) = 0
  <2>1. Clean(b, 0)
    BY DEF Clean
  <2> QED BY <1>1, <2>1, ContentIs
<1> QED BY <1>2, EmptySeq

\* In overflow mode, what is read without a newline is dropped.
NoNewLine(p, n) == Newline(p) = 0 \/ Newline(p) > n
SkipsOn(p, v, b, w) == \A g : Ahead(g, p, 0, TRUE, v) = Ahead(g, b, 0, TRUE, w)

LEMMA SkipOn ==
    ASSUME NEW b, NEW w, NEW n, NEW p, NEW v, IsPut(p, b, 0, w, n, n, v), NoNewLine(p, n)
    PROVE  SkipsOn(p, v, b, w)
<1>. SUFFICES ASSUME NEW g PROVE Ahead(g, p, 0, TRUE, v) = Ahead(g, b, 0, TRUE, w)
  BY DEF SkipsOn
<1>0. SIZE \in Nat /\ n \in Nat /\ n \in 0 .. SIZE
  <2>1. b \in Buffers /\ n \in 0 .. SIZE - 0
    BY DEF IsPut
  <2>2. SIZE \in Nat
    BY <2>1, BufferHas
  <2> QED BY <2>1, <2>2
<1>00. Arrived(p, b, 0, w, n, v)
  BY PutKeeps
<1>01. p \in Buffers /\ Clean(p, n)
  BY <1>00 DEF Arrived
<1>1. p \in Buffers /\ \A i \in 1 .. n : p[i] # NUL
  BY <1>01 DEF Clean
<1>2. PICK c : c = SubSeq(p, 1, n)
  OBVIOUS
<1>3. c \in Seq(Symbols) /\ Len(c) = n /\ \A i \in 1 .. n : c[i] = p[i]
  BY <1>0, <1>01, <1>2, ContentIs
<1>4. v \in Seq(Symbols) /\ c \o v = Stream(b, 0, w)
  <2>1. v \in Seq(Symbols) /\ Stream(p, n, v) = Stream(b, 0, w)
    BY <1>00 DEF Arrived
  <2>2. Stream(p, n, v) = c \o v
    BY <1>2 DEF Stream
  <2> QED BY <2>1, <2>2
<1>40. Newline(p) = 0 \/ Newline(p) > n
  BY DEF NoNewLine
<1>5. NoNL(c)
  <2>1. ASSUME NEW i \in 1 .. n, p[i] = NL PROVE FALSE
    <3>1. i \in 1 .. SIZE /\ \A j \in 1 .. i - 1 : j \in 1 .. n
      BY <1>0
    <3>2. CASE Newline(p) = 0
      <4>1. \E j \in 1 .. i - 1 : p[j] = NUL
        BY <1>1, <2>1, <3>1, <3>2, NewlineIs
      <4> QED BY <1>1, <3>1, <4>1
    <3>3. CASE Newline(p) # 0 /\ Newline(p) > n
      <4>1. PICK m : m = Newline(p)
        OBVIOUS
      <4>2. m \in 0 .. SIZE /\ \A j \in 1 .. m - 1 : p[j] \notin {NL, NUL}
        BY <1>1, <3>3, <4>1, NewlineIs
      <4>3. i \in 1 .. m - 1
        BY <1>0, <3>3, <4>1, <4>2
      <4> QED BY <2>1, <4>2, <4>3
    <3> QED BY <1>40, <3>2, <3>3
  <2> QED BY <1>3, <2>1 DEF NoNL
<1>6. PICK k : k = K(g, <<>>, TRUE)
  OBVIOUS
<1>7. Scan(k, c \o v) = Scan(Scan(k, c), v)
  BY <1>3, <1>4, ScanConcat
<1>8. Scan(k, c) = k
  BY <1>3, <1>5, <1>6, ScanSkip
<1>9. Ahead(g, b, 0, TRUE, w) = Scan(k, c \o v)
  BY <1>4, <1>6 DEF Ahead
<1>10. Stream(p, 0, v) = v
  <2>1. SubSeq(p, 1, 0) = <<>>
    BY <1>1, EmptyContent
  <2>2. <<>> \o v = v
    BY <1>4, ConcatEmptySeq
  <2> QED BY <2>1, <2>2 DEF Stream
<1>11. Ahead(g, p, 0, TRUE, v) = Scan(k, v)
  BY <1>6, <1>10 DEF Ahead
<1> QED BY <1>7, <1>8, <1>9, <1>11

\* A line is taken off, in overflow mode or not, and something is left behind
\* in a buffer q with m symbols.
IsLeft(q, m, n, b, k) == q \in Buffers /\ m = n - k /\ Follows(q, m, b, k)
Taken(line, q, m) ==
    /\ line \in Seq(Symbols) /\ NoNL(line) /\ Len(line) < SIZE
    /\ m \in 0 .. SIZE /\ m < SIZE /\ Clean(q, m)
Notes(line, b, n, o, q, m, v) ==
    \A g : Ahead(g, b, n, o, v) = Ahead(Noted(g, line, o), q, m, FALSE, v)

LEMMA LineTaken ==
    ASSUME NEW b, NEW n, NEW k, NEW line, HasEnd(b, n, k, line),
           NEW q, NEW m, IsLeft(q, m, n, b, k),
           NEW v \in Seq(Symbols), NEW o \in BOOLEAN
    PROVE  Taken(line, q, m) /\ Notes(line, b, n, o, q, m, v)
<1>. SUFFICES ASSUME NEW g
              PROVE  /\ Taken(line, q, m)
                     /\ Ahead(g, b, n, o, v) = Ahead(Noted(g, line, o), q, m, FALSE, v)
  BY DEF Notes
<1>a. b \in Buffers /\ n \in 0 .. SIZE /\ Clean(b, n) /\ k \in 1 .. n
  BY DEF HasEnd
<1>b. q \in Buffers /\ m = n - k /\ Follows(q, m, b, k)
  BY DEF IsLeft
<1>c. SIZE \in Nat
  BY <1>a, BufferHas
<1>0. k \in Nat /\ n \in Nat /\ m \in 0 .. SIZE /\ m < SIZE /\ \A i \in 1 .. m : k + i \in 1 .. n
  BY <1>a, <1>b, <1>c
<1>1. Clean(q, m)
  BY <1>a, <1>b, <1>0 DEF Clean, Follows
<1>2. PICK r, c, l : r = SubSeq(q, 1, m) /\ c = SubSeq(b, 1, n) /\ l = Append(line, NL)
  OBVIOUS
<1>3. r \in Seq(Symbols) /\ Len(r) = m /\ \A i \in 1 .. m : r[i] = q[i]
  BY <1>b, <1>0, <1>1, <1>2, ContentIs
<1>4. IsRest(r, m, n, b, k)
  BY <1>b, <1>3 DEF Follows, IsRest
<1>5. TakenOff(c, line, l, r)
  BY <1>2, <1>4, LineOff
<1>6. /\ line \in Seq(Symbols) /\ NoNL(line) /\ Len(line) < SIZE
      /\ l \in Seq(Symbols) /\ c = l \o r
  BY <1>5 DEF TakenOff
<1>8. PICK j, x, y : j = K(g, <<>>, o) /\ y = c \o v /\ x = r \o v
  OBVIOUS
<1>9. Scan(j, y) = Scan(Scan(j, l), x)
  <2>1. Halves(c, l, r, v, y, x)
    BY <1>3, <1>6, <1>8 DEF Halves
  <2> QED BY <2>1, ScanHalves
<1>10. Scan(j, l) = K(Noted(g, line, o), <<>>, FALSE)
  <2>1. IsLine(line, l)
    BY <1>2, <1>6 DEF IsLine
  <2>2. Scan(K(g, <<>>, o), l) = K(Noted(g, line, o), <<>>, FALSE)
    BY <2>1, ScanLine
  <2> QED BY <1>8, <2>2
<1>11. Ahead(g, b, n, o, v) = Scan(j, y)
  BY <1>2, <1>8 DEF Ahead, Stream
<1>12. PICK h : h = Noted(g, line, o)
  OBVIOUS
<1>13. Ahead(h, q, m, FALSE, v) = Scan(K(h, <<>>, FALSE), x)
  BY <1>2, <1>8 DEF Ahead, Stream
<1>14. Taken(line, q, m)
  BY <1>0, <1>1, <1>6 DEF Taken
<1> QED BY <1>9, <1>10, <1>11, <1>12, <1>13, <1>14

\* What is read goes into the buffer, or is dropped as it must be.
StateOK(s) == s = [b |-> s.b, size |-> s.size, overflow |-> s.overflow]
FilledOK(s, v, g) ==
    /\ v \in Seq(Symbols) /\ StateOK(s) /\ BufferOK(s.b, s.size, s.overflow)
    /\ Ahead(g, s.b, s.size, s.overflow, v) = Ahead(g, buffer, size, overflow_mode, wire)

LEMMA FilledKeeps ==
    ASSUME BufferOK(buffer, size, overflow_mode), size < SIZE, wire \in Seq(Symbols),
           NEW n \in ReadSizes, NEW s, s = Filled(n), NEW g,
           NEW v, v = SubSeq(wire, n + 1, Len(wire))
    PROVE  FilledOK(s, v, g)
<1>0. /\ buffer \in Buffers /\ size \in 0 .. SIZE /\ overflow_mode \in BOOLEAN
      /\ Clean(buffer, size) /\ (overflow_mode => size = 0)
  BY DEF BufferOK
<1>00. SIZE \in Nat
  BY <1>0, BufferHas
<1>1. n \in 0 .. SIZE - size /\ n <= Len(wire) /\ n \in Nat
  <2>1. CASE wire = <<>>
    <3>1. n = 0 /\ Len(wire) = 0
      BY <2>1, EmptySeq DEF ReadSizes
    <3> QED BY <1>0, <1>00, <3>1
  <2>2. CASE wire # <<>>
    <3>1. n \in 1 .. SIZE - size /\ n <= Len(wire)
      BY <2>2 DEF ReadSizes
    <3> QED BY <1>0, <1>00, <3>1
  <2> QED BY <2>1, <2>2
<1>2. PICK p, k, z : p = Put(buffer, size, wire, n) /\ k = Newline(p) /\ z = size + n
  OBVIOUS
<1>3. IsPut(p, buffer, size, wire, n, z, v)
  BY <1>0, <1>1, <1>2 DEF IsPut
<1>30. Arrived(p, buffer, size, wire, z, v)
  BY <1>3, PutKeeps
<1>31. /\ p \in Buffers /\ Clean(p, z) /\ z \in 0 .. SIZE
       /\ v \in Seq(Symbols) /\ Stream(p, z, v) = Stream(buffer, size, wire)
  BY <1>30 DEF Arrived
<1>4. s = IF ~ overflow_mode THEN [b |-> p, size |-> z, overflow |-> FALSE]
          ELSE IF k = 0 \/ k > n THEN [b |-> p, size |-> size, overflow |-> TRUE]
          ELSE [b |-> Shifted(p, k, n - k), size |-> n - k, overflow |-> FALSE]
  BY <1>2 DEF Filled, Put
<1>40. StateOK(s)
  <2>1. ASSUME NEW b, NEW i, NEW o, s = [b |-> b, size |-> i, overflow |-> o] PROVE StateOK(s)
    BY <2>1 DEF StateOK
  <2> QED BY <1>4, <2>1
<1>5. CASE ~ overflow_mode
  <2>1. s.b = p /\ s.size = z /\ s.overflow = FALSE
    BY <1>4, <1>5
  <2>3. BufferOK(p, z, FALSE)
    BY <1>31 DEF BufferOK
  <2>4. Ahead(g, p, z, FALSE, v) = Ahead(g, buffer, size, FALSE, wire)
    BY <1>31 DEF Ahead
  <2>5. overflow_mode = FALSE
    BY <1>0, <1>5
  <2> QED BY <1>31, <1>40, <2>1, <2>3, <2>4, <2>5 DEF FilledOK
<1>6. CASE overflow_mode /\ (k = 0 \/ k > n)
  <2>1. s.b = p /\ s.size = 0 /\ s.overflow = TRUE /\ size = 0 /\ overflow_mode = TRUE
    BY <1>0, <1>4, <1>6
  <2>2. BufferOK(p, 0, TRUE)
    <3>1. 0 \in 0 .. SIZE /\ Clean(p, 0)
      BY <1>00 DEF Clean
    <3> QED BY <1>31, <3>1 DEF BufferOK
  <2>3. Ahead(g, p, 0, TRUE, v) = Ahead(g, buffer, 0, TRUE, wire)
    <3>0. z = n
      BY <1>1, <1>2, <2>1
    <3>1. IsPut(p, buffer, 0, wire, n, n, v)
      BY <1>3, <2>1, <3>0
    <3>2. NoNewLine(p, n)
      BY <1>2, <1>6 DEF NoNewLine
    <3>3. SkipsOn(p, v, buffer, wire)
      BY <3>1, <3>2, SkipOn
    <3> QED BY <3>3 DEF SkipsOn
  <2> QED BY <1>31, <1>40, <2>1, <2>2, <2>3 DEF FilledOK
<1>7. CASE overflow_mode /\ ~ (k = 0 \/ k > n)
  <2>1. size = 0 /\ k \in 0 .. SIZE /\ overflow_mode = TRUE
    <3>1. Newline(p) \in 0 .. SIZE
      BY <1>31, NewlineIs
    <3> QED BY <1>0, <1>2, <1>7, <3>1
  <2>2. k \in 1 .. n /\ k \in 1 .. SIZE /\ n \in 0 .. SIZE /\ n - k \in 0 .. SIZE - k /\ z = n
    BY <1>00, <1>1, <1>2, <1>7, <2>1
  <2>3. PICK q, m, line : q = Shifted(p, k, m) /\ m = n - k /\ line = SubSeq(p, 1, k - 1)
    <3>1. PICK m : m = n - k
      OBVIOUS
    <3> QED BY <3>1
  <2>4. s.b = q /\ s.size = m /\ s.overflow = FALSE
    BY <1>4, <1>7, <2>3
  <2>5. q \in Buffers /\ Follows(q, m, p, k)
    <3>1. m \in 0 .. SIZE - k /\ q = Shifted(p, k, m)
      BY <2>2, <2>3
    <3> QED BY <1>31, <2>2, <3>1, ShiftIs
  <2>6. HasEnd(p, n, k, line)
    BY <1>2, <1>31, <2>2, <2>3 DEF HasEnd
  <2>7. IsLeft(q, m, n, p, k)
    BY <2>3, <2>5 DEF IsLeft
  <2>8. /\ Taken(line, q, m)
        /\ Ahead(g, p, n, TRUE, v) = Ahead(Noted(g, line, TRUE), q, m, FALSE, v)
    <3>1. PICK o \in BOOLEAN : o = TRUE
      OBVIOUS
    <3>2. v \in Seq(Symbols)
      BY <1>31
    <3>3. Taken(line, q, m) /\ Notes(line, p, n, o, q, m, v)
      BY <2>6, <2>7, <3>2, LineTaken
    <3> QED BY <3>1, <3>3 DEF Notes
  <2>9. Noted(g, line, TRUE) = g
    BY DEF Noted
  <2>10. BufferOK(q, m, FALSE)
    BY <2>5, <2>8 DEF BufferOK, Taken
  <2>11. Ahead(g, p, n, TRUE, v) = Ahead(g, buffer, 0, TRUE, wire)
    <3>1. Stream(p, n, v) = Stream(buffer, 0, wire)
      BY <1>31, <1>40, <2>1, <2>2
    <3> QED BY <3>1 DEF Ahead
  <2> QED BY <1>31, <1>40, <2>1, <2>4, <2>8, <2>9, <2>10, <2>11 DEF FilledOK
<1> QED BY <1>0, <1>5, <1>6, <1>7

Known(s, v, r) ==
    \A g : Ahead(g, r.b, r.size, r.overflow, v) = Ahead(g, s.b, s.size, s.overflow, v)

\* No line: a buffer that is full is emptied.
LEMMA NoLineKeeps ==
    ASSUME NEW s, StateOK(s), BufferOK(s.b, s.size, s.overflow), ~ HasLine(s),
           NEW v \in Seq(Symbols), NEW r, r = NoLine(s)
    PROVE  BufferOK(r.b, r.size, r.overflow) /\ r.size < SIZE /\ Known(s, v, r)
<1>1. PICK b, n, o : b = s.b /\ n = s.size /\ o = s.overflow
  OBVIOUS
<1>2. s = [b |-> b, size |-> n, overflow |-> o]
  BY <1>1 DEF StateOK
<1>3. b \in Buffers /\ n \in 0 .. SIZE /\ o \in BOOLEAN /\ Clean(b, n) /\ (o => n = 0)
  BY <1>1 DEF BufferOK
<1>4. SIZE \in Nat \ {0}
  BY <1>3, BufferHas
<1>5. CASE o \/ n # SIZE
  <2>1. r = s
    BY <1>1, <1>5 DEF NoLine
  <2>2. n < SIZE
    BY <1>3, <1>4, <1>5
  <2> QED BY <1>1, <2>1, <2>2 DEF Known
<1>6. CASE ~ o /\ n = SIZE
  <2>1. r.b = b /\ r.size = 0 /\ r.overflow = TRUE
    BY <1>2, <1>6 DEF NoLine
  <2>2. BufferOK(b, 0, TRUE)
    <3>1. 0 \in 0 .. SIZE /\ Clean(b, 0)
      BY <1>4 DEF Clean
    <3> QED BY <1>3, <3>1 DEF BufferOK
  <2>3. Newline(b) = 0
    <3>1. Newline(b) \in 0 .. SIZE
      BY <1>3, NewlineIs
    <3>2. ~ (Newline(b) # 0 /\ Newline(b) <= SIZE)
      BY <1>1, <1>6 DEF HasLine
    <3> QED BY <1>4, <3>1, <3>2
  <2>4. PICK c : c = SubSeq(b, 1, n)
    OBVIOUS
  <2>5. c \in Seq(Symbols) /\ Len(c) = n /\ \A i \in 1 .. n : c[i] = b[i]
    BY <1>3, <2>4, ContentIs
  <2>6. NoNL(c)
    <3>1. ASSUME NEW i \in 1 .. n, b[i] = NL PROVE FALSE
      <4>1. i \in 1 .. SIZE /\ \A j \in 1 .. i - 1 : j \in 1 .. n
        BY <1>3, <1>4
      <4>2. \E j \in 1 .. i - 1 : b[j] = NUL
        BY <1>3, <2>3, <3>1, <4>1, NewlineIs
      <4>3. \A j \in 1 .. n : b[j] # NUL
        BY <1>3 DEF Clean
      <4> QED BY <4>1, <4>2, <4>3
    <3> QED BY <2>5, <3>1 DEF NoNL
  <2>7. ASSUME NEW g PROVE Ahead(g, b, 0, TRUE, v) = Ahead(g, b, n, FALSE, v)
    <3>1. PICK k : k = K(g, <<>>, FALSE)
      OBVIOUS
    <3>2. Scan(k, c \o v) = Scan(Scan(k, c), v)
      BY <2>5, ScanConcat
    <3>3. Scan(k, c) = K(g, <<>>, TRUE)
      <4>1. ~ (Len(c) < SIZE)
        BY <1>4, <1>6, <2>5
      <4>2. Scan(K(g, <<>>, FALSE), c)
                = IF Len(c) < SIZE THEN K(g, c, FALSE) ELSE K(g, <<>>, TRUE)
        BY <2>5, <2>6, ScanPart
      <4> QED BY <3>1, <4>1, <4>2
    <3>4. Stream(b, 0, v) = v
      <4>1. SubSeq(b, 1, 0) = <<>>
        BY <1>3, EmptyContent
      <4>2. <<>> \o v = v
        BY ConcatEmptySeq
      <4> QED BY <4>1, <4>2 DEF Stream
    <3>5. Ahead(g, b, 0, TRUE, v) = Scan(K(g, <<>>, TRUE), v)
      BY <3>4 DEF Ahead
    <3>6. Ahead(g, b, n, FALSE, v) = Scan(k, c \o v)
      BY <2>4, <3>1 DEF Ahead, Stream
    <3> QED BY <3>2, <3>3, <3>5, <3>6
  <2>8. Known(s, v, r)
    <3>1. s.b = b /\ s.size = n /\ s.overflow = FALSE
      BY <1>1, <1>3, <1>6
    <3> QED BY <2>1, <2>7, <3>1 DEF Known
  <2>9. 0 < SIZE
    BY <1>4
  <2> QED BY <2>1, <2>2, <2>8, <2>9
<1> QED BY <1>3, <1>5, <1>6

\* A line is taken off, and its end is written over.
LineOK(line) == line \in Seq(Symbols) /\ NoNL(line) /\ Len(line) < SIZE
KnownBut(s, v, r, line) ==
    \A g : Ahead(Append(g, line), r.b, r.size, r.overflow, v) = Ahead(g, s.b, s.size, s.overflow, v)

LEMMA RestKeeps ==
    ASSUME NEW s, StateOK(s), BufferOK(s.b, s.size, s.overflow), HasLine(s),
           NEW v \in Seq(Symbols), NEW r, r = Rest(s),
           NEW line, line = SubSeq(s.b, 1, Newline(s.b) - 1)
    PROVE  /\ BufferOK(r.b, r.size, r.overflow) /\ r.size < SIZE
           /\ LineOK(line) /\ KnownBut(s, v, r, line)
<1>1. PICK b, n, o, k, m : b = s.b /\ n = s.size /\ o = s.overflow
                           /\ k = Newline(b) /\ m = n - k
  <2>1. PICK b, n : b = s.b /\ n = s.size
    OBVIOUS
  <2>2. PICK k : k = Newline(b)
    OBVIOUS
  <2>3. PICK m : m = n - k
    OBVIOUS
  <2> QED BY <2>1, <2>2, <2>3
<1>a. o \in BOOLEAN
  BY <1>1 DEF BufferOK
<1>2. s = [b |-> b, size |-> n, overflow |-> o]
  BY <1>1 DEF StateOK
<1>3. b \in Buffers /\ n \in 0 .. SIZE /\ Clean(b, n)
  BY <1>1 DEF BufferOK
<1>4. SIZE \in Nat \ {0} /\ DOMAIN b = 1 .. SIZE /\ b \in Seq(Bytes) /\ Len(b) = SIZE
  BY <1>3, BufferHas
<1>5. o = FALSE /\ k # 0 /\ k <= n
  BY <1>1, <1>a DEF HasLine
<1>6. k \in 1 .. n /\ k \in 1 .. SIZE /\ m \in 0 .. SIZE - k
  <2>1. k \in 0 .. SIZE
    BY <1>1, <1>3, NewlineIs
  <2> QED BY <1>1, <1>3, <1>4, <1>5, <2>1
<1>7. PICK e, q : e = [b EXCEPT ![k] = NUL] /\ q = Shifted(e, k, m)
  OBVIOUS
<1>8. r.b = q /\ r.size = m /\ r.overflow = FALSE
  BY <1>1, <1>2, <1>5, <1>7 DEF Rest
<1>9. e \in Buffers /\ \A i \in 1 .. SIZE : i # k => e[i] = b[i]
  <2>1. e = [i \in 1 .. SIZE |-> IF i = k THEN NUL ELSE b[i]]
    BY <1>4, <1>7
  <2>2. ASSUME NEW i \in 1 .. SIZE PROVE (IF i = k THEN NUL ELSE b[i]) \in Bytes
    <3>1. b[i] \in Bytes
      BY <1>3, BufferHas
    <3> QED BY <3>1 DEF Bytes
  <2>3. e \in [1 .. SIZE -> Bytes]
    BY <2>1, <2>2
  <2>4. e \in Buffers
    BY <2>3, BufferIs
  <2> QED BY <2>1, <2>4
<1>10. q \in Buffers /\ Follows(q, m, e, k)
  BY <1>6, <1>7, <1>9, ShiftIs
<1>11. Follows(q, m, b, k)
  <2>1. \A i \in 1 .. m : k + i \in 1 .. SIZE /\ k + i # k
    BY <1>4, <1>6
  <2> QED BY <1>9, <1>10, <2>1 DEF Follows
<1>12. IsLeft(q, m, n, b, k)
  BY <1>1, <1>10, <1>11 DEF IsLeft
<1>13. HasEnd(b, n, k, line)
  BY <1>1, <1>3, <1>6 DEF HasEnd
<1>14. Taken(line, q, m) /\ Notes(line, b, n, o, q, m, v)
  BY <1>a, <1>12, <1>13, LineTaken
<1>15. BufferOK(q, m, FALSE) /\ m < SIZE /\ LineOK(line)
  BY <1>10, <1>14 DEF Taken, BufferOK, LineOK
<1>16. ASSUME NEW g PROVE Noted(g, line, o) = Append(g, line)
  BY <1>5, <1>15 DEF Noted, LineOK
<1>17. KnownBut(s, v, r, line)
  BY <1>1, <1>8, <1>14, <1>16 DEF Notes, KnownBut
<1> QED BY <1>8, <1>15, <1>17

-----------------------------------------------------------------------------
(* What the client has said.                                               *)

LEMMA TextIs ==
    ASSUME NEW c \in ClientCommands
    PROVE  /\ c \in Seq(Seq(Symbols)) /\ c # <<>>
           /\ Line(c) \in Codes /\ Line(c) \in Seq(Symbols)
           /\ Text[c] = Line(c) \o <<NL>> /\ IsLine(Line(c), Text[c])
           /\ Text[c] \in Seq(Symbols)
<1>1. c \in Seq(Seq(Symbols)) /\ c # <<>>
  BY InputAssumption
<1>2. PICK l : l = Line(c)
  OBVIOUS
<1>3. l \in Codes /\ l \in Seq(Symbols)
  <2>1. Line(c) \in Codes
    BY <1>1, LineIsCode
  <2> QED BY <1>2, <2>1 DEF Codes
<1>4. NoNL(l)
  BY <1>3 DEF Codes, NoNL
<1>5. Text[c] = l \o <<NL>>
  BY <1>2 DEF Text
<1>6. NL \in Symbols
  BY SymbolsAssumption
<1>7. PICK r : r = Append(l, NL)
  OBVIOUS
<1>8. r \in Seq(Symbols) /\ r = l \o <<NL>>
  BY <1>3, <1>6, <1>7, OneMore
<1>9. IsLine(l, r)
  BY <1>3, <1>4, <1>7 DEF IsLine
<1> QED BY <1>1, <1>2, <1>3, <1>5, <1>8, <1>9

LEMMA TextsAre ==
    ASSUME NEW cs \in Seq(ClientCommands)
    PROVE  /\ [i \in DOMAIN cs |-> Text[cs[i]]] \in Seq(Seq(Symbols))
           /\ TextOf(cs) \in Seq(Symbols)
<1>1. PICK s : s = [i \in DOMAIN cs |-> Text[cs[i]]]
  OBVIOUS
<1>2. \A i \in 1 .. Len(cs) : cs[i] \in ClientCommands
  BY ElementOfSeq
<1>3. DOMAIN cs = 1 .. Len(cs) /\ Len(cs) \in Nat
  OBVIOUS
<1>4. \A i \in 1 .. Len(cs) : Text[cs[i]] \in Seq(Symbols)
  BY <1>2, TextIs
<1>5. s \in Seq(Seq(Symbols))
  <2>1. [i \in 1 .. Len(cs) |-> Text[cs[i]]] \in Seq(Seq(Symbols))
    BY <1>3, <1>4, IsASeq
  <2> QED BY <1>1, <1>3, <2>1
<1>6. FlattenSeq(s) \in Seq(Symbols)
  <2>1. PICK T : T = Seq(Symbols)
    OBVIOUS
  <2>2. T \in SUBSET Seq(Symbols) /\ <<>> \in T
    BY <2>1, EmptySeq
  <2>3. \A a, b \in T : a \o b \in T
    BY <2>1, ConcatProperties
  <2>4. s \in Seq(T)
    BY <1>5, <2>1
  <2>5. FlattenSeq(s) \in T
    BY <2>2, <2>3, <2>4, FlatClosed
  <2> QED BY <2>1, <2>5
<1> QED BY <1>1, <1>5, <1>6 DEF TextOf

LEMMA TextOfNothing == TextOf(<<>>) = <<>>
<1>1. [i \in DOMAIN <<>> |-> Text[<<>>[i]]] = <<>>
  OBVIOUS
<1> QED BY <1>1, FlatNothing DEF TextOf

LEMMA TextOfMore ==
    ASSUME NEW cs \in Seq(ClientCommands), NEW c \in ClientCommands, NEW r, r = Append(cs, c)
    PROVE  r \in Seq(ClientCommands) /\ TextOf(r) = TextOf(cs) \o Text[c]
<1>1. /\ r \in Seq(ClientCommands) /\ Len(r) = Len(cs) + 1 /\ Len(cs) \in Nat
      /\ r[Len(cs) + 1] = c /\ \A i \in 1 .. Len(cs) : r[i] = cs[i]
  BY AppendProperties
<1>2. PICK s, t, e : /\ s = [i \in DOMAIN cs |-> Text[cs[i]]] /\ e = Text[c]
                     /\ t = [i \in DOMAIN r |-> Text[r[i]]]
  OBVIOUS
<1>3. s \in Seq(Seq(Symbols)) /\ e \in Seq(Symbols)
  BY <1>2, TextsAre, TextIs
<1>4. t = Append(s, e)
  <2>1. DOMAIN cs = 1 .. Len(cs) /\ DOMAIN r = 1 .. Len(cs) + 1
    BY <1>1
  <2>2. Len(s) = Len(cs)
    BY <1>1, <1>2, <2>1
  <2>3. PICK a : a = Append(s, e)
    OBVIOUS
  <2>4. /\ a \in Seq(Seq(Symbols)) /\ Len(a) = Len(cs) + 1
        /\ a[Len(cs) + 1] = e /\ \A i \in 1 .. Len(cs) : a[i] = s[i]
    BY <1>3, <2>2, <2>3, AppendProperties
  <2>5. \A i \in 1 .. Len(cs) + 1 : Text[r[i]] = a[i]
    <3>1. ASSUME NEW i \in 1 .. Len(cs) PROVE Text[r[i]] = a[i]
      BY <1>1, <1>2, <2>1, <2>4
    <3>2. ASSUME NEW i \in 1 .. Len(cs) + 1, i # Len(cs) + 1 PROVE i \in 1 .. Len(cs)
      BY <1>1, <3>2
    <3> QED BY <1>1, <1>2, <2>4, <3>1, <3>2
  <2>6. a = [i \in 1 .. Len(cs) + 1 |-> a[i]]
    BY <1>1, <2>4
  <2> QED BY <1>2, <2>1, <2>3, <2>5, <2>6
<1>5. FlattenSeq(t) = FlattenSeq(s) \o e
  BY <1>3, <1>4, FlatAppend
<1> QED BY <1>1, <1>2, <1>5 DEF TextOf

\* What a reader will know who had lost o and found l before cs.
Heard(l, o, cs) == Scan(K(<<>>, <<>>, o), l \o TextOf(cs))

LEMMA HeardMore ==
    ASSUME NEW l \in Seq(Symbols), NEW o, NEW cs \in Seq(ClientCommands),
           NEW c \in ClientCommands, NEW r, r = Append(cs, c)
    PROVE  Heard(l, o, r) = Scan(Heard(l, o, cs), Text[c])
<1>1. PICK t, u, e, k : t = TextOf(cs) /\ u = TextOf(r) /\ e = Text[c] /\ k = K(<<>>, <<>>, o)
  OBVIOUS
<1>2. t \in Seq(Symbols) /\ e \in Seq(Symbols) /\ u = t \o e
  BY <1>1, TextsAre, TextIs, TextOfMore
<1>3. PICK m : m = l \o t
  OBVIOUS
<1>4. m \in Seq(Symbols)
  BY <1>2, <1>3, ConcatProperties
<1>5. m \o e = l \o u
  BY <1>2, <1>3, StringEitherWay
<1>6. Scan(k, m \o e) = Scan(Scan(k, m), e)
  BY <1>2, <1>4, ScanConcat
<1> QED BY <1>1, <1>3, <1>5, <1>6 DEF Heard

KnownMore(b, n, o, w, e, v) ==
    \A g : Ahead(g, b, n, o, v) = Scan(Ahead(g, b, n, o, w), e)

LEMMA AheadMore ==
    ASSUME NEW b, NEW n, NEW o, BufferOK(b, n, o),
           NEW w \in Seq(Symbols), NEW e \in Seq(Symbols), NEW v, v = w \o e
    PROVE  KnownMore(b, n, o, w, e, v)
<1>. SUFFICES ASSUME NEW g PROVE Ahead(g, b, n, o, v) = Scan(Ahead(g, b, n, o, w), e)
  BY DEF KnownMore
<1>1. PICK c, k : c = SubSeq(b, 1, n) /\ k = K(g, <<>>, o)
  OBVIOUS
<1>2. c \in Seq(Symbols)
  BY <1>1, ContentIs DEF BufferOK
<1>3. PICK m : m = c \o w
  OBVIOUS
<1>4. m \in Seq(Symbols)
  BY <1>2, <1>3, ConcatProperties
<1>5. m \o e = c \o v
  BY <1>2, <1>3, StringEitherWay
<1>6. Scan(k, m \o e) = Scan(Scan(k, m), e)
  BY <1>4, ScanConcat
<1> QED BY <1>1, <1>3, <1>5, <1>6 DEF Ahead, Stream

\* What a reader will know begins with the lines that are known.
LEMMA AheadExtends ==
    ASSUME NEW g \in Seq(Seq(Symbols)), NEW b, NEW n, NEW o, BufferOK(b, n, o),
           NEW w \in Seq(Symbols)
    PROVE  Extends(Ahead(g, b, n, o, w), g, Scan(K(<<>>, <<>>, o), Stream(b, n, w)))
<1>1. PICK c, s : c = SubSeq(b, 1, n) /\ s = c \o w
  <2>1. PICK c : c = SubSeq(b, 1, n)
    OBVIOUS
  <2> QED BY <2>1
<1>2. c \in Seq(Symbols) /\ o \in BOOLEAN
  BY <1>1, ContentIs DEF BufferOK
<1>3. s \in Seq(Symbols)
  BY <1>1, <1>2, ConcatProperties
<1>4. PICK h, a : h = K(g, <<>>, o) /\ a = K(<<>>, <<>>, o)
  OBVIOUS
<1>5. Extends(h, g, a)
  BY <1>2, <1>4, ExtendsFirst
<1>6. Extends(Scan(h, s), g, Scan(a, s))
  BY <1>3, <1>5, ScanExtends
<1> QED BY <1>1, <1>4, <1>6 DEF Ahead, Stream

\* Every line is one that a client has said, and there is no part of another.
IsSaid(line) == \E c \in ClientCommands : line = Line(c)
Whole(k) == k.part = <<>> /\ \A i \in 1 .. Len(k.done) : IsSaid(k.done[i])

LEMMA WholeMore ==
    ASSUME NEW d \in Seq(Seq(Symbols)), NEW p, NEW j \in BOOLEAN, NEW k, k = K(d, p, j), Whole(k),
           NEW c \in ClientCommands
    PROVE  Whole(Scan(k, Text[c]))
<1>1. p = <<>> /\ \A i \in 1 .. Len(d) : IsSaid(d[i])
  BY DEF Whole, K
<1>2. PICK s, r : s = Line(c) /\ r = Text[c]
  OBVIOUS
<1>3. s \in Seq(Symbols) /\ IsLine(s, r)
  BY <1>2, TextIs
<1>4. Scan(K(d, <<>>, j), r) = K(Noted(d, s, j), <<>>, FALSE)
  BY <1>3, ScanLine
<1>5. PICK e : e = Noted(d, s, j)
  OBVIOUS
<1>6. ASSUME NEW i \in 1 .. Len(e) PROVE IsSaid(e[i])
  <2>1. CASE e = d
    BY <1>1, <1>6, <2>1
  <2>2. CASE e = Append(d, s)
    <3>1. /\ Len(e) = Len(d) + 1 /\ Len(d) \in Nat /\ e[Len(d) + 1] = s
          /\ \A x \in 1 .. Len(d) : e[x] = d[x]
      BY <1>3, <2>2, AppendProperties
    <3>2. IsSaid(s)
      BY <1>2 DEF IsSaid
    <3>3. i \in 1 .. Len(d) \/ i = Len(d) + 1
      BY <1>6, <3>1
    <3> QED BY <1>1, <3>1, <3>2, <3>3
  <2> QED BY <1>5, <2>1, <2>2 DEF Noted
<1>7. Whole(K(e, <<>>, FALSE))
  BY <1>6 DEF Whole, K
<1> QED BY <1>1, <1>2, <1>4, <1>5, <1>7

-----------------------------------------------------------------------------
(* What an earlier connection has left, and what is handled.               *)

SaidAll(d) == \A i \in 1 .. Len(d) : IsSaid(d[i])

\* Facts on sequences, for sequences of lines.
LEMMA LinesJoined ==
    ASSUME NEW d \in Seq(Seq(Symbols)), NEW e \in Seq(Seq(Symbols)), NEW f, f = d \o e
    PROVE  /\ f \in Seq(Seq(Symbols)) /\ Len(f) = Len(d) + Len(e)
           /\ \A i \in 1 .. Len(d) : f[i] = d[i]
           /\ \A i \in 1 .. Len(e) : f[Len(d) + i] = e[i]
BY Concatenation

LEMMA SaidBefore ==
    ASSUME NEW d \in Seq(Seq(Symbols)), NEW e \in Seq(Seq(Symbols)), NEW f, f = d \o e, SaidAll(f)
    PROVE  SaidAll(d)
<1>1. Len(f) = Len(d) + Len(e) /\ \A i \in 1 .. Len(d) : f[i] = d[i]
  BY LinesJoined
<1>2. \A i \in 1 .. Len(d) : i \in 1 .. Len(f)
  BY <1>1
<1> QED BY <1>1, <1>2 DEF SaidAll

LEMMA SaidBehind ==
    ASSUME NEW d \in Seq(Seq(Symbols)), NEW e \in Seq(Seq(Symbols)), NEW f, f = d \o e, SaidAll(f)
    PROVE  SaidAll(e)
<1>1. Len(f) = Len(d) + Len(e) /\ \A i \in 1 .. Len(e) : f[Len(d) + i] = e[i]
  BY LinesJoined
<1>2. \A i \in 1 .. Len(e) : Len(d) + i \in 1 .. Len(f)
  BY <1>1
<1> QED BY <1>1, <1>2 DEF SaidAll

LEMMA WholeIs ==
    ASSUME NEW d, NEW q, NEW j, NEW k, k = K(d, q, j)
    PROVE  Whole(k) <=> q = <<>> /\ SaidAll(d)
<1>1. k.done = d /\ k.part = q
  BY DEF K
<1> QED BY <1>1 DEF Whole, SaidAll

\* A line that is returned is one of those that a client has said, if all are.
LEMMA LineSaid ==
    ASSUME NEW g \in Seq(Seq(Symbols)), NEW line \in Seq(Symbols), NEW h, h = Append(g, line),
           NEW b, NEW n, NEW o, BufferOK(b, n, o), NEW w \in Seq(Symbols),
           Whole(Ahead(h, b, n, o, w))
    PROVE  IsSaid(line)
<1>1. h \in Seq(Seq(Symbols)) /\ Len(h) \in Nat /\ Len(h) >= 1 /\ h[Len(h)] = line
  BY AppendProperties
<1>2. PICK k, a : k = Ahead(h, b, n, o, w) /\ a = Scan(K(<<>>, <<>>, o), Stream(b, n, w))
  OBVIOUS
<1>3. Extends(k, h, a)
  BY <1>1, <1>2, AheadExtends
<1>4. PICK e \in Seq(Seq(Symbols)), q \in Seq(Symbols), j \in BOOLEAN : k = K(h \o e, q, j)
  BY <1>3 DEF Extends
<1>5. PICK f : f = h \o e
  OBVIOUS
<1>6. SaidAll(f)
  <2>1. k = K(f, q, j) /\ Whole(k)
    BY <1>2, <1>4, <1>5
  <2> QED BY <2>1, WholeIs
<1>7. SaidAll(h)
  BY <1>1, <1>5, <1>6, SaidBefore
<1>8. Len(h) \in 1 .. Len(h)
  BY <1>1
<1> QED BY <1>1, <1>7, <1>8 DEF SaidAll

\* The next client finds what is whole, unless a part of a line is left.
LEMMA CutWhole ==
    ASSUME NEW g \in Seq(Seq(Symbols)), NEW b, NEW n, NEW o, BufferOK(b, n, o),
           NEW w \in Seq(Symbols), Whole(Ahead(g, b, n, o, w)), n = 0 \/ b[n] = NL,
           NEW c, c = SubSeq(b, 1, n)
    PROVE  Whole(Heard(c, o, <<>>))
<1>0. b \in Buffers /\ n \in 0 .. SIZE /\ Clean(b, n) /\ o \in BOOLEAN /\ (o => n = 0)
  BY DEF BufferOK
<1>1. c \in Seq(Symbols) /\ Len(c) = n /\ \A i \in 1 .. n : c[i] = b[i]
  BY <1>0, ContentIs
<1>2. PICK k, a : k = K(<<>>, <<>>, o) /\ a = Scan(k, c)
  <2>1. PICK k : k = K(<<>>, <<>>, o)
    OBVIOUS
  <2> QED BY <2>1
<1>3. Heard(c, o, <<>>) = a
  <2>1. c \o <<>> = c
    BY <1>1, ConcatEmptySeq
  <2> QED BY <1>2, <2>1, TextOfNothing DEF Heard
<1>4. CASE n = 0
  <2>1. c = <<>>
    BY <1>1, <1>4, EmptySeq
  <2>2. a = k
    BY <1>2, <2>1, ScanFirst
  <2>3. PICK e : e = <<>>
    OBVIOUS
  <2>4. SaidAll(e)
    BY <2>3 DEF SaidAll
  <2>5. k = K(e, e, o) /\ e = <<>>
    BY <1>2, <2>3
  <2>6. Whole(k)
    BY <2>4, <2>5, WholeIs
  <2> QED BY <1>3, <2>2, <2>6
<1>5. CASE n # 0
  <2>1. b[n] = NL /\ n \in 1 .. SIZE
    <3>1. SIZE \in Nat
      BY <1>0, BufferHas
    <3> QED BY <1>0, <1>5, <3>1
  <2>2. PICK c0 \in Seq(Symbols) : c = Append(c0, NL)
    <3>1. c # <<>>
      BY <1>1, <1>5, EmptySeq
    <3>2. n \in 1 .. n /\ c[n] = NL
      BY <1>1, <2>1
    <3>3. PICK c0 \in Seq(Symbols), x \in Symbols : c = Append(c0, x)
      <4>1. \E u \in Seq(Symbols), x \in Symbols : c = Append(u, x) /\ Len(u) = Len(c) - 1
        BY <1>1, <3>1, FrontAndLast
      <4> QED BY <4>1
    <3>4. Len(c) = Len(c0) + 1 /\ c[Len(c0) + 1] = x
      BY <3>3, OneMore
    <3>5. x = NL
      BY <1>1, <3>2, <3>4
    <3> QED BY <3>3, <3>5
  <2>3. a.part = <<>>
    <3>1. NL \in Symbols
      BY SymbolsAssumption
    <3>2. a = Feed(Scan(k, c0), NL)
      BY <1>2, <2>2, <3>1, ScanMore
    <3>3. PICK y : y = Scan(k, c0)
      OBVIOUS
    <3>4. Feed(y, NL).part = <<>>
      BY DEF Feed
    <3> QED BY <3>2, <3>3, <3>4
  <2>4. PICK h, z : h = K(g, <<>>, o) /\ z = Scan(h, c)
    <3>1. PICK h : h = K(g, <<>>, o)
      OBVIOUS
    <3> QED BY <3>1
  <2>5. Extends(z, g, a)
    <3>1. Extends(h, g, k)
      BY <1>0, <1>2, <2>4, ExtendsFirst
    <3>2. Extends(Scan(h, c), g, Scan(k, c))
      BY <1>1, <3>1, ScanExtends
    <3> QED BY <1>2, <2>4, <3>2
  <2>6. PICK e \in Seq(Seq(Symbols)), q \in Seq(Symbols), j \in BOOLEAN :
            a = K(e, q, j) /\ z = K(g \o e, q, j)
    BY <2>5 DEF Extends
  <2>7. q = <<>>
    BY <2>3, <2>6, KIs
  <2>8. PICK d : d = g \o e
    OBVIOUS
  <2>9. d \in Seq(Seq(Symbols))
    BY <2>8, LinesJoined
  <2>10. Ahead(g, b, n, o, w) = Scan(z, w)
    BY <1>1, <2>4, ScanConcat DEF Ahead, Stream
  <2>11. PICK x, y : x = K(d, <<>>, j) /\ y = K(<<>>, <<>>, j)
    OBVIOUS
  <2>12. z = x
    BY <2>6, <2>7, <2>8, <2>11
  <2>13. Extends(Scan(x, w), d, Scan(y, w))
    <3>1. Extends(x, d, y)
      BY <2>9, <2>11, ExtendsFirst
    <3> QED BY <2>9, <3>1, ScanExtends
  <2>14. PICK e2 \in Seq(Seq(Symbols)), q2 \in Seq(Symbols), j2 \in BOOLEAN :
             Scan(x, w) = K(d \o e2, q2, j2)
    BY <2>13 DEF Extends
  <2>15. PICK f : f = d \o e2
    OBVIOUS
  <2>16. SaidAll(f)
    <3>1. PICK u : u = Ahead(g, b, n, o, w)
      OBVIOUS
    <3>2. u = K(f, q2, j2) /\ Whole(u)
      BY <2>10, <2>12, <2>14, <2>15, <3>1
    <3> QED BY <3>2, WholeIs
  <2>17. SaidAll(d)
    BY <2>9, <2>15, <2>16, SaidBefore
  <2>18. SaidAll(e)
    BY <2>8, <2>17, SaidBehind
  <2>19. Whole(a)
    <3>1. a = K(e, q, j)
      BY <2>6
    <3> QED BY <2>7, <2>18, <3>1, WholeIs
  <2> QED BY <1>3, <2>19
<1> QED BY <1>4, <1>5

LEMMA CommandOK ==
    ASSUME NEW c \in ClientCommands
    PROVE  CommaFree(c[1]) /\ Len(c) >= Needed(c[1])
<1>1. "," \notin ToSet(c[1]) /\ Len(c) >= Needed(c[1])
  BY InputAssumption, Zenon
<1>2. CommaFree(c[1])
  <2>1. ASSUME NEW i \in 1 .. Len(c[1]), IsComma(c[1][i]) PROVE FALSE
    <3>1. i \in DOMAIN c[1]
      <4>1. c[1] \in Seq(Symbols)
        <5>1. c \in Seq(Seq(Symbols)) /\ c # <<>>
          BY TextIs
        <5> QED BY <5>1, ElementOfSeq
      <4> QED BY <4>1
    <3>2. c[1][i] = ","
      BY <2>1 DEF IsComma
    <3> QED BY <1>1, <3>1, <3>2, Zenon DEF ToSet
  <2> QED BY <2>1 DEF CommaFree
<1> QED BY <1>1, <1>2, Zenon

LEMMA TextOfLine ==
    ASSUME NEW c \in ClientCommands, NEW line \in Seq(Symbols), line \o <<NL>> = Text[c]
    PROVE  line = Line(c)
<1>1. PICK s : s = Line(c)
  OBVIOUS
<1>2. s \in Seq(Symbols) /\ Text[c] = s \o <<NL>>
  BY <1>1, TextIs
<1>3. NL \in Symbols
  BY SymbolsAssumption
<1>4. PICK r, t : r = Append(s, NL) /\ t = Append(line, NL)
  OBVIOUS
<1>5. Len(r) = Len(s) + 1 /\ (\A i \in 1 .. Len(s) : r[i] = s[i]) /\ r = s \o <<NL>>
  BY <1>2, <1>3, <1>4, OneMore
<1>6. Len(t) = Len(line) + 1 /\ (\A i \in 1 .. Len(line) : t[i] = line[i]) /\ t = line \o <<NL>>
  BY <1>3, <1>4, OneMore
<1>7. r = t
  BY <1>2, <1>5, <1>6
<1>8. Len(s) = Len(line)
  BY <1>2, <1>5, <1>6, <1>7
<1>9. \A i \in 1 .. Len(s) : s[i] = line[i]
  BY <1>5, <1>6, <1>7, <1>8
<1>10. s = line
  BY <1>2, <1>8, <1>9, SameText
<1> QED BY <1>1, <1>10

\* How a client's line is handled: no token is missing.
LEMMA CommandHandled ==
    ASSUME NEW c \in ClientCommands, NEW t, t = Tokens(unescape(Line(c)))
    PROVE  TokensOf(t, c) /\ ~ Falls(t) /\ ~ Malformed(Line(c))
<1>1. c \in Seq(Seq(Symbols)) /\ c # <<>> /\ Line(c) \in Codes
  BY TextIs
<1>2. TokensOf(t, c)
  BY <1>1, CommandRead
<1>3. Len(t) >= Len(c) /\ t[1] = c[1] /\ Len(t) \in Nat /\ Len(c) \in Nat
  <2>1. CommaFree(c[1])
    BY CommandOK
  <2>2. Len(t) >= Len(c) /\ t[1] = c[1] /\ t \in TokenLists
    BY <1>2, <2>1 DEF TokensOf
  <2> QED BY <1>1, <2>2, TokenListIs
<1>4. PICK n : n = Needed(c[1])
  OBVIOUS
<1>5. n \in Nat
  BY <1>4, Zenon DEF Needed
<1>6. Len(c) >= n
  BY <1>4, CommandOK
<1>7. ~ (Len(t) < n)
  BY <1>3, <1>5, <1>6
<1>8. ~ Falls(t)
  BY <1>3, <1>4, <1>7 DEF Falls
<1>9. ~ Malformed(Line(c))
  BY <1>1, CodeNotMalformed
<1> QED BY <1>2, <1>8, <1>9

-----------------------------------------------------------------------------
(* The invariant.                                                          *)

InputOK ==
    /\ said \in Seq(ClientCommands) /\ wire \in Seq(Symbols)
    /\ got \in Seq(Seq(Symbols)) /\ handled \in Seq(TokenLists) /\ crashed \in BOOLEAN
    /\ cuts \in Nat /\ left \in Seq(Symbols) /\ lost \in BOOLEAN /\ torn \in BOOLEAN

\* There is room for a character, and no NUL is among what has come.
Room == size < SIZE /\ BufferOK(buffer, size, overflow_mode)

\* What a reader knows at last does not depend on what has been read.
NothingLost == Ahead(got, buffer, size, overflow_mode, wire) = Heard(left, lost, said)

HandledAs(g, h) ==
    Len(h) = Len(g) /\ \A i \in 1 .. Len(g) : h[i] = Tokens(unescape(g[i]))
Carried == HandledAs(got, handled)

\* If no connection has left a part of a line, there are only commands.
Untorn == ~ torn => Whole(Heard(left, lost, said))

InputIInv == InputOK /\ Room /\ NothingLost /\ Carried /\ Untorn /\ CrashHasACause

\* One more line comes to what has been handled.
Handles(g, h, line, t, x, y) ==
    /\ g \in Seq(Seq(Symbols)) /\ h \in Seq(TokenLists) /\ HandledAs(g, h)
    /\ line \in Seq(Symbols) /\ t = Tokens(unescape(line))
    /\ x = Append(g, line) /\ y = Append(h, t)

LEMMA HandledMore ==
    ASSUME NEW g, NEW h, NEW line, NEW t, NEW x, NEW y, Handles(g, h, line, t, x, y)
    PROVE  /\ x \in Seq(Seq(Symbols)) /\ y \in Seq(TokenLists) /\ HandledAs(x, y)
           /\ Last(x) = line /\ Last(y) = t
<1>a. /\ g \in Seq(Seq(Symbols)) /\ h \in Seq(TokenLists)
      /\ line \in Seq(Symbols) /\ t = Tokens(unescape(line))
      /\ x = Append(g, line) /\ y = Append(h, t)
  BY DEF Handles
<1>0. Len(h) = Len(g) /\ \A i \in 1 .. Len(g) : h[i] = Tokens(unescape(g[i]))
  BY DEF Handles, HandledAs
<1>. USE <1>a
<1>1. t \in TokenLists
  <2>1. unescape(line) \in Seq(Symbols)
    BY UnescapeType
  <2> QED BY <2>1, TokensType
<1>2. /\ x \in Seq(Seq(Symbols)) /\ Len(x) = Len(g) + 1 /\ Len(g) \in Nat
      /\ x[Len(g) + 1] = line /\ \A i \in 1 .. Len(g) : x[i] = g[i]
  BY AppendProperties
<1>3. /\ y \in Seq(TokenLists) /\ Len(y) = Len(h) + 1
      /\ y[Len(h) + 1] = t /\ \A i \in 1 .. Len(h) : y[i] = h[i]
  BY <1>1, AppendProperties
<1>4. ASSUME NEW i \in 1 .. Len(x) PROVE y[i] = Tokens(unescape(x[i]))
  <2>1. CASE i \in 1 .. Len(g)
    BY <1>0, <1>2, <1>3, <2>1
  <2>2. CASE i = Len(g) + 1
    BY <1>0, <1>2, <1>3, <2>2
  <2>3. i \in 1 .. Len(g) \/ i = Len(g) + 1
    BY <1>2
  <2> QED BY <2>1, <2>2, <2>3
<1>5. HandledAs(x, y)
  BY <1>0, <1>2, <1>3, <1>4 DEF HandledAs
<1> QED BY <1>0, <1>2, <1>3, <1>5 DEF Last

Cause(line, t, o) ==
    IF \E c \in ClientCommands : line \o <<NL>> = Text[c] THEN Spoils(t) ELSE o

LEMMA CauseIs ==
    ASSUME NEW line \in Seq(Symbols), NEW t, t = Tokens(unescape(line)),
           NEW o \in BOOLEAN, ~ o => IsSaid(line), Falls(t) \/ Spoils(t) \/ Malformed(line)
    PROVE  Cause(line, t, o)
<1>1. CASE \E c \in ClientCommands : line \o <<NL>> = Text[c]
  <2>1. PICK c \in ClientCommands : line \o <<NL>> = Text[c]
    BY <1>1
  <2>2. line = Line(c)
    BY <2>1, TextOfLine
  <2>3. ~ Falls(t) /\ ~ Malformed(line)
    BY <2>2, CommandHandled
  <2> QED BY <1>1, <2>3 DEF Cause
<1>2. CASE ~ \E c \in ClientCommands : line \o <<NL>> = Text[c]
  <2>1. ~ IsSaid(line)
    <3>1. ASSUME NEW c \in ClientCommands, line = Line(c) PROVE FALSE
      <4>1. Text[c] = line \o <<NL>>
        BY <3>1, TextIs
      <4> QED BY <1>2, <4>1
    <3> QED BY <3>1 DEF IsSaid
  <2> QED BY <1>2, <2>1 DEF Cause
<1> QED BY <1>1, <1>2

LEMMA InputStarts == InputInit => InputIInv
<1>. SUFFICES ASSUME InputInit PROVE InputIInv
  OBVIOUS
<1>1. PICK e : e = <<>>
  OBVIOUS
<1>2. /\ said = e /\ wire = e /\ size = 0 /\ overflow_mode = FALSE
      /\ got = e /\ handled = e /\ crashed = FALSE
      /\ cuts = 0 /\ left = e /\ lost = FALSE /\ torn = FALSE
      /\ buffer = [i \in 1 .. SIZE |-> NUL]
  BY <1>1 DEF InputInit
<1>3. SIZE \in Nat \ {0}
  BY InputAssumption
<1>4. InputOK
  <2>1. /\ e \in Seq(ClientCommands) /\ e \in Seq(Symbols) /\ e \in Seq(Seq(Symbols))
        /\ e \in Seq(TokenLists)
    BY <1>1, EmptySeq
  <2> QED BY <1>2, <2>1 DEF InputOK
<1>5. PICK b : b = buffer
  OBVIOUS
<1>6. b \in Buffers
  <2>1. b \in [1 .. SIZE -> Bytes]
    BY <1>2, <1>5 DEF Bytes
  <2> QED BY <2>1, BufferIs
<1>7. Room
  <2>1. Clean(b, 0)
    BY DEF Clean
  <2>2. BufferOK(b, 0, FALSE)
    BY <1>3, <1>6, <2>1 DEF BufferOK
  <2>3. size < SIZE
    BY <1>2, <1>3
  <2>4. BufferOK(buffer, size, overflow_mode)
    BY <1>2, <1>5, <2>2
  <2> QED BY <2>3, <2>4 DEF Room
<1>8. Ahead(e, b, 0, FALSE, e) = Heard(e, FALSE, e)
  <2>1. SubSeq(b, 1, 0) = e
    BY <1>1, <1>6, EmptyContent
  <2>2. TextOf(e) = e
    BY <1>1, TextOfNothing
  <2> QED BY <1>1, <2>1, <2>2 DEF Ahead, Stream, Heard
<1>9. Whole(Heard(e, FALSE, e))
  <2>1. e \o TextOf(e) = e
    BY <1>1, TextOfNothing
  <2>2. PICK k : k = K(e, e, FALSE)
    OBVIOUS
  <2>3. Heard(e, FALSE, e) = k
    <3>1. Scan(k, <<>>) = k
      BY ScanFirst
    <3> QED BY <1>1, <2>1, <2>2, <3>1 DEF Heard
  <2>4. SaidAll(e)
    BY <1>1 DEF SaidAll
  <2>5. Whole(k)
    BY <1>1, <2>2, <2>4, WholeIs
  <2> QED BY <2>3, <2>5
<1>10. HandledAs(e, e)
  BY <1>1 DEF HandledAs
<1>11. NothingLost /\ Carried /\ Untorn /\ CrashHasACause
  BY <1>2, <1>5, <1>8, <1>9, <1>10 DEF NothingLost, Carried, Untorn, CrashHasACause
<1> QED BY <1>4, <1>7, <1>11 DEF InputIInv

LEMMA SayKeeps ==
    ASSUME InputIInv, NEW c \in ClientCommands, Say(c)
    PROVE  InputIInv'
<1>1. /\ crashed = FALSE
      /\ said \in Seq(ClientCommands) /\ wire \in Seq(Symbols) /\ left \in Seq(Symbols)
      /\ got \in Seq(Seq(Symbols))
      /\ BufferOK(buffer, size, overflow_mode) /\ size < SIZE
      /\ Ahead(got, buffer, size, overflow_mode, wire) = Heard(left, lost, said)
      /\ (~ torn => Whole(Heard(left, lost, said)))
  BY DEF InputIInv, InputOK, Room, NothingLost, Untorn, Say
<1>2. /\ said' = Append(said, c) /\ wire' = wire \o Text[c]
      /\ buffer' = buffer /\ size' = size /\ overflow_mode' = overflow_mode
      /\ got' = got /\ handled' = handled /\ crashed' = crashed
      /\ cuts' = cuts /\ left' = left /\ lost' = lost /\ torn' = torn
  BY DEF Say, bufferVars, shellVars, cutVars
<1>3. PICK r, v, e : r = Append(said, c) /\ v = wire \o Text[c] /\ e = Text[c]
  OBVIOUS
<1>4. r \in Seq(ClientCommands) /\ e \in Seq(Symbols) /\ v \in Seq(Symbols)
  <2>1. r \in Seq(ClientCommands)
    BY <1>1, <1>3, AppendProperties
  <2>2. e \in Seq(Symbols)
    BY <1>3, TextIs
  <2>3. v \in Seq(Symbols)
    BY <1>1, <1>3, <2>2, ConcatProperties
  <2> QED BY <2>1, <2>2, <2>3
<1>5. Heard(left, lost, r) = Scan(Heard(left, lost, said), e)
  <2>1. left \in Seq(Symbols) /\ said \in Seq(ClientCommands) /\ r = Append(said, c)
    BY <1>1, <1>3
  <2>2. Heard(left, lost, r) = Scan(Heard(left, lost, said), Text[c])
    BY <2>1, HeardMore
  <2> QED BY <1>3, <2>2
<1>6. Ahead(got, buffer, size, overflow_mode, v) = Scan(Ahead(got, buffer, size, overflow_mode, wire), e)
  <2>1. /\ v = wire \o e /\ wire \in Seq(Symbols) /\ e \in Seq(Symbols)
        /\ BufferOK(buffer, size, overflow_mode)
    BY <1>1, <1>3, <1>4
  <2>2. KnownMore(buffer, size, overflow_mode, wire, e, v)
    BY <2>1, AheadMore
  <2> QED BY <2>2 DEF KnownMore
<1>7. ASSUME ~ torn PROVE Whole(Heard(left, lost, r))
  <2>1. PICK k : k = Ahead(got, buffer, size, overflow_mode, wire)
    OBVIOUS
  <2>2. Whole(k)
    BY <1>1, <1>7, <2>1
  <2>3. \E d \in Seq(Seq(Symbols)), p \in Seq(Symbols), j \in BOOLEAN : k = K(d, p, j)
    <3>1. Extends(k, got, Scan(K(<<>>, <<>>, overflow_mode), Stream(buffer, size, wire)))
      BY <1>1, <2>1, AheadExtends
    <3>2. PICK x \in Seq(Seq(Symbols)), p \in Seq(Symbols), j \in BOOLEAN : k = K(got \o x, p, j)
      BY <3>1 DEF Extends
    <3>3. PICK d : d = got \o x
      OBVIOUS
    <3>4. d \in Seq(Seq(Symbols))
      BY <1>1, <3>3, LinesJoined
    <3> QED BY <3>2, <3>3, <3>4
  <2>4. PICK d \in Seq(Seq(Symbols)), p \in Seq(Symbols), j \in BOOLEAN : k = K(d, p, j)
    BY <2>3
  <2>5. Whole(Scan(k, Text[c]))
    BY <2>2, <2>4, WholeMore
  <2> QED BY <1>1, <1>3, <1>5, <2>1, <2>5
<1>8. InputOK'
  BY <1>2, <1>3, <1>4 DEF InputIInv, InputOK
<1>9. Room' /\ NothingLost'
  BY <1>1, <1>2, <1>3, <1>5, <1>6 DEF Room, NothingLost
<1>10. Carried' /\ CrashHasACause'
  BY <1>1, <1>2 DEF InputIInv, Carried, CrashHasACause
<1>11. Untorn'
  BY <1>2, <1>3, <1>7 DEF Untorn
<1> QED BY <1>8, <1>9, <1>10, <1>11 DEF InputIInv

LEMMA CutKeeps ==
    ASSUME InputIInv, Cut
    PROVE  InputIInv'
<1>1. /\ crashed = FALSE /\ cuts \in Nat /\ torn \in BOOLEAN
      /\ wire \in Seq(Symbols) /\ got \in Seq(Seq(Symbols))
      /\ BufferOK(buffer, size, overflow_mode) /\ size < SIZE
      /\ Ahead(got, buffer, size, overflow_mode, wire) = Heard(left, lost, said)
      /\ (~ torn => Whole(Heard(left, lost, said)))
  BY DEF InputIInv, InputOK, Room, NothingLost, Untorn, Cut
<1>2. PICK e, c : e = <<>> /\ c = SubSeq(buffer, 1, size)
  OBVIOUS
<1>3. /\ said' = e /\ wire' = e /\ got' = e /\ handled' = e
      /\ buffer' = buffer /\ size' = size /\ overflow_mode' = overflow_mode
      /\ crashed' = crashed /\ cuts' = cuts + 1 /\ left' = c /\ lost' = overflow_mode
      /\ torn' = (torn \/ (size # 0 /\ buffer[size] # NL))
  BY <1>2 DEF Cut, bufferVars
<1>4. c \in Seq(Symbols) /\ overflow_mode \in BOOLEAN
  BY <1>1, <1>2, ContentIs DEF BufferOK
<1>5. InputOK'
  <2>1. /\ e \in Seq(ClientCommands) /\ e \in Seq(Symbols) /\ e \in Seq(Seq(Symbols))
        /\ e \in Seq(TokenLists)
    BY <1>2, EmptySeq
  <2>2. cuts' \in Nat /\ left' \in Seq(Symbols)
    BY <1>1, <1>3, <1>4
  <2>5. lost' \in BOOLEAN /\ crashed' \in BOOLEAN
    <3>1. lost' = overflow_mode /\ crashed' = FALSE
      BY <1>1, <1>3
    <3> QED BY <1>4, <3>1
  <2>3. torn' \in BOOLEAN
    BY <1>1, <1>3
  <2>4. /\ said' \in Seq(ClientCommands) /\ wire' \in Seq(Symbols)
        /\ got' \in Seq(Seq(Symbols)) /\ handled' \in Seq(TokenLists)
    BY <1>3, <2>1
  <2> QED BY <2>2, <2>3, <2>4, <2>5 DEF InputOK
<1>6. Ahead(e, buffer, size, overflow_mode, e) = Heard(c, overflow_mode, e)
  BY <1>2, TextOfNothing DEF Ahead, Stream, Heard
<1>7. ASSUME ~ torn, size = 0 \/ buffer[size] = NL PROVE Whole(Heard(c, overflow_mode, e))
  <2>1. Whole(Ahead(got, buffer, size, overflow_mode, wire))
    BY <1>1, <1>7
  <2>2. Whole(Heard(c, overflow_mode, <<>>))
    BY <1>1, <1>2, <1>7, <2>1, CutWhole
  <2> QED BY <1>2, <2>2
<1>8. HandledAs(e, e)
  BY <1>2 DEF HandledAs
<1>9. Room' /\ NothingLost'
  BY <1>1, <1>3, <1>6 DEF Room, NothingLost
<1>10. Carried' /\ CrashHasACause'
  BY <1>1, <1>3, <1>8 DEF Carried, CrashHasACause
<1>11. Untorn'
  BY <1>3, <1>7 DEF Untorn
<1> QED BY <1>5, <1>9, <1>10, <1>11 DEF InputIInv

LEMMA ReadKeeps ==
    ASSUME InputIInv, vchannel_read
    PROVE  InputIInv'
<1>1. /\ said \in Seq(ClientCommands) /\ wire \in Seq(Symbols) /\ left \in Seq(Symbols)
      /\ got \in Seq(Seq(Symbols)) /\ handled \in Seq(TokenLists) /\ HandledAs(got, handled)
      /\ BufferOK(buffer, size, overflow_mode) /\ size < SIZE
      /\ Ahead(got, buffer, size, overflow_mode, wire) = Heard(left, lost, said)
      /\ (~ torn => Whole(Heard(left, lost, said)))
  BY DEF InputIInv, InputOK, Room, NothingLost, Carried, Untorn
<1>2. /\ said' = said /\ cuts' = cuts /\ left' = left /\ lost' = lost /\ torn' = torn
      /\ crashed = FALSE
  BY DEF vchannel_read, cutVars, InputIInv, InputOK
<1>0. PICK n \in ReadSizes : \E s \in {Filled(n)} :
          /\ wire' = SubSeq(wire, n + 1, Len(wire))
          /\ \/ ~ HasLine(s) /\ Becomes(NoLine(s)) /\ UNCHANGED shellVars
             \/ /\ HasLine(s)
                /\ \E rest \in {Rest(s)}, line \in {SubSeq(s.b, 1, Newline(s.b) - 1)} :
                      Becomes(rest) /\ process_cmds(line)
  BY DEF vchannel_read
<1>3. PICK s :
          /\ s = Filled(n) /\ wire' = SubSeq(wire, n + 1, Len(wire))
          /\ \/ ~ HasLine(s) /\ Becomes(NoLine(s)) /\ UNCHANGED shellVars
             \/ /\ HasLine(s)
                /\ \E rest \in {Rest(s)}, line \in {SubSeq(s.b, 1, Newline(s.b) - 1)} :
                      Becomes(rest) /\ process_cmds(line)
  BY <1>0
<1>4. PICK v : v = SubSeq(wire, n + 1, Len(wire))
  OBVIOUS
<1>5. FilledOK(s, v, got)
  BY <1>1, <1>3, <1>4, FilledKeeps
<1>6. /\ v \in Seq(Symbols) /\ StateOK(s) /\ BufferOK(s.b, s.size, s.overflow)
      /\ Ahead(got, s.b, s.size, s.overflow, v) = Heard(left, lost, said)
  BY <1>1, <1>5 DEF FilledOK
<1>7. wire' = v
  BY <1>3, <1>4
<1>8. Untorn'
  BY <1>1, <1>2 DEF Untorn
<1>9. ASSUME ~ HasLine(s), Becomes(NoLine(s)), UNCHANGED shellVars
      PROVE  InputIInv'
  <2>1. PICK r : r = NoLine(s)
    OBVIOUS
  <2>2. BufferOK(r.b, r.size, r.overflow) /\ r.size < SIZE /\ Known(s, v, r)
    BY <1>6, <1>9, <2>1, NoLineKeeps
  <2>3. Ahead(got, r.b, r.size, r.overflow, v) = Heard(left, lost, said)
    BY <1>6, <2>2 DEF Known
  <2>4. buffer' = r.b /\ size' = r.size /\ overflow_mode' = r.overflow
    BY <1>9, <2>1 DEF Becomes
  <2>5. got' = got /\ handled' = handled /\ crashed' = crashed
    BY <1>9 DEF shellVars
  <2>6. InputOK'
    BY <1>2, <1>6, <1>7, <2>5 DEF InputIInv, InputOK
  <2>7. Room' /\ NothingLost'
    BY <1>2, <1>7, <2>2, <2>3, <2>4, <2>5 DEF Room, NothingLost
  <2>8. Carried' /\ CrashHasACause'
    BY <1>1, <1>2, <2>5 DEF Carried, CrashHasACause
  <2> QED BY <1>8, <2>6, <2>7, <2>8 DEF InputIInv
<1>10. ASSUME HasLine(s), NEW r, r = Rest(s),
              NEW line, line = SubSeq(s.b, 1, Newline(s.b) - 1),
              Becomes(r), process_cmds(line)
       PROVE  InputIInv'
  <2>1. /\ BufferOK(r.b, r.size, r.overflow) /\ r.size < SIZE
        /\ LineOK(line) /\ KnownBut(s, v, r, line)
    BY <1>6, <1>10, RestKeeps
  <2>2. line \in Seq(Symbols)
    BY <2>1 DEF LineOK
  <2>3. buffer' = r.b /\ size' = r.size /\ overflow_mode' = r.overflow
    BY <1>10 DEF Becomes
  <2>4. PICK t : /\ t = Tokens(unescape(line))
                 /\ got' = Append(got, line) /\ handled' = Append(handled, t)
                 /\ \/ crashed' = Falls(t)
                    \/ Spoils(t) /\ crashed' = TRUE
                    \/ Malformed(line) /\ crashed' = TRUE
    BY <1>10 DEF process_cmds
  <2>5. PICK x, y : x = Append(got, line) /\ y = Append(handled, t)
    OBVIOUS
  <2>6. /\ x \in Seq(Seq(Symbols)) /\ y \in Seq(TokenLists) /\ HandledAs(x, y)
        /\ Last(x) = line /\ Last(y) = t
    <3>1. Handles(got, handled, line, t, x, y)
      BY <1>1, <2>2, <2>4, <2>5 DEF Handles
    <3> QED BY <3>1, HandledMore
  <2>7. got' = x /\ handled' = y
    BY <2>4, <2>5
  <2>8. Ahead(x, r.b, r.size, r.overflow, v) = Heard(left, lost, said)
    BY <1>6, <2>1, <2>5 DEF KnownBut
  <2>9. ~ torn => IsSaid(line)
    <3>1. ASSUME ~ torn PROVE IsSaid(line)
      <4>1. Whole(Ahead(x, r.b, r.size, r.overflow, v))
        BY <1>1, <2>8, <3>1
      <4>2. PICK b, m, o : b = r.b /\ m = r.size /\ o = r.overflow
        OBVIOUS
      <4>3. BufferOK(b, m, o) /\ Whole(Ahead(x, b, m, o, v))
        BY <2>1, <4>1, <4>2
      <4> QED BY <1>1, <1>6, <2>2, <2>5, <4>3, LineSaid
    <3> QED BY <3>1
  <2>10. crashed' => Cause(line, t, torn)
    <3>1. ASSUME Falls(t) \/ Spoils(t) \/ Malformed(line) PROVE Cause(line, t, torn)
      <4>1. torn \in BOOLEAN
        BY DEF InputIInv, InputOK
      <4> QED BY <2>2, <2>4, <2>9, <3>1, <4>1, CauseIs
    <3>2. crashed' => Falls(t) \/ Spoils(t) \/ Malformed(line)
      BY <2>4
    <3> QED BY <3>1, <3>2
  <2>11. crashed' \in BOOLEAN
    <3>1. Falls(t) \in BOOLEAN
      BY DEF Falls
    <3> QED BY <2>4, <3>1
  <2>12. InputOK'
    BY <1>2, <1>6, <1>7, <2>6, <2>7, <2>11 DEF InputIInv, InputOK
  <2>13. Room' /\ NothingLost'
    BY <1>2, <1>7, <2>1, <2>3, <2>7, <2>8 DEF Room, NothingLost
  <2>14. Carried'
    BY <2>6, <2>7 DEF Carried
  <2>15. CrashHasACause'
    <3>1. Cause(line, t, torn)
             <=> IF \E c \in ClientCommands : Last(x) \o <<NL>> = Text[c]
                 THEN Spoils(Last(y)) ELSE torn
      BY <2>6 DEF Cause
    <3> QED BY <1>2, <2>7, <2>10, <3>1 DEF CrashHasACause
  <2> QED BY <1>8, <2>12, <2>13, <2>14, <2>15 DEF InputIInv
<1> QED BY <1>3, <1>9, <1>10

LEMMA InputKeeps == InputIInv /\ [InputNext]_inputVars => InputIInv'
<1>. SUFFICES ASSUME InputIInv, [InputNext]_inputVars PROVE InputIInv'
  OBVIOUS
<1>1. ASSUME NEW c \in ClientCommands, Say(c) PROVE InputIInv'
  BY <1>1, SayKeeps
<1>2. CASE Cut
  BY <1>2, CutKeeps
<1>3. CASE vchannel_read
  BY <1>3, ReadKeeps
<1>4. CASE UNCHANGED inputVars
  <2>1. /\ said' = said /\ wire' = wire /\ got' = got /\ handled' = handled
        /\ buffer' = buffer /\ size' = size /\ overflow_mode' = overflow_mode
        /\ crashed' = crashed /\ cuts' = cuts /\ left' = left /\ lost' = lost /\ torn' = torn
    BY <1>4 DEF inputVars, bufferVars, shellVars, cutVars
  <2>2. InputOK' /\ Room' /\ Carried'
    BY <2>1 DEF InputIInv, InputOK, Room, Carried
  <2>3. NothingLost' /\ Untorn'
    BY <2>1 DEF InputIInv, NothingLost, Untorn
  <2>4. CrashHasACause'
    BY <2>1 DEF InputIInv, CrashHasACause
  <2> QED BY <2>2, <2>3, <2>4 DEF InputIInv
<1> QED BY <1>1, <1>2, <1>3, <1>4 DEF InputNext

LEMMA InputInvariant == InputSpec => []InputIInv
BY InputStarts, InputKeeps, PTL DEF InputSpec

-----------------------------------------------------------------------------
(* The theorems.                                                           *)

LEMMA LinesArrive ==
    ASSUME InputIInv
    PROVE  LinesAreTheCommands
<1>1. /\ got \in Seq(Seq(Symbols)) /\ wire \in Seq(Symbols)
      /\ BufferOK(buffer, size, overflow_mode)
      /\ Ahead(got, buffer, size, overflow_mode, wire) = Heard(left, lost, said)
  BY DEF InputIInv, InputOK, Room, NothingLost
<1>2. PICK h, a : /\ h = Ahead(got, buffer, size, overflow_mode, wire)
                  /\ a = Scan(K(<<>>, <<>>, overflow_mode), Stream(buffer, size, wire))
  OBVIOUS
<1>3. Extends(h, got, a)
  BY <1>1, <1>2, AheadExtends
<1>4. PICK e \in Seq(Seq(Symbols)), q \in Seq(Symbols), j \in BOOLEAN :
          a = K(e, q, j) /\ h = K(got \o e, q, j)
  BY <1>3 DEF Extends
<1>5. ToCome = e
  <2>1. ToCome = a.done
    BY <1>2 DEF ToCome, LinesOf, K, Stream
  <2> QED BY <1>4, <2>1, KIs
<1>6. Due = got \o e
  <2>1. Due = h.done
    BY <1>1, <1>2 DEF Due, LinesOf, K, Heard
  <2>2. PICK d : d = got \o e
    OBVIOUS
  <2>3. h = K(d, q, j)
    BY <1>4, <2>2
  <2>4. K(d, q, j).done = d
    BY KIs
  <2> QED BY <2>1, <2>2, <2>3, <2>4
<1> QED BY <1>5, <1>6 DEF LinesAreTheCommands

LEMMA FieldsDo ==
    ASSUME InputIInv
    PROVE  FieldsArrive
<1>1. got \in Seq(Seq(Symbols)) /\ HandledAs(got, handled)
  BY DEF InputIInv, InputOK, Carried
<1>2. SUFFICES ASSUME NEW i \in DOMAIN got, NEW c \in ClientCommands,
                      got[i] \o <<NL>> = Text[c], \A j \in DOMAIN c : "," \notin ToSet(c[j])
               PROVE  handled[i] = c
  BY DEF FieldsArrive
<1>3. PICK line, t : line = got[i] /\ t = handled[i]
  OBVIOUS
<1>4. i \in 1 .. Len(got) /\ line \in Seq(Symbols)
  BY <1>1, <1>3, ElementOfSeq
<1>5. line = Line(c)
  BY <1>2, <1>3, <1>4, TextOfLine
<1>6. t = Tokens(unescape(Line(c)))
  BY <1>1, <1>3, <1>4, <1>5 DEF HandledAs
<1>7. TokensOf(t, c)
  BY <1>6, CommandHandled
<1>8. \A j \in 1 .. Len(c) : CommaFree(c[j])
  <2>1. ASSUME NEW j \in 1 .. Len(c), NEW x \in 1 .. Len(c[j]), IsComma(c[j][x]) PROVE FALSE
    <3>1. c \in Seq(Seq(Symbols))
      BY TextIs
    <3>2. j \in DOMAIN c /\ c[j] \in Seq(Symbols)
      BY <3>1, ElementOfSeq
    <3>3. x \in DOMAIN c[j]
      BY <3>2
    <3>4. c[j][x] = ","
      BY <2>1 DEF IsComma
    <3> QED BY <1>2, <3>2, <3>3, <3>4, Zenon DEF ToSet
  <2> QED BY <2>1 DEF CommaFree
<1>9. t = c
  BY <1>7, <1>8 DEF TokensOf
<1> QED BY <1>3, <1>9

\* There is always room for at least one character more, no string end is among
\* what has come, and in overflow mode nothing is kept (lines 221-283).
THEOREM InputTypeCorrect == InputSpec => [](InputOK /\ Room)
<1>1. InputIInv => InputOK /\ Room
  BY DEF InputIInv
<1> QED BY <1>1, InputInvariant, PTL

\* However the client's lines come in pieces, vchannel_read returns each that
\* fits once, whole and in order, and nothing of one that does not fit; and the
\* fields come out of process_cmds as the client meant them.
THEOREM CommandsDoArrive == InputSpec => []CommandsArrive
<1>1. InputIInv => CommandsArrive
  BY LinesArrive, FieldsDo DEF CommandsArrive
<1> QED BY <1>1, InputInvariant, PTL

\* The shell falls over a client's command only for its escaped commas, and over
\* another line only after a connection that broke off within one.
THEOREM NoCrashWithoutCause == InputSpec => []CrashHasACause
<1>1. InputIInv => CrashHasACause
  BY DEF InputIInv
<1> QED BY <1>1, InputInvariant, PTL
=============================================================================
