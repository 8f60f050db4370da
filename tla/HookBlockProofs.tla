-------------------------- MODULE HookBlockProofs --------------------------
(***************************************************************************)
(* Proofs about HookBlock, for any windows, positions, numbers of requests *)
(* and of changes that the applications make by themselves.                *)
(***************************************************************************)
EXTENDS HookBlock, SequenceTheorems, FiniteSetTheorems, WellFoundedInduction, TLAPS

-----------------------------------------------------------------------------
(* Types.                                                                  *)

MoveLabels == {"moveBlock", "moveSet", "moveWait", "moveCheck", "posRead", "posReport",
               "moveUnblock"}
StateLabels == {"stateCheck", "stateShow", "stateWait"}
FocusLabels == {"focusBlock", "focusSend", "focusWait"}
CloseLabels == {"closeSend", "closeWait"}
ShellLabels == {"idle"} \cup MoveLabels \cup StateLabels \cup FocusLabels \cup CloseLabels

Reports == {"posRead", "posReport"}
MinMaxes == {"minmaxRead", "minmaxWrite", "minmaxDo"}
Closes == {"closeWrite", "closeDo", "ask", "asking"}
WindowLabels == {"idle", "focusAck"} \cup Reports \cup MinMaxes \cup Closes

Wins == Windows \cup {NoWindow}
MoveBlocks == [win : Wins, at : Int]
StateBlocks == [win : Wins, state : Int, serial : Nat]
Locals == [pc : ShellLabels \cup WindowLabels, move : MoveBlocks, state : StateBlocks,
           want : States, left : Int, serving : BOOLEAN]
Messages == [kind : {"ACK"}, serial : Nat]
            \cup [kind : {"POSITION", "STATE"}, win : Windows, arg : Int]
            \cup [kind : {"CREATE", "DESTROY", "DEBUG"}, win : Wins]

DataOK ==
    /\ window \in [Windows -> [open : BOOLEAN, pos : Int, state : States]]
    /\ shdata \in [move : MoveBlocks, state : StateBlocks, focus : Nat]
    /\ acts \in [Windows -> Nat]
ThreadOK ==
    /\ thread \in [Threads -> Locals]
    /\ thread[Shell].pc \in ShellLabels
    /\ \A w \in Windows : thread[w].pc \in WindowLabels
LogOK == log \in Seq(Messages) /\ requests \in Seq(Requests)
TypeOK == DataOK /\ ThreadOK /\ LogOK

-----------------------------------------------------------------------------
(* Who does what.                                                          *)

\* The shell is where the last request takes it.
ShellServes ==
    LET pc == thread[Shell].pc IN
    /\ pc # "idle" => requests # <<>>
    /\ pc \in MoveLabels => request.kind = "POSITION"
    /\ pc \in StateLabels => request.kind = "STATE"
    /\ pc \in FocusLabels => request.kind = "FOCUS"
    /\ pc \in CloseLabels => request.kind = "DESTROY"

\* A window's thread in a call of the shell has it waiting.
Serving ==
    /\ \A w \in Windows : thread[w].serving =>
          /\ request.win = w
          /\ \/ At(Shell, "moveWait") /\ thread[w].pc \in Reports
             \/ At(Shell, "stateWait") /\ thread[w].pc \in Reports \cup MinMaxes
             \/ At(Shell, "focusWait") /\ At(w, "focusAck")
             \/ At(Shell, "closeWait") /\ thread[w].pc \in Closes
    /\ \A w \in Windows : At(w, "focusAck") => thread[w].serving

\* The block variables are those of the request that is being carried out, or of
\* none.
Blocks ==
    /\ At(Shell, "stateShow") \/ At(Shell, "stateWait")
          => shdata.state = [win |-> request.win, state |-> request.arg, serial |-> serial]
    /\ At(Shell, "focusSend") \/ At(Shell, "focusWait") => shdata.focus = serial

\* A block for a state, and a hook's copy of it, is of a request for that window.
OfRequest(b) ==
    b.win # NoWindow => /\ b.serial \in DOMAIN requests
                        /\ requests[b.serial].kind = "STATE"
                        /\ requests[b.serial].win = b.win
StateBlocksOK == OfRequest(shdata.state) /\ \A w \in Windows : OfRequest(thread[w].state)

IInv == TypeOK /\ ShellServes /\ Serving /\ Blocks /\ StateBlocksOK

-----------------------------------------------------------------------------
(* The steps.                                                              *)

\* Every step of the specification is one of these.
LEMMA StepKinds ==
    ASSUME Next
    PROVE  \/ \E r \in Requests : Receive(r)
           \/ Process
           \/ MoveBlock \/ MoveSet \/ MoveAck \/ MoveCheck \/ MoveUnblock
           \/ StateCheck \/ StateShow \/ StateUnblock
           \/ FocusBlock \/ FocusSend \/ FocusDone
           \/ CloseSend \/ CloseDone
           \/ \E t \in Threads : PosRead(t) \/ PosReport(t)
           \/ \E w \in Windows : MinMaxRead(w) \/ MinMaxWrite(w) \/ MinMaxDo(w)
           \/ \E w \in Windows : FocusAck(w) \/ CloseWrite(w) \/ CloseDo(w) \/ Ask(w) \/ Answer(w)
           \/ \E w \in Windows : AppMove(w) \/ AppState(w) \/ AppClose(w)
BY DEF Next, SafeMoveWindow, SafeSetState, SafeFocus, do_destroy, Hook, Threads

\* What a thread writes is a message.
LEMMA PutWrites ==
    ASSUME log \in Seq(Messages), NEW t, NEW m \in Messages, NEW b, Put(t, m, b)
    PROVE  log' \in Seq(Messages)
BY DEF Put, PutMuted, PutMessage, PutTimeout, channelVars

\* The messages are what they are.
LEMMA MessageKinds ==
    ASSUME DataOK, LogOK
    PROVE  /\ \A n \in Nat : Ack(n) \in Messages
           /\ \A w \in Windows : Position(w) \in Messages /\ Destroy(w) \in Messages
           /\ \A w \in Windows, s \in States : State(w, s) \in Messages
           /\ Create \in Messages /\ Debug \in Messages
<1>1. \A n \in Nat : Ack(n) \in Messages
  BY DEF Ack, Messages
<1>2. ASSUME NEW w \in Windows
      PROVE  Position(w) \in Messages /\ Destroy(w) \in Messages
  <2>1. Frame(window[w].pos) \in Int
    BY WindowsAssumption DEF Frame, DataOK
  <2> QED BY <2>1 DEF Messages, Position, Destroy, Wins
<1>3. ASSUME NEW w \in Windows, NEW s \in States PROVE State(w, s) \in Messages
  BY WindowsAssumption DEF Messages, State
<1>4. Create \in Messages /\ Debug \in Messages
  BY DEF Messages, Create, Debug, Wins
<1> QED BY <1>1, <1>2, <1>3, <1>4

\* Requests have numbers, windows and arguments.
LEMMA RequestKinds ==
    ASSUME LogOK
    PROVE  /\ serial \in Nat
           /\ requests # <<>> => serial \in DOMAIN requests /\ request \in Requests
           /\ \A r \in Requests : r.win \in Windows /\ r.arg \in Int /\ r.kind \in Kinds
           /\ \A r \in Requests : r.kind = "STATE" => r.arg \in States
BY WindowsAssumption DEF LogOK, Requests, serial, request

\* The log and the requests stay sequences of such.
LEMMA LogInvariance ==
    ASSUME IInv, [Next]_vars
    PROVE  LogOK'
<1> USE DEF IInv, TypeOK
<1>1. log' \in Seq(Messages) /\ requests' = requests => LogOK'
  BY DEF LogOK
<1>2. log \in Seq(Messages)
  BY DEF LogOK
<1>3. thread[Shell].pc # "idle" => serial \in Nat /\ request.win \in Windows
  BY RequestKinds DEF ShellServes
<1>4. \A w \in Windows : thread[w].state.serial \in Nat /\ thread[w].want \in States
  BY DEF ThreadOK, Locals, StateBlocks, Threads
<1>5. shdata.focus \in Nat
  BY DEF DataOK
<1>6. CASE UNCHANGED vars
  BY <1>1, <1>2, <1>6 DEF vars, channelVars
<1>7. ASSUME NEW r \in Requests, Receive(r) PROVE LogOK'
  BY <1>2, <1>7 DEF Receive, LogOK, channelVars
<1>8. CASE Process
  BY <1>1, <1>2, <1>8 DEF Process
<1>9. CASE MoveBlock \/ MoveCheck
  <2>1. \/ log' = log
        \/ \E t, b : Put(t, Debug, b)
    BY <1>9 DEF MoveBlock, MoveCheck, channelVars
  <2>2. requests' = requests
    BY <1>9 DEF MoveBlock, MoveCheck
  <2>3. Debug \in Messages
    BY MessageKinds
  <2> QED BY <2>1, <2>2, <2>3, <1>1, <1>2, PutWrites
<1>10. CASE MoveAck \/ StateCheck
  <2>1. \/ log' = log
        \/ \E t, b : Put(t, Ack(serial), b)
    BY <1>10 DEF MoveAck, StateCheck, channelVars
  <2>2. requests' = requests /\ thread[Shell].pc # "idle"
    BY <1>10 DEF MoveAck, StateCheck, At
  <2>3. Ack(serial) \in Messages
    BY <2>2, <1>3, MessageKinds
  <2> QED BY <2>1, <2>2, <2>3, <1>1, <1>2, PutWrites
<1>11. CASE \/ MoveSet \/ MoveUnblock \/ StateShow \/ StateUnblock \/ FocusBlock
            \/ FocusSend \/ FocusDone \/ CloseSend \/ CloseDone
  BY <1>1, <1>2, <1>11 DEF MoveSet, MoveUnblock, StateShow, StateUnblock, FocusBlock,
     FocusSend, FocusDone, CloseSend, CloseDone, channelVars
<1>12. ASSUME NEW t \in Threads, PosRead(t) PROVE LogOK'
  BY <1>1, <1>2, <1>12 DEF PosRead, channelVars
<1>13. ASSUME NEW t \in Threads, PosReport(t) PROVE LogOK'
  <2>. DEFINE w == IF t = Shell THEN request.win ELSE t
  <2>1. w \in Windows
    <3>1. t = Shell => thread[Shell].pc # "idle"
      BY <1>13 DEF PosReport, At
    <3> QED BY <3>1, <1>3 DEF Threads
  <2>2. log' = log \/ Put(t, Position(w), TRUE)
    BY <1>13 DEF PosReport, channelVars
  <2>3. requests' = requests
    BY <1>13 DEF PosReport
  <2>4. Position(w) \in Messages
    BY <2>1, MessageKinds
  <2> HIDE DEF w
  <2> QED BY <2>2, <2>3, <2>4, <1>1, <1>2, PutWrites
<1>14. ASSUME NEW w \in Windows, MinMaxRead(w) \/ MinMaxDo(w) PROVE LogOK'
  BY <1>1, <1>2, <1>14 DEF MinMaxRead, MinMaxDo, channelVars
<1>15. ASSUME NEW w \in Windows, MinMaxWrite(w) PROVE LogOK'
  <2>1. \/ Put(w, Ack(thread[w].state.serial), FALSE)
        \/ Put(w, State(w, thread[w].want), FALSE)
        \/ Put(w, Debug, FALSE)
    BY <1>15 DEF MinMaxWrite
  <2>2. requests' = requests
    BY <1>15 DEF MinMaxWrite
  <2>3. /\ Ack(thread[w].state.serial) \in Messages /\ State(w, thread[w].want) \in Messages
        /\ Debug \in Messages
    BY <1>4, MessageKinds
  <2> QED BY <2>1, <2>2, <2>3, <1>1, <1>2, PutWrites
<1>16. ASSUME NEW w \in Windows, FocusAck(w) \/ CloseWrite(w) \/ Ask(w) PROVE LogOK'
  <2>1. \E m \in {Ack(shdata.focus), Destroy(w), Create} : Put(w, m, FALSE)
    BY <1>16 DEF FocusAck, CloseWrite, Ask
  <2>2. requests' = requests
    BY <1>16 DEF FocusAck, CloseWrite, Ask
  <2>3. Ack(shdata.focus) \in Messages /\ Destroy(w) \in Messages /\ Create \in Messages
    BY <1>5, MessageKinds
  <2> QED BY <2>1, <2>2, <2>3, <1>1, <1>2, PutWrites
<1>17. ASSUME NEW w \in Windows,
              CloseDo(w) \/ Answer(w) \/ AppMove(w) \/ AppState(w) \/ AppClose(w)
       PROVE  LogOK'
  BY <1>1, <1>2, <1>17 DEF CloseDo, Answer, AppMove, AppState, AppClose, channelVars
<1> QED
  BY StepKinds, <1>6, <1>7, <1>8, <1>9, <1>10, <1>11, <1>12, <1>13, <1>14, <1>15, <1>16, <1>17

\* So do the windows, the block variables and what the applications have done.
LEMMA DataInvariance ==
    ASSUME IInv, [Next]_vars
    PROVE  DataOK'
<1> USE DEF IInv, TypeOK
<1>1. DataOK /\ UNCHANGED <<window, shdata, acts>> => DataOK'
  BY DEF DataOK
<1>2. thread[Shell].pc # "idle" => /\ serial \in Nat /\ request \in Requests
                                   /\ request.win \in Windows /\ request.arg \in Int
                                   /\ Target \in Int
  BY RequestKinds, WindowsAssumption DEF ShellServes, Target
<1>3. \A w \in Windows : thread[w].want \in States
  BY DEF ThreadOK, Locals, Threads
<1>a. ASSUME NEW b \in MoveBlocks, shdata' = [shdata EXCEPT !.move = b],
             UNCHANGED <<window, acts>>
      PROVE  DataOK'
  BY <1>a DEF DataOK
<1>b. ASSUME NEW b \in StateBlocks, shdata' = [shdata EXCEPT !.state = b],
             UNCHANGED <<window, acts>>
      PROVE  DataOK'
  BY <1>b DEF DataOK
<1>4. CASE UNCHANGED vars
  BY <1>1, <1>4 DEF vars
<1>5. CASE (\E r \in Requests : Receive(r)) \/ Process
  BY <1>1, <1>5 DEF Receive, Process
<1>6. CASE MoveBlock
  <2>1. \E x \in Int : shdata' = [shdata EXCEPT !.move = [win |-> request.win, at |-> x]]
    BY <1>2, <1>6 DEF MoveBlock, Blocked, At
  <2>2. request.win \in Windows /\ UNCHANGED <<window, acts>>
    BY <1>2, <1>6 DEF MoveBlock, At
  <2> QED BY <2>1, <2>2, <1>a DEF MoveBlocks, Wins
<1>7. CASE MoveSet
  <2>1. \/ UNCHANGED window
        \/ \E p \in Int : window' = [window EXCEPT ![request.win].pos = p]
    BY <1>2, <1>7, WindowsAssumption DEF MoveSet, At
  <2>2. UNCHANGED <<shdata, acts>>
    BY <1>7 DEF MoveSet
  <2>3. ASSUME NEW p \in Int, window' = [window EXCEPT ![request.win].pos = p]
        PROVE  window' \in [Windows -> [open : BOOLEAN, pos : Int, state : States]]
    BY <2>3 DEF DataOK
  <2> QED BY <2>1, <2>2, <2>3 DEF DataOK
<1>8. CASE \/ MoveAck \/ MoveCheck \/ StateShow \/ FocusSend \/ FocusDone \/ CloseSend
           \/ CloseDone
  BY <1>1, <1>8 DEF MoveAck, MoveCheck, StateShow, FocusSend, FocusDone, CloseSend, CloseDone
<1>9. CASE MoveUnblock
  <2>1. NoMove \in MoveBlocks
    BY DEF NoMove, MoveBlocks, Wins
  <2> QED BY <2>1, <1>9, <1>a DEF MoveUnblock
<1>10. CASE StateCheck
  <2>1. [win |-> request.win, state |-> request.arg, serial |-> serial] \in StateBlocks
    BY <1>2, <1>10 DEF StateCheck, At, StateBlocks, Wins
  <2>2. \/ UNCHANGED shdata
        \/ shdata' = [shdata EXCEPT !.state = [win |-> request.win, state |-> request.arg,
                                               serial |-> serial]]
    BY <1>10 DEF StateCheck
  <2>3. UNCHANGED <<window, acts>>
    BY <1>10 DEF StateCheck
  <2> QED BY <2>1, <2>2, <2>3, <1>1, <1>b
<1>11. CASE StateUnblock
  <2>. DEFINE T == [move : MoveBlocks, state : StateBlocks, focus : Nat]
              s == [shdata EXCEPT !.state.win = NoWindow]
  <2>1. shdata \in T
    BY DEF DataOK
  <2>2. s \in T
    BY <2>1 DEF StateBlocks, Wins
  <2>3. [s EXCEPT !.state.state = -1] \in T
    <3> HIDE DEF s
    <3> QED BY <2>2 DEF StateBlocks
  <2>4. shdata' = [s EXCEPT !.state.state = -1]
    BY <1>11 DEF StateUnblock
  <2>5. UNCHANGED <<window, acts>>
    BY <1>11 DEF StateUnblock
  <2> QED BY <2>3, <2>4, <2>5 DEF DataOK
<1>12. CASE FocusBlock
  BY <1>2, <1>12 DEF FocusBlock, DataOK, At
<1>13. ASSUME NEW t \in Threads, PosRead(t) \/ PosReport(t) PROVE DataOK'
  BY <1>1, <1>13 DEF PosRead, PosReport
<1>14. ASSUME NEW w \in Windows,
              \/ MinMaxRead(w) \/ MinMaxWrite(w) \/ FocusAck(w) \/ CloseWrite(w) \/ Ask(w)
              \/ Answer(w)
       PROVE  DataOK'
  BY <1>1, <1>14 DEF MinMaxRead, MinMaxWrite, FocusAck, CloseWrite, Ask, Answer
<1>15. ASSUME NEW w \in Windows, MinMaxDo(w) PROVE DataOK'
  BY <1>3, <1>15 DEF MinMaxDo, DataOK
<1>16. ASSUME NEW w \in Windows, CloseDo(w) PROVE DataOK'
  BY <1>16 DEF CloseDo, DataOK
<1>17. ASSUME NEW w \in Windows, AppMove(w) PROVE DataOK'
  BY <1>17, WindowsAssumption DEF AppMove, DataOK
<1>18. ASSUME NEW w \in Windows, AppState(w) \/ AppClose(w) PROVE DataOK'
  BY <1>18 DEF AppState, AppClose, DataOK
<1> QED
  BY StepKinds, <1>4, <1>5, <1>6, <1>7, <1>8, <1>9, <1>10, <1>11, <1>12, <1>13, <1>14,
     <1>15, <1>16, <1>17, <1>18

\* A thread that has calls of update_position to make, and its local variables.
Reporter(l, n) == [l EXCEPT !.pc = "posRead", !.left = n]
Server(l, b) == [l EXCEPT !.serving = b]

LEMMA LocalsUpdate ==
    /\ \A l \in Locals, n \in Int : Reporter(l, n) \in Locals /\ Reporter(l, n).pc = "posRead"
    /\ \A l \in Locals, b \in BOOLEAN : Server(l, b) \in Locals /\ Server(l, b).pc = l.pc
<1>1. ASSUME NEW l \in Locals, NEW n \in Int
      PROVE  Reporter(l, n) \in Locals /\ Reporter(l, n).pc = "posRead"
  <2>. DEFINE k == [l EXCEPT !.pc = "posRead"]
  <2>1. k \in Locals /\ k.pc = "posRead"
    BY DEF Locals, ShellLabels, MoveLabels
  <2>2. Reporter(l, n) = [k EXCEPT !.left = n]
    BY DEF Reporter
  <2>. HIDE DEF k
  <2> QED BY <2>1, <2>2 DEF Locals
<1>2. ASSUME NEW l \in Locals, NEW b \in BOOLEAN
      PROVE  Server(l, b) \in Locals /\ Server(l, b).pc = l.pc
  BY DEF Locals, Server
<1> QED BY <1>1, <1>2

\* And the threads keep to their code.
LEMMA ThreadInvariance ==
    ASSUME IInv, [Next]_vars
    PROVE  ThreadOK'
<1> USE DEF IInv, TypeOK
<1> DEFINE Labels(t) == IF t = Shell THEN ShellLabels ELSE WindowLabels
<1>1. ASSUME thread' \in [Threads -> Locals],
             \A t \in Threads : thread'[t].pc \in Labels(t)
      PROVE  ThreadOK'
  BY <1>1, ThreadsAssumption DEF ThreadOK, Threads
<1>2. /\ thread \in [Threads -> Locals]
      /\ \A t \in Threads : thread[t].pc \in Labels(t)
  BY ThreadsAssumption DEF ThreadOK, Threads
<1> HIDE DEF Labels
\* One thread goes on ...
<1>3. ASSUME NEW t \in Threads, NEW l \in Locals, l.pc \in Labels(t),
             thread' = [thread EXCEPT ![t] = l]
      PROVE  ThreadOK'
  BY <1>1, <1>2, <1>3
\* ... to another line, at least.
<1>4. ASSUME NEW t \in Threads, NEW pc \in Labels(t), thread' = [thread EXCEPT ![t].pc = pc]
      PROVE  ThreadOK'
  <2>1. pc \in ShellLabels \cup WindowLabels
    BY <1>4 DEF Labels
  <2>2. [thread[t] EXCEPT !.pc = pc] \in Locals /\ [thread[t] EXCEPT !.pc = pc].pc = pc
    BY <1>2, <2>1 DEF Locals
  <2>3. thread' = [thread EXCEPT ![t] = [thread[t] EXCEPT !.pc = pc]]
    BY <1>4, <1>2
  <2> QED BY <2>2, <2>3, <1>3
\* Or the shell sends one off and waits for it.
<1>5. ASSUME NEW w \in Windows, NEW pc \in ShellLabels, NEW l \in Locals, l.pc \in WindowLabels,
             thread' = [thread EXCEPT ![Shell].pc = pc, ![w] = l]
      PROVE  ThreadOK'
  <2>1. w # Shell /\ w \in Threads /\ Shell \in Threads
    BY ThreadsAssumption DEF Threads
  <2>2. [thread[Shell] EXCEPT !.pc = pc] \in Locals /\ [thread[Shell] EXCEPT !.pc = pc].pc = pc
    BY <1>2, <2>1 DEF Locals
  <2>3. thread' = [thread EXCEPT ![Shell] = [thread[Shell] EXCEPT !.pc = pc], ![w] = l]
    BY <1>5, <1>2, <2>1
  <2> HIDE DEF Labels
  <2>4. thread' \in [Threads -> Locals]
    BY <2>2, <2>3, <1>2
  <2>5. \A t \in Threads : thread'[t].pc \in Labels(t)
    BY <2>1, <2>2, <2>3, <1>2, <1>5 DEF Labels
  <2> QED BY <2>4, <2>5, <1>1
<1>6. Idle \in Locals /\ Idle.pc = "idle"
  BY WindowsAssumption DEF Idle, Locals, NoMove, NoState, MoveBlocks, StateBlocks, Wins, ShellLabels
<1>7. \A n \in Nat, b \in BOOLEAN :
          Reporting(n, b) \in Locals /\ Reporting(n, b).pc \in {"idle", "posRead"}
  <2>1. \A n \in Nat, b \in BOOLEAN :
            Reporting(n, b) = IF n = 0 THEN Idle ELSE Server(Reporter(Idle, n), b)
    BY DEF Reporting, Server, Reporter
  <2> QED BY <2>1, <1>6, LocalsUpdate
<1>8. Labels(Shell) = ShellLabels /\ \A w \in Windows : Labels(w) = WindowLabels
  BY ThreadsAssumption DEF Labels
<1>9. Shell \in Threads /\ \A w \in Windows : w \in Threads
  BY DEF Threads
<1>10. thread[Shell].pc # "idle" => request.win \in Windows /\ request \in Requests
  BY RequestKinds DEF ShellServes
<1>11. CASE UNCHANGED vars \/ Process
  BY <1>11, <1>1, <1>2 DEF vars, Process
<1>12. ASSUME NEW r \in Requests, Receive(r) PROVE ThreadOK'
  <2>1. FirstLabel(r.kind) \in ShellLabels
    BY RequestKinds, BoundsAssumption DEF FirstLabel, ShellLabels, MoveLabels, StateLabels,
       FocusLabels, CloseLabels
  <2> QED BY <2>1, <1>12, <1>4, <1>8, <1>9 DEF Receive, Goto
<1>13. CASE MoveBlock \/ MoveAck \/ MoveCheck \/ MoveUnblock \/ StateCheck \/ StateUnblock
            \/ FocusBlock \/ FocusDone \/ CloseDone
  <2>1. \E pc \in ShellLabels : Goto(Shell, pc)
    BY <1>13 DEF MoveBlock, MoveAck, MoveCheck, MoveUnblock, StateCheck, StateUnblock, FocusBlock,
       FocusDone, CloseDone, ShellLabels, MoveLabels, StateLabels, FocusLabels, CloseLabels
  <2> QED BY <2>1, <1>4, <1>8, <1>9 DEF Goto
<1>14. CASE MoveSet
  <2>. DEFINE w == request.win
  <2>1. w \in Windows /\ "moveWait" \in ShellLabels
    BY <1>14, <1>10 DEF MoveSet, At, ShellLabels, MoveLabels
  <2>2. CASE Goto(Shell, "moveWait")
    BY <2>1, <2>2, <1>4, <1>8, <1>9 DEF Goto
  <2>3. CASE \E n \in Nat : thread' = [thread EXCEPT ![Shell].pc = "moveWait",
                                                    ![w] = Reporting(n, TRUE)]
    <3>1. PICK n \in Nat : thread' = [thread EXCEPT ![Shell].pc = "moveWait",
                                                   ![w] = Reporting(n, TRUE)]
      BY <2>3
    <3>2. Reporting(n, TRUE) \in Locals /\ Reporting(n, TRUE).pc \in WindowLabels
      BY <1>7 DEF WindowLabels, Reports
    <3> QED BY <3>1, <3>2, <2>1, <1>5
  <2>4. \A p : Calls(w, p) \subseteq Nat
    BY DEF Calls
  <2> QED BY <2>2, <2>3, <2>4, <1>14 DEF MoveSet
<1>15. CASE StateShow
  <2>. DEFINE w == request.win
              l == [thread[w] EXCEPT !.pc = "minmaxRead", !.want = request.arg, !.serving = TRUE]
  <2>1. /\ w \in Windows /\ "stateWait" \in ShellLabels /\ "minmaxRead" \in WindowLabels
        /\ request.arg \in States
    BY <1>15, <1>10, RequestKinds DEF StateShow, At, ShellLabels, StateLabels, WindowLabels, MinMaxes,
       ShellServes
  <2>2. CASE Goto(Shell, "stateWait")
    BY <2>1, <2>2, <1>4, <1>8, <1>9 DEF Goto
  <2>3. CASE thread' = [thread EXCEPT ![Shell].pc = "stateWait", ![w].pc = "minmaxRead",
                                      ![w].want = request.arg, ![w].serving = TRUE]
    <3>1. w # Shell
      BY <2>1, ThreadsAssumption
    <3>2. thread' = [thread EXCEPT ![Shell].pc = "stateWait", ![w] = l]
      BY <3>1, <2>1, <2>3, <1>2, <1>9
    <3>3. l \in Locals /\ l.pc = "minmaxRead"
      BY <2>1, <1>2, <1>9 DEF Locals
    <3> HIDE DEF l
    <3> QED BY <3>2, <3>3, <2>1, <1>5
  <2> QED BY <2>2, <2>3, <1>15 DEF StateShow
<1>16. CASE FocusSend \/ CloseSend
  <2>. DEFINE w == request.win
              l(pc) == [thread[w] EXCEPT !.pc = pc, !.serving = TRUE]
  <2>1. w \in Windows /\ {"focusWait", "closeWait"} \subseteq ShellLabels
    BY <1>16, <1>10 DEF FocusSend, CloseSend, At, ShellLabels, FocusLabels, CloseLabels
  <2>2. CASE \E pc \in {"focusWait", "closeWait"} : Goto(Shell, pc)
    BY <2>1, <2>2, <1>4, <1>8, <1>9 DEF Goto
  <2>3. CASE \E pc1 \in {"focusWait", "closeWait"}, pc2 \in {"focusAck", "closeWrite", "ask"} :
                thread' = [thread EXCEPT ![Shell].pc = pc1, ![w].pc = pc2, ![w].serving = TRUE]
    <3>1. PICK pc1 \in {"focusWait", "closeWait"}, pc2 \in {"focusAck", "closeWrite", "ask"} :
                thread' = [thread EXCEPT ![Shell].pc = pc1, ![w].pc = pc2, ![w].serving = TRUE]
      BY <2>3
    <3>2. w # Shell
      BY <2>1, ThreadsAssumption
    <3>3. thread' = [thread EXCEPT ![Shell].pc = pc1, ![w] = l(pc2)]
      BY <3>1, <3>2, <2>1, <1>2, <1>9
    <3>4. l(pc2) \in Locals /\ l(pc2).pc = pc2 /\ pc2 \in WindowLabels
      BY ZenonT(40), <2>1, <1>2, <1>9 DEF Locals, WindowLabels, Closes
    <3> HIDE DEF l
    <3> QED BY <3>3, <3>4, <2>1, <1>5
  <2>4. CASE FocusSend
    BY <2>2, <2>3, <2>4 DEF FocusSend
  <2>5. CASE CloseSend
    BY <2>2, <2>3, <2>5 DEF CloseSend
  <2> QED BY <2>4, <2>5, <1>16
<1>17. ASSUME NEW t \in Threads, PosRead(t) PROVE ThreadOK'
  <2>1. shdata.move \in MoveBlocks /\ "posReport" \in Labels(t)
    BY DEF DataOK, Labels, ShellLabels, WindowLabels, MoveLabels, Reports
  <2>. DEFINE l == [thread[t] EXCEPT !.pc = "posReport", !.move = shdata.move]
  <2>2. thread' = [thread EXCEPT ![t] = l]
    BY <1>17, <1>2 DEF PosRead
  <2>3. l \in Locals /\ l.pc = "posReport"
    BY <2>1, <1>2 DEF Locals, ShellLabels, MoveLabels
  <2> HIDE DEF l
  <2> QED BY <2>1, <2>2, <2>3, <1>3
<1>18. ASSUME NEW t \in Threads, PosReport(t) PROVE ThreadOK'
  <2>1. AfterReport(t) \in Locals /\ AfterReport(t).pc \in Labels(t)
    <3>1. CASE t = Shell
      BY <3>1, <1>6 DEF AfterReport, Locals, Idle, Labels, ShellLabels, MoveLabels
    <3>2. CASE t # Shell /\ thread[t].left = 1
      BY <3>2, <1>6 DEF AfterReport, Labels, WindowLabels
    <3>3. CASE t # Shell /\ thread[t].left # 1
      <4>1. thread[t] \in Locals /\ thread[t].left - 1 \in Int
        BY <1>2 DEF Locals
      <4>2. AfterReport(t) = Reporter(thread[t], thread[t].left - 1)
        BY <3>3 DEF AfterReport, Reporter
      <4>3. "posRead" \in WindowLabels
        BY DEF WindowLabels, Reports
      <4>4. AfterReport(t) \in Locals /\ AfterReport(t).pc = "posRead"
        BY <4>1, <4>2, LocalsUpdate
      <4> QED BY <4>3, <4>4, <3>3 DEF Labels
    <3> QED BY <3>1, <3>2, <3>3
  <2>2. thread' = [thread EXCEPT ![t] = AfterReport(t)]
    BY <1>18 DEF PosReport
  <2> QED BY <2>1, <2>2, <1>3
<1>19. ASSUME NEW w \in Windows, MinMaxRead(w) PROVE ThreadOK'
  <2>1. shdata.state \in StateBlocks /\ "minmaxWrite" \in WindowLabels
    BY DEF DataOK, WindowLabels, MinMaxes
  <2>. DEFINE l == [thread[w] EXCEPT !.pc = "minmaxWrite", !.state = shdata.state]
  <2>2. thread' = [thread EXCEPT ![w] = l]
    BY <1>19, <1>2, <1>9 DEF MinMaxRead
  <2>3. l \in Locals /\ l.pc = "minmaxWrite"
    BY <2>1, <1>2, <1>9 DEF Locals
  <2> HIDE DEF l
  <2>4. w \in Threads /\ l.pc \in Labels(w)
    BY <2>1, <2>3, <1>8, <1>9
  <2> QED BY <2>2, <2>3, <2>4, <1>3
<1>20. ASSUME NEW w \in Windows,
              \/ MinMaxWrite(w) \/ CloseWrite(w) \/ Ask(w) \/ AppClose(w) \/ Goto(w, "closeWrite")
       PROVE  ThreadOK'
  <2>1. \E pc \in WindowLabels : Goto(w, pc)
    BY <1>20 DEF MinMaxWrite, CloseWrite, Ask, AppClose, WindowLabels, MinMaxes, Closes
  <2> QED BY <2>1, <1>4, <1>8, <1>9 DEF Goto
<1>21. ASSUME NEW w \in Windows, FocusAck(w) \/ CloseDo(w) \/ Answer(w) PROVE ThreadOK'
  <2>1. Goto(w, "closeWrite") \/ thread' = [thread EXCEPT ![w] = Idle]
    BY <1>21 DEF FocusAck, CloseDo, Answer
  <2> QED BY <2>1, <1>20, <1>3, <1>6, <1>8, <1>9 DEF WindowLabels
<1>22. ASSUME NEW w \in Windows, MinMaxDo(w) \/ AppMove(w) PROVE ThreadOK'
  <2>1. thread[w].serving \in BOOLEAN /\ \A p : Calls(w, p) \subseteq Nat
    BY <1>2, <1>9 DEF Locals, Calls
  <2>2. \E n \in Nat, b \in BOOLEAN : thread' = [thread EXCEPT ![w] = Reporting(n, b)]
    <3>1. CASE MinMaxDo(w)
      BY <3>1, <2>1 DEF MinMaxDo
    <3>2. CASE AppMove(w)
      BY <3>2, <2>1 DEF AppMove
    <3> QED BY <3>1, <3>2, <1>22
  <2>3. {"idle", "posRead"} \subseteq WindowLabels
    BY DEF WindowLabels, Reports
  <2> QED BY <2>2, <2>3, <1>3, <1>7, <1>8, <1>9
<1>23. ASSUME NEW w \in Windows, AppState(w) PROVE ThreadOK'
  <2>1. PICK s \in States : thread' = [thread EXCEPT ![w].pc = "minmaxRead", ![w].want = s]
    BY <1>23 DEF AppState
  <2>. DEFINE l == [thread[w] EXCEPT !.pc = "minmaxRead", !.want = s]
  <2>2. thread' = [thread EXCEPT ![w] = l]
    BY <2>1, <1>2, <1>9
  <2>3. l \in Locals /\ l.pc = "minmaxRead" /\ "minmaxRead" \in WindowLabels
    BY <1>2, <1>9 DEF Locals, WindowLabels, MinMaxes
  <2> HIDE DEF l
  <2>4. w \in Threads /\ l.pc \in Labels(w)
    BY <2>3, <1>8, <1>9
  <2> QED BY <2>2, <2>3, <2>4, <1>3
<1> QED
  BY StepKinds, <1>11, <1>12, <1>13, <1>14, <1>15, <1>16, <1>17, <1>18, <1>19, <1>20, <1>21,
     <1>22, <1>23

\* A step of a window's thread leaves the others', and the shell's, alone.
WindowStep(w) ==
    \/ PosRead(w) \/ PosReport(w) \/ MinMaxRead(w) \/ MinMaxWrite(w) \/ MinMaxDo(w)
    \/ FocusAck(w) \/ CloseWrite(w) \/ CloseDo(w) \/ Ask(w) \/ Answer(w)
    \/ AppMove(w) \/ AppState(w) \/ AppClose(w)

LEMMA OthersWait ==
    ASSUME IInv, NEW w \in Windows, WindowStep(w)
    PROVE  /\ \A t \in Threads \ {w} : thread'[t] = thread[t]
           /\ UNCHANGED <<shdata, requests>>
<1>1. thread \in [Threads -> Locals] /\ w \in Threads
  BY DEF IInv, TypeOK, ThreadOK, Threads
<1>2. \A l : thread' = [thread EXCEPT ![w] = l] => \A t \in Threads \ {w} : thread'[t] = thread[t]
  BY <1>1
<1>3. UNCHANGED <<shdata, requests>>
  BY DEF WindowStep, PosRead, PosReport, MinMaxRead, MinMaxWrite, MinMaxDo, FocusAck, CloseWrite,
     CloseDo, Ask, Answer, AppMove, AppState, AppClose
<1>4. \E l : thread' = [thread EXCEPT ![w] = l]
  <2>1. CASE \E pc : Goto(w, pc)
    BY <2>1 DEF Goto
  <2>2. CASE PosRead(w) \/ MinMaxRead(w) \/ AppState(w)
    BY <2>2 DEF PosRead, MinMaxRead, AppState
  <2>3. CASE PosReport(w) \/ MinMaxDo(w) \/ FocusAck(w) \/ CloseDo(w) \/ Answer(w) \/ AppMove(w)
    BY <2>1, <2>3 DEF PosReport, MinMaxDo, FocusAck, CloseDo, Answer, AppMove
  <2>4. CASE MinMaxWrite(w) \/ CloseWrite(w) \/ Ask(w) \/ AppClose(w)
    BY <2>1, <2>4 DEF MinMaxWrite, CloseWrite, Ask, AppClose
  <2> QED BY <2>2, <2>3, <2>4 DEF WindowStep
<1> QED BY <1>2, <1>3, <1>4

\* And what the shell does by itself leaves the windows' threads alone.
ShellStep ==
    \/ Process \/ MoveBlock \/ MoveAck \/ MoveCheck \/ MoveUnblock \/ PosRead(Shell) \/ PosReport(Shell)
    \/ StateCheck \/ StateUnblock \/ FocusBlock \/ FocusDone \/ CloseDone

LEMMA WindowsWait ==
    ASSUME IInv, ShellStep \/ \E r \in Requests : Receive(r)
    PROVE  /\ \A w \in Windows : thread'[w] = thread[w]
           /\ UNCHANGED <<window, acts>>
<1>1. thread \in [Threads -> Locals] /\ \A w \in Windows : w \in Threads /\ w # Shell
  BY ThreadsAssumption DEF IInv, TypeOK, ThreadOK, Threads
<1>2. \A l : thread' = [thread EXCEPT ![Shell] = l] => \A w \in Windows : thread'[w] = thread[w]
  BY <1>1
<1>3. UNCHANGED <<window, acts>>
  BY DEF ShellStep, Process, MoveBlock, MoveAck, MoveCheck, MoveUnblock, PosRead, PosReport, StateCheck,
     StateUnblock, FocusBlock, FocusDone, CloseDone, Receive
<1>4. thread' = thread \/ \E l : thread' = [thread EXCEPT ![Shell] = l]
  <2>1. CASE Process
    BY <2>1 DEF Process
  <2>2. CASE \E pc : Goto(Shell, pc)
    BY <2>2 DEF Goto
  <2>3. CASE PosRead(Shell) \/ PosReport(Shell)
    BY <2>3 DEF PosRead, PosReport
  <2>4. CASE MoveBlock \/ MoveAck \/ MoveCheck \/ MoveUnblock
    BY <2>2, <2>4 DEF MoveBlock, MoveAck, MoveCheck, MoveUnblock
  <2>5. CASE StateCheck \/ StateUnblock \/ FocusBlock \/ FocusDone \/ CloseDone
    BY <2>2, <2>5 DEF StateCheck, StateUnblock, FocusBlock, FocusDone, CloseDone
  <2>6. CASE \E r \in Requests : Receive(r)
    BY <2>2, <2>6 DEF Receive
  <2> QED BY <2>1, <2>3, <2>4, <2>5, <2>6 DEF ShellStep
<1> QED BY <1>2, <1>3, <1>4

\* The shell calls into the thread of the request's window, which is idle, and
\* waits for it unless there is nothing to wait for.
ShellCall == MoveSet \/ StateShow \/ FocusSend \/ CloseSend
Waits == {<<"moveSet", "moveWait">>, <<"stateShow", "stateWait">>, <<"focusSend", "focusWait">>,
          <<"closeSend", "closeWait">>}
CallsOut == {<<"moveSet", "posRead">>, <<"stateShow", "minmaxRead">>, <<"focusSend", "focusAck">>,
           <<"closeSend", "closeWrite">>, <<"closeSend", "ask">>}

LEMMA CallsAreOfTheWindow ==
    ASSUME IInv, ShellCall
    PROVE  LET w == request.win
               from == thread[Shell].pc IN
           /\ w \in Windows /\ At(w, "idle")
           /\ <<from, thread'[Shell].pc>> \in Waits
           /\ \A t \in Windows \ {w} : thread'[t] = thread[t]
           /\ \/ thread'[w] = thread[w]
              \/ thread'[w] = Idle
              \/ /\ <<from, thread'[w].pc>> \in CallsOut /\ thread'[w].serving
                 /\ from = "stateShow" => thread'[w].want = request.arg
                 /\ thread'[w].state \in {thread[w].state, NoState}
           /\ UNCHANGED <<shdata, channelVars, requests, acts>>
<1>. DEFINE w == request.win
<1>1. thread \in [Threads -> Locals]
  BY DEF IInv, TypeOK, ThreadOK
<1>2. thread[Shell].pc # "idle"
  BY DEF ShellCall, MoveSet, StateShow, FocusSend, CloseSend, At
<1>3. w \in Windows
  BY <1>2, RequestKinds DEF IInv, TypeOK, ShellServes
<1>4. w \in Threads /\ Shell \in Threads /\ w # Shell
  BY <1>3, ThreadsAssumption DEF Threads
<1>5. \A t \in Windows : t \in Threads /\ t # Shell
  BY ThreadsAssumption DEF Threads
<1>6. UNCHANGED <<shdata, channelVars, requests, acts>>
  BY DEF ShellCall, MoveSet, StateShow, FocusSend, CloseSend
<1>. HIDE DEF w
<1>7. CASE MoveSet
  <2>1. CASE Goto(Shell, "moveWait")
    BY <2>1, <1>7, <1>1, <1>3, <1>4, <1>5, <1>6 DEF MoveSet, Goto, At, Waits, w
  <2>2. CASE \E n \in Nat : thread' = [thread EXCEPT ![Shell].pc = "moveWait", ![w] = Reporting(n, TRUE)]
    <3>1. PICK n \in Nat : thread' = [thread EXCEPT ![Shell].pc = "moveWait", ![w] = Reporting(n, TRUE)]
      BY <2>2
    <3>2. /\ thread'[w] = Reporting(n, TRUE)
          /\ thread'[Shell].pc = "moveWait"
          /\ \A t \in Windows \ {w} : thread'[t] = thread[t]
      <4>. DEFINE l == Reporting(n, TRUE)
                  k == [thread EXCEPT ![Shell].pc = "moveWait"]
      <4>. HIDE DEF l
      <4>1. thread' = [k EXCEPT ![w] = l]
        BY <3>1 DEF l
      <4>2. /\ DOMAIN k = Threads /\ k[Shell].pc = "moveWait"
            /\ \A t \in Threads \ {Shell} : k[t] = thread[t]
        BY <1>1, <1>4 DEF Locals
      <4>. HIDE DEF k
      <4> QED BY <4>1, <4>2, <1>4, <1>5 DEF l
    <3>3. \/ thread'[w] = Idle
          \/ thread'[w].pc = "posRead" /\ thread'[w].serving /\ thread'[w].state = NoState
      BY <3>2 DEF Reporting, Idle
    <3> QED BY <3>2, <3>3, <1>3, <1>6, <1>7 DEF MoveSet, At, Waits, CallsOut, w
  <2>3. \A p : Calls(w, p) \subseteq Nat
    BY DEF Calls
  <2> QED BY <2>1, <2>2, <2>3, <1>7 DEF MoveSet, w
<1>8. CASE StateShow
  <2>1. CASE Goto(Shell, "stateWait")
    BY <2>1, <1>1, <1>3, <1>4, <1>5, <1>6, <1>8 DEF StateShow, Goto, At, Waits, w
  <2>2. CASE thread' = [thread EXCEPT ![Shell].pc = "stateWait", ![w].pc = "minmaxRead",
                                      ![w].want = request.arg, ![w].serving = TRUE]
    <3>1. /\ thread'[w].pc = "minmaxRead" /\ thread'[w].want = request.arg
          /\ thread'[w].serving /\ thread'[w].state = thread[w].state
      BY <2>2, <1>1, <1>4 DEF Locals
    <3>2. thread'[Shell].pc = "stateWait" /\ \A t \in Windows \ {w} : thread'[t] = thread[t]
      BY <2>2, <1>1, <1>4, <1>5 DEF Locals
    <3> QED BY <3>1, <3>2, <1>3, <1>6, <1>8 DEF StateShow, At, Waits, CallsOut, w
  <2> QED BY <2>1, <2>2, <1>8 DEF StateShow, w
<1>9. CASE FocusSend
  <2>1. CASE Goto(Shell, "focusWait")
    BY <2>1, <1>1, <1>3, <1>4, <1>5, <1>6, <1>9 DEF FocusSend, Goto, At, Waits, w
  <2>2. CASE thread' = [thread EXCEPT ![Shell].pc = "focusWait", ![w].pc = "focusAck",
                                      ![w].serving = TRUE]
    <3>1. /\ thread'[w].pc = "focusAck"
          /\ thread'[w].serving /\ thread'[w].state = thread[w].state
      BY <2>2, <1>1, <1>4 DEF Locals
    <3>2. thread'[Shell].pc = "focusWait" /\ \A t \in Windows \ {w} : thread'[t] = thread[t]
      BY <2>2, <1>1, <1>4, <1>5 DEF Locals
    <3> QED BY <3>1, <3>2, <1>3, <1>6, <1>9 DEF FocusSend, At, Waits, CallsOut, w
  <2> QED BY <2>1, <2>2, <1>9 DEF FocusSend, w
<1>10. CASE CloseSend
  <2>1. CASE Goto(Shell, "closeWait")
    BY <2>1, <1>1, <1>3, <1>4, <1>5, <1>6, <1>10 DEF CloseSend, Goto, At, Waits, w
  <2>2. ASSUME NEW pc \in {"closeWrite", "ask"},
               thread' = [thread EXCEPT ![Shell].pc = "closeWait", ![w].pc = pc,
                                        ![w].serving = TRUE]
        PROVE  /\ thread'[w].pc = pc
               /\ thread'[w].serving /\ thread'[w].state = thread[w].state
               /\ thread'[Shell].pc = "closeWait"
               /\ \A t \in Windows \ {w} : thread'[t] = thread[t]
    <3>1. /\ thread'[w].pc = pc
          /\ thread'[w].serving /\ thread'[w].state = thread[w].state
      BY <2>2, <1>1, <1>4 DEF Locals
    <3>2. thread'[Shell].pc = "closeWait" /\ \A t \in Windows \ {w} : thread'[t] = thread[t]
      BY <2>2, <1>1, <1>4, <1>5 DEF Locals
    <3> QED BY <3>1, <3>2
  <2>3. CASE \E pc \in {"closeWrite", "ask"} :
                thread' = [thread EXCEPT ![Shell].pc = "closeWait", ![w].pc = pc,
                                         ![w].serving = TRUE]
    BY <2>2, <2>3, <1>3, <1>6, <1>10 DEF CloseSend, At, Waits, CallsOut, w
  <2> QED BY <2>1, <2>3, <1>10 DEF CloseSend, w
<1> QED BY <1>7, <1>8, <1>9, <1>10 DEF ShellCall

\* There is nothing else.
LEMMA Steps ==
    ASSUME [Next]_vars
    PROVE  \/ UNCHANGED vars
           \/ \E r \in Requests : Receive(r)
           \/ ShellStep \/ ShellCall
           \/ \E w \in Windows : WindowStep(w)
BY StepKinds DEF ShellStep, ShellCall, WindowStep, Threads

\* The shell's last line is where the last request takes it.
LEMMA ShellInvariance ==
    ASSUME IInv, [Next]_vars
    PROVE  ShellServes'
<1> USE DEF IInv, TypeOK
<1>. DEFINE From(pc) ==
        /\ pc # "idle" => requests # <<>>
        /\ pc \in MoveLabels => request.kind = "POSITION"
        /\ pc \in StateLabels => request.kind = "STATE"
        /\ pc \in FocusLabels => request.kind = "FOCUS"
        /\ pc \in CloseLabels => request.kind = "DESTROY"
<1>1. From(thread[Shell].pc) /\ From("idle")
  BY DEF ShellServes, MoveLabels, StateLabels, FocusLabels, CloseLabels
<1>2. requests' = requests /\ From(thread'[Shell].pc) => ShellServes'
  BY DEF ShellServes, request, serial
<1>. HIDE DEF From
<1>3. Shell \in Threads /\ thread \in [Threads -> Locals]
  BY DEF ThreadOK, Threads
<1>4. CASE UNCHANGED vars
  BY <1>1, <1>2, <1>4 DEF vars
<1>5. ASSUME NEW w \in Windows, WindowStep(w) PROVE ShellServes'
  BY <1>5, <1>1, <1>2, <1>3, OthersWait, ThreadsAssumption
<1>6. ASSUME NEW r \in Requests, Receive(r) PROVE ShellServes'
  <2>1. requests' = Append(requests, r) /\ requests \in Seq(Requests)
    BY <1>6 DEF Receive, LogOK
  <2>2. requests' # <<>> /\ request' = r
    BY <2>1 DEF request, serial
  <2>3. thread'[Shell].pc = FirstLabel(r.kind)
    BY <1>6, <1>3 DEF Receive, Goto
  <2>4. r.kind \in {"POSITION", "STATE", "FOCUS", "DESTROY"}
    BY RequestKinds, BoundsAssumption
  <2> QED BY <2>2, <2>3, <2>4 DEF ShellServes, FirstLabel, MoveLabels, StateLabels, FocusLabels,
          CloseLabels
<1>7. CASE ShellCall
  <2>1. <<thread[Shell].pc, thread'[Shell].pc>> \in Waits /\ requests' = requests
    BY <1>7, CallsAreOfTheWindow
  <2> QED BY <2>1, <1>1, <1>2 DEF From, Waits, MoveLabels, StateLabels, FocusLabels, CloseLabels
<1>8. CASE ShellStep
  <2>. DEFINE Same == \/ thread'[Shell].pc = "idle" \/ thread' = thread
                      \/ \E labels \in {MoveLabels, StateLabels, FocusLabels, CloseLabels} :
                            thread[Shell].pc \in labels /\ thread'[Shell].pc \in labels
  <2>1. requests' = requests
    BY <1>8 DEF ShellStep, Process, MoveBlock, MoveAck, MoveCheck, MoveUnblock, PosRead, PosReport,
       StateCheck, StateUnblock, FocusBlock, FocusDone, CloseDone
  <2>. SUFFICES Same
    <3>1. Same => From(thread'[Shell].pc)
      BY <1>1 DEF From, MoveLabels, StateLabels, FocusLabels, CloseLabels
    <3> QED BY <3>1, <2>1, <1>2
  <2>2. ASSUME NEW pc, Goto(Shell, pc) PROVE thread'[Shell].pc = pc
    BY <2>2, <1>3 DEF Goto
  <2>3. CASE MoveBlock \/ MoveAck \/ MoveCheck \/ MoveUnblock
    <3>1. \E pc \in MoveLabels \cup {"idle"} : Goto(Shell, pc)
      BY <2>3 DEF MoveBlock, MoveAck, MoveCheck, MoveUnblock, MoveLabels
    <3>2. thread[Shell].pc \in MoveLabels
      BY <2>3 DEF MoveBlock, MoveAck, MoveCheck, MoveUnblock, MoveLabels, At
    <3> QED BY <3>1, <3>2, <2>2
  <2>4. CASE PosRead(Shell) \/ PosReport(Shell)
    <3>1. thread[Shell].pc \in MoveLabels
      BY <2>4 DEF PosRead, PosReport, At, MoveLabels
    <3>2. ASSUME PosRead(Shell) PROVE thread'[Shell].pc = "posReport"
      BY <3>2, <1>3 DEF PosRead, Locals
    <3>3. ASSUME PosReport(Shell) PROVE thread'[Shell].pc = "moveUnblock"
      BY <3>3, <1>3 DEF PosReport, AfterReport, Idle
    <3> QED BY <2>4, <3>1, <3>2, <3>3 DEF MoveLabels
  <2>5. CASE StateCheck \/ StateUnblock
    <3>1. \E pc \in StateLabels \cup {"idle"} : Goto(Shell, pc)
      BY <2>5 DEF StateCheck, StateUnblock, StateLabels
    <3>2. thread[Shell].pc \in StateLabels
      BY <2>5 DEF StateCheck, StateUnblock, StateLabels, At
    <3> QED BY <3>1, <3>2, <2>2
  <2>6. CASE FocusBlock \/ FocusDone \/ CloseDone
    <3>1. \/ Goto(Shell, "idle")
          \/ Goto(Shell, "focusSend") /\ At(Shell, "focusBlock")
      BY <2>6 DEF FocusBlock, FocusDone, CloseDone
    <3> QED BY <3>1, <2>2 DEF FocusLabels, At
  <2>7. CASE Process
    BY <2>7 DEF Process
  <2> QED BY <2>3, <2>4, <2>5, <2>6, <2>7, <1>8 DEF ShellStep
<1> QED BY Steps, <1>4, <1>5, <1>6, <1>7, <1>8

\* A window's thread goes from line to line as the hooks do, or is done; what it
\* does on its own account it begins when it is idle.
Goes ==
    {<<"posRead", "posReport">>, <<"posReport", "posRead">>, <<"minmaxRead", "minmaxWrite">>,
     <<"minmaxWrite", "minmaxDo">>, <<"minmaxDo", "posRead">>, <<"closeWrite", "closeDo">>,
     <<"ask", "asking">>, <<"asking", "closeWrite">>,
     <<"idle", "posRead">>, <<"idle", "minmaxRead">>, <<"idle", "closeWrite">>}
Lasts == {"posReport", "minmaxDo", "focusAck", "closeDo", "asking", "idle"}

LEMMA WindowGoesOn ==
    ASSUME IInv, NEW w \in Windows, WindowStep(w)
    PROVE  LET from == thread[w].pc
               my == thread'[w] IN
           /\ \/ my = Idle /\ from \in Lasts
              \/ /\ <<from, my.pc>> \in Goes
                 /\ my.serving = thread[w].serving
                 /\ \/ my.state \in {thread[w].state, NoState}
                    \/ from = "minmaxRead" /\ my.state = shdata.state
                 /\ from = "minmaxRead" => my.state = shdata.state
                 /\ my.pc \in {"minmaxWrite", "minmaxDo"} => my.want = thread[w].want
                 /\ from = "posRead" => my.move = shdata.move
           /\ IF from = "idle" THEN acts' = [acts EXCEPT ![w] = @ + 1] ELSE UNCHANGED acts
<1>. DEFINE my == thread'[w]
            Kept == my.serving = thread[w].serving /\ my.state = thread[w].state
                    /\ my.want = thread[w].want
<1>1. thread \in [Threads -> Locals] /\ w \in Threads
  BY DEF IInv, TypeOK, ThreadOK, Threads
<1>2. ASSUME NEW pc, Goto(w, pc) PROVE my.pc = pc /\ Kept
  BY <1>1, <1>2 DEF Goto, Locals
<1>3. ASSUME thread[w].pc = "idle" PROVE thread[w].serving = FALSE
  <2>1. ~ thread[w].serving
    BY <1>3 DEF IInv, Serving, At, Reports, MinMaxes, Closes
  <2>2. thread[w].serving \in BOOLEAN
    BY <1>1 DEF Locals
  <2> QED BY <2>1, <2>2
<1>4. ASSUME NEW n \in Nat, NEW b \in BOOLEAN, thread' = [thread EXCEPT ![w] = Reporting(n, b)]
      PROVE  \/ my = Idle
             \/ my.pc = "posRead" /\ my.serving = b /\ my.state = NoState
  BY <1>1, <1>4 DEF Reporting, Idle
<1>5. ASSUME thread' = [thread EXCEPT ![w] = Idle] PROVE my = Idle
  BY <1>1, <1>5
<1>6. CASE PosRead(w)
  <2>1. my.pc = "posReport" /\ my.move = shdata.move /\ Kept
    BY <1>1, <1>6 DEF PosRead, Locals
  <2> QED BY <2>1, <1>6 DEF PosRead, At, Goes, Lasts
<1>7. CASE PosReport(w)
  <2>1. my = AfterReport(w) /\ w # Shell
    BY <1>1, <1>7, ThreadsAssumption DEF PosReport
  <2>2. my = Idle \/ (my.pc = "posRead" /\ Kept)
    BY <2>1, <1>1 DEF AfterReport, Locals
  <2> QED BY <2>2, <1>7 DEF PosReport, At, Goes, Lasts
<1>8. CASE MinMaxRead(w)
  <2>1. /\ my.pc = "minmaxWrite" /\ my.state = shdata.state /\ my.serving = thread[w].serving
        /\ my.want = thread[w].want
    BY <1>1, <1>8 DEF MinMaxRead, Locals
  <2> QED BY <2>1, <1>8 DEF MinMaxRead, At, Goes, Lasts
<1>9. CASE MinMaxWrite(w)
  <2>1. Goto(w, "minmaxDo") /\ UNCHANGED acts /\ thread[w].pc = "minmaxWrite"
    BY <1>9 DEF MinMaxWrite, At
  <2> QED BY <2>1, <1>2 DEF Goes, Lasts
<1>10. CASE MinMaxDo(w)
  <2>1. thread[w].serving \in BOOLEAN
    BY <1>1 DEF Locals
  <2>2. \E n \in Nat : thread' = [thread EXCEPT ![w] = Reporting(n, thread[w].serving)]
    BY <1>10 DEF MinMaxDo
  <2>3. \/ my = Idle
        \/ my.pc = "posRead" /\ my.serving = thread[w].serving /\ my.state = NoState
    BY <2>1, <2>2, <1>4
  <2> QED BY <2>3, <1>10 DEF MinMaxDo, At, Goes, Lasts
<1>11. CASE FocusAck(w) \/ CloseDo(w)
  BY <1>11, <1>5 DEF FocusAck, CloseDo, At, Lasts
<1>12. CASE CloseWrite(w)
  BY <1>12, <1>2 DEF CloseWrite, At, Goes, Lasts
<1>13. CASE Ask(w)
  BY <1>13, <1>2 DEF Ask, At, Goes, Lasts
<1>14. CASE Answer(w)
  BY <1>14, <1>2, <1>5 DEF Answer, At, Goes, Lasts
<1>15. CASE AppMove(w)
  <2>1. /\ \E n \in Nat : thread' = [thread EXCEPT ![w] = Reporting(n, FALSE)]
        /\ thread[w].pc = "idle" /\ acts' = [acts EXCEPT ![w] = @ + 1]
    <3>1. \A p : Calls(w, p) \subseteq Nat
      BY DEF Calls
    <3>2. \E p : \E n \in Calls(w, p) : thread' = [thread EXCEPT ![w] = Reporting(n, FALSE)]
      BY <1>15 DEF AppMove
    <3>3. thread[w].pc = "idle" /\ acts' = [acts EXCEPT ![w] = @ + 1]
      BY <1>15 DEF AppMove, At
    <3> QED BY <3>1, <3>2, <3>3
  <2>2. \/ my = Idle
        \/ my.pc = "posRead" /\ my.serving = FALSE /\ my.state = NoState
    BY <2>1, <1>4
  <2> QED BY <2>1, <2>2, <1>3 DEF Goes, Lasts
<1>16. CASE AppState(w)
  <2>1. /\ my.pc = "minmaxRead" /\ my.serving = thread[w].serving /\ my.state = thread[w].state
        /\ thread[w].pc = "idle" /\ acts' = [acts EXCEPT ![w] = @ + 1]
    BY <1>1, <1>16 DEF AppState, Locals, At
  <2> QED BY <2>1 DEF Goes, Lasts
<1>17. CASE AppClose(w)
  BY <1>17, <1>2 DEF AppClose, At, Goes, Lasts
<1> QED
  BY <1>6, <1>7, <1>8, <1>9, <1>10, <1>11, <1>12, <1>13, <1>14, <1>15, <1>16, <1>17 DEF WindowStep

\* What the shell does by itself, line by line; it leaves a call only when the
\* window is done with it.
ShellGoes ==
    {<<"moveBlock", "moveSet">>, <<"moveWait", "moveCheck">>, <<"moveCheck", "posRead">>,
     <<"moveCheck", "moveUnblock">>, <<"posRead", "posReport">>, <<"posReport", "moveUnblock">>,
     <<"moveUnblock", "idle">>, <<"stateCheck", "stateShow">>, <<"stateCheck", "idle">>,
     <<"stateWait", "idle">>, <<"focusBlock", "focusSend">>, <<"focusWait", "idle">>,
     <<"closeWait", "idle">>}

LEMMA ShellGoesOn ==
    ASSUME IInv, ShellStep
    PROVE  LET from == thread[Shell].pc
               to == thread'[Shell].pc IN
           /\ UNCHANGED requests
           /\ \/ Process /\ UNCHANGED <<thread, shdata>>
              \/ /\ <<from, to>> \in ShellGoes
                 /\ from \in {"moveWait", "stateWait", "focusWait", "closeWait"}
                       => ~ thread[request.win].serving
                 /\ from \notin {"stateCheck", "stateWait"} => shdata'.state = shdata.state
                 /\ to = "stateShow" =>
                       shdata'.state = [win |-> request.win, state |-> request.arg,
                                        serial |-> serial]
                 /\ from = "stateCheck" /\ to = "idle" => shdata'.state = shdata.state
                 /\ from = "stateWait" => shdata'.state.win = NoWindow
                 /\ IF from = "focusBlock" THEN shdata'.focus = serial
                                           ELSE shdata'.focus = shdata.focus
                 /\ from \notin {"moveBlock", "moveUnblock"} => shdata'.move = shdata.move
<1>1. thread \in [Threads -> Locals] /\ Shell \in Threads
  BY DEF IInv, TypeOK, ThreadOK, Threads
<1>2. ASSUME NEW pc, Goto(Shell, pc) PROVE thread'[Shell].pc = pc
  BY <1>1, <1>2 DEF Goto, Locals
<1>3. /\ shdata \in [move : MoveBlocks, state : StateBlocks, focus : Nat]
  BY DEF IInv, TypeOK, DataOK
<1>4. CASE Process
  BY <1>4 DEF Process
<1>5. CASE MoveBlock
  <2>1. \E x : shdata' = [shdata EXCEPT !.move = x]
    BY <1>5 DEF MoveBlock, Blocked
  <2>2. shdata'.state = shdata.state /\ shdata'.focus = shdata.focus
    BY <2>1, <1>3
  <2> QED BY <2>2, <1>5, <1>2 DEF MoveBlock, At, ShellGoes
<1>6. CASE MoveAck \/ FocusDone \/ CloseDone
  BY <1>6, <1>2 DEF MoveAck, FocusDone, CloseDone, At, ShellGoes
<1>7. CASE MoveCheck
  BY <1>7, <1>2 DEF MoveCheck, At, ShellGoes
<1>8. CASE PosRead(Shell)
  <2>1. thread'[Shell].pc = "posReport"
    BY <1>1, <1>8 DEF PosRead, Locals
  <2> QED BY <2>1, <1>8 DEF PosRead, At, ShellGoes
<1>9. CASE PosReport(Shell)
  <2>1. thread'[Shell].pc = "moveUnblock"
    BY <1>1, <1>9 DEF PosReport, AfterReport, Idle
  <2> QED BY <2>1, <1>9 DEF PosReport, At, ShellGoes
<1>10. CASE MoveUnblock
  <2>1. shdata'.state = shdata.state /\ shdata'.focus = shdata.focus
    BY <1>10, <1>3 DEF MoveUnblock
  <2> QED BY <2>1, <1>10, <1>2 DEF MoveUnblock, At, ShellGoes
<1>11. CASE StateCheck
  <2>. DEFINE b == [win |-> request.win, state |-> request.arg, serial |-> serial]
  <2>1. \/ Goto(Shell, "idle") /\ UNCHANGED shdata
        \/ Goto(Shell, "stateShow") /\ shdata' = [shdata EXCEPT !.state = b]
    BY <1>11 DEF StateCheck
  <2>2. ASSUME shdata' = [shdata EXCEPT !.state = b]
        PROVE  shdata'.state = b /\ shdata'.move = shdata.move /\ shdata'.focus = shdata.focus
    BY <2>2, <1>3
  <2>3. thread[Shell].pc = "stateCheck" /\ UNCHANGED requests
    BY <1>11 DEF StateCheck, At
  <2>4. CASE Goto(Shell, "idle") /\ UNCHANGED shdata
    BY <2>3, <2>4, <1>2 DEF ShellGoes
  <2>5. CASE Goto(Shell, "stateShow") /\ shdata' = [shdata EXCEPT !.state = b]
    <3>1. thread'[Shell].pc = "stateShow"
      BY <2>5, <1>2
    <3> QED BY <3>1, <2>2, <2>3, <2>5 DEF ShellGoes
  <2> QED BY <2>1, <2>4, <2>5
<1>12. CASE StateUnblock
  <2>. DEFINE s == [shdata EXCEPT !.state.win = NoWindow]
  <2>1. /\ s.state.win = NoWindow /\ s.move = shdata.move /\ s.focus = shdata.focus
        /\ s \in [move : MoveBlocks, state : StateBlocks, focus : Nat]
    BY <1>3 DEF StateBlocks, Wins
  <2>2. shdata' = [s EXCEPT !.state.state = -1]
    BY <1>12 DEF StateUnblock
  <2>. HIDE DEF s
  <2>3. shdata'.state.win = NoWindow /\ shdata'.move = shdata.move /\ shdata'.focus = shdata.focus
    BY <2>1, <2>2 DEF StateBlocks
  <2> QED BY <2>3, <1>12, <1>2 DEF StateUnblock, At, ShellGoes
<1>13. CASE FocusBlock
  <2>1. shdata'.focus = serial /\ shdata'.move = shdata.move /\ shdata'.state = shdata.state
    BY <1>13, <1>3 DEF FocusBlock
  <2> QED BY <2>1, <1>13, <1>2 DEF FocusBlock, At, ShellGoes
<1> QED
  BY <1>4, <1>5, <1>6, <1>7, <1>8, <1>9, <1>10, <1>11, <1>12, <1>13 DEF ShellStep

\* The shell waits for the window that serves it.
LEMMA ServingInvariance ==
    ASSUME IInv, [Next]_vars
    PROVE  Serving'
<1> USE DEF IInv, TypeOK
<1>. DEFINE CallLabels == {"moveWait", "stateWait", "focusWait", "closeWait"}
            With(pc, my) ==
                \/ pc = "moveWait" /\ my.pc \in Reports
                \/ pc = "stateWait" /\ my.pc \in Reports \cup MinMaxes
                \/ pc = "focusWait" /\ my.pc = "focusAck"
                \/ pc = "closeWait" /\ my.pc \in Closes
            Serves(w, pc, my) ==
                /\ my.serving => request.win = w /\ With(pc, my)
                /\ my.pc = "focusAck" => my.serving
<1>1. \A w \in Windows : Serves(w, thread[Shell].pc, thread[w])
  BY DEF Serving, At
<1>2. ASSUME requests' = requests, \A w \in Windows : Serves(w, thread'[Shell].pc, thread'[w])
      PROVE  Serving'
  BY <1>2 DEF Serving, At, request, serial
<1>3. Shell \in Threads /\ \A w \in Windows : w \in Threads /\ w # Shell
  BY ThreadsAssumption DEF Threads
<1>4. Idle.serving = FALSE /\ Idle.pc = "idle"
  BY DEF Idle
<1>5. CASE UNCHANGED vars
  BY <1>1, <1>2, <1>5 DEF vars
<1>6. ASSUME NEW w \in Windows, WindowStep(w) PROVE Serving'
  <2>1. /\ \A t \in Windows \ {w} : thread'[t] = thread[t]
        /\ thread'[Shell] = thread[Shell] /\ requests' = requests
    BY <1>3, <1>6, OthersWait
  <2>2. \/ thread'[w] = Idle
        \/ <<thread[w].pc, thread'[w].pc>> \in Goes /\ thread'[w].serving = thread[w].serving
    BY <1>6, WindowGoesOn
  <2>3. Serves(w, thread'[Shell].pc, thread'[w])
    BY <2>1, <2>2, <1>1, <1>4 DEF Goes, Reports, MinMaxes, Closes
  <2>. HIDE DEF Serves
  <2> QED BY <2>1, <2>3, <1>1, <1>2
<1>7. ASSUME NEW r \in Requests, Receive(r) PROVE Serving'
  <2>1. \A w \in Windows : thread'[w] = thread[w]
    BY <1>7, WindowsWait
  <2>2. thread[Shell].pc = "idle"
    BY <1>7 DEF Receive, At
  <2>3. \A w \in Windows : ~ thread[w].serving /\ thread[w].pc # "focusAck"
    BY <2>2, <1>1
  <2> QED BY <2>1, <2>3 DEF Serving, At
<1>8. CASE ShellCall
  <2>. DEFINE w == request.win
  <2>1. /\ w \in Windows
        /\ <<thread[Shell].pc, thread'[Shell].pc>> \in Waits
        /\ \A t \in Windows \ {w} : thread'[t] = thread[t]
        /\ requests' = requests
        /\ \/ thread'[w] = thread[w] /\ thread[w].pc = "idle"
           \/ thread'[w] = Idle
           \/ <<thread[Shell].pc, thread'[w].pc>> \in CallsOut /\ thread'[w].serving
    BY <1>8, CallsAreOfTheWindow DEF At
  <2>2. \A t \in Windows : ~ thread[t].serving /\ thread[t].pc # "focusAck"
    BY <2>1, <1>1 DEF Waits
  <2>3. Serves(w, thread'[Shell].pc, thread'[w])
    BY <2>1, <2>2, <1>4 DEF Waits, CallsOut, Reports, MinMaxes, Closes
  <2>4. \A t \in Windows \ {w} : Serves(t, thread'[Shell].pc, thread'[t])
    BY <2>1, <2>2
  <2>. HIDE DEF Serves, w
  <2> QED BY <2>1, <2>3, <2>4, <1>2
<1>9. CASE ShellStep
  <2>1. \A w \in Windows : thread'[w] = thread[w]
    BY <1>9, WindowsWait
  <2>2. /\ requests' = requests
        /\ \/ thread'[Shell].pc = thread[Shell].pc
           \/ /\ <<thread[Shell].pc, thread'[Shell].pc>> \in ShellGoes
              /\ thread[Shell].pc \in CallLabels => ~ thread[request.win].serving
    BY <1>9, ShellGoesOn
  <2>3. CASE thread'[Shell].pc = thread[Shell].pc
    BY <2>1, <2>2, <2>3, <1>1, <1>2
  <2>4. CASE thread[Shell].pc \notin CallLabels \/ ~ thread[request.win].serving
    <3>1. \A w \in Windows : ~ thread[w].serving /\ thread[w].pc # "focusAck"
      BY <2>4, <1>1
    <3> QED BY <2>1, <2>2, <3>1, <1>2
  <2> QED BY <2>2, <2>3, <2>4
<1> QED BY Steps, <1>5, <1>6, <1>7, <1>8, <1>9

\* The block variables are those of the request.
LEMMA BlocksInvariance ==
    ASSUME IInv, [Next]_vars
    PROVE  Blocks'
<1> USE DEF IInv, TypeOK
<1>. DEFINE StateBlock == [win |-> request.win, state |-> request.arg, serial |-> serial]
            Set(pc, sh) == /\ pc \in {"stateShow", "stateWait"} => sh.state = StateBlock
                           /\ pc \in {"focusSend", "focusWait"} => sh.focus = serial
<1>1. Set(thread[Shell].pc, shdata)
  BY DEF Blocks, At
<1>2. requests' = requests /\ Set(thread'[Shell].pc, shdata') => Blocks'
  BY DEF Blocks, At, request, serial
<1>3. Shell \in Threads /\ \A w \in Windows : w # Shell
  BY ThreadsAssumption DEF Threads
<1>4. CASE UNCHANGED vars
  BY <1>1, <1>2, <1>4 DEF vars
<1>5. ASSUME NEW w \in Windows, WindowStep(w) PROVE Blocks'
  BY <1>1, <1>2, <1>3, <1>5, OthersWait
<1>6. ASSUME NEW r \in Requests, Receive(r) PROVE Blocks'
  <2>1. thread'[Shell].pc = FirstLabel(r.kind)
    BY <1>3, <1>6 DEF Receive, Goto, ThreadOK
  <2>2. r.kind \in {"POSITION", "STATE", "FOCUS", "DESTROY"}
    BY RequestKinds, BoundsAssumption
  <2> QED BY <2>1, <2>2 DEF FirstLabel, Blocks, At
<1>7. CASE ShellCall
  <2>1. /\ <<thread[Shell].pc, thread'[Shell].pc>> \in Waits
        /\ requests' = requests /\ shdata' = shdata
    BY <1>7, CallsAreOfTheWindow
  <2> QED BY <2>1, <1>1, <1>2 DEF Waits
<1>8. CASE ShellStep
  <2>. DEFINE from == thread[Shell].pc
              to == thread'[Shell].pc
  <2>1. requests' = requests
    BY <1>8, ShellGoesOn
  <2>2. CASE Process
    BY <2>2, <1>1, <1>2 DEF Process
  <2>3. CASE ~ Process
    <3>1. /\ <<from, to>> \in ShellGoes
          /\ to = "stateShow" => shdata'.state = StateBlock
          /\ from = "focusBlock" => shdata'.focus = serial
      BY <2>3, <1>8, ShellGoesOn
    <3>2. to \notin {"stateWait", "focusWait"} /\ (to = "focusSend" => from = "focusBlock")
      BY <3>1 DEF ShellGoes
    <3> QED BY <2>1, <3>1, <3>2, <1>2
  <2> QED BY <2>2, <2>3
<1> QED BY Steps, <1>4, <1>5, <1>6, <1>7, <1>8

\* A block that was set for a state is of a request that was there and stays.
LEMMA StateBlocksInvariance ==
    ASSUME IInv, [Next]_vars
    PROVE  StateBlocksOK'
<1> USE DEF IInv, TypeOK
<1>1. /\ OfRequest(shdata.state) /\ \A w \in Windows : OfRequest(thread[w].state)
      /\ requests \in Seq(Requests)
  BY DEF StateBlocksOK, LogOK
<1>2. ASSUME requests' = requests PROVE \A b : OfRequest(b) => OfRequest(b)'
  BY <1>2 DEF OfRequest
<1>3. ASSUME NEW r \in Requests, requests' = Append(requests, r)
      PROVE  \A b : OfRequest(b) => OfRequest(b)'
  <2>1. /\ DOMAIN requests \subseteq DOMAIN requests'
        /\ \A n \in DOMAIN requests : requests'[n] = requests[n]
    BY <1>1, <1>3
  <2> QED BY <2>1 DEF OfRequest
<1>4. OfRequest(NoState)
  BY DEF OfRequest, NoState
<1>5. Idle.state = NoState
  BY DEF Idle
<1>6. ASSUME \A b : OfRequest(b) => OfRequest(b)',
             OfRequest(shdata'.state), \A w \in Windows : OfRequest(thread'[w].state)
      PROVE  StateBlocksOK'
  BY <1>6 DEF StateBlocksOK, OfRequest
<1>7. CASE UNCHANGED vars
  BY <1>7, <1>1 DEF vars, StateBlocksOK, OfRequest
<1>8. ASSUME NEW w \in Windows, WindowStep(w) PROVE StateBlocksOK'
  <2>1. /\ \A t \in Windows \ {w} : thread'[t] = thread[t]
        /\ UNCHANGED <<shdata, requests>>
    BY <1>8, OthersWait, ThreadsAssumption DEF Threads
  <2>2. thread'[w].state \in {thread[w].state, NoState, shdata.state}
    BY <1>8, <1>5, WindowGoesOn
  <2>3. OfRequest(thread'[w].state) /\ \A t \in Windows \ {w} : OfRequest(thread'[t].state)
    BY <1>1, <1>4, <2>1, <2>2
  <2> QED BY <2>1, <2>3, <1>1, <1>2, <1>6
<1>9. ASSUME NEW r \in Requests, Receive(r) PROVE StateBlocksOK'
  <2>1. requests' = Append(requests, r) /\ UNCHANGED shdata
    BY <1>9 DEF Receive
  <2>2. \A w \in Windows : thread'[w] = thread[w]
    BY <1>9, WindowsWait
  <2> QED BY <2>1, <2>2, <1>1, <1>3, <1>6
<1>10. CASE ShellCall
  <2>. DEFINE w == request.win
  <2>1. /\ w \in Windows
        /\ \A t \in Windows \ {w} : thread'[t] = thread[t]
        /\ UNCHANGED <<shdata, requests>>
        /\ thread'[w].state \in {thread[w].state, NoState}
    BY <1>10, <1>5, CallsAreOfTheWindow
  <2>2. OfRequest(thread'[w].state) /\ \A t \in Windows \ {w} : OfRequest(thread'[t].state)
    BY <1>1, <1>4, <2>1
  <2>. HIDE DEF w
  <2> QED BY <2>1, <2>2, <1>1, <1>2, <1>6
<1>11. CASE ShellStep
  <2>1. /\ \A w \in Windows : thread'[w] = thread[w]
        /\ requests' = requests
    BY <1>11, WindowsWait, ShellGoesOn
  <2>2. \/ shdata'.state = shdata.state
        \/ shdata'.state.win = NoWindow
        \/ /\ shdata'.state = [win |-> request.win, state |-> request.arg, serial |-> serial]
           /\ thread[Shell].pc = "stateCheck"
    BY <1>11, ShellGoesOn DEF ShellGoes, Process
  <2>3. thread[Shell].pc = "stateCheck" =>
           serial \in DOMAIN requests /\ request.kind = "STATE"
    BY <1>1 DEF ShellServes, serial, StateLabels
  <2>4. OfRequest(shdata'.state)
    BY <2>2, <2>3, <1>1 DEF OfRequest, request
  <2> QED BY <2>1, <2>4, <1>1, <1>2, <1>6
<1> QED BY Steps, <1>7, <1>8, <1>9, <1>10, <1>11

\* All of it holds in every state of every behaviour: the block variables are those
\* of the request the shell is at (lines 602, 639, 726 of hookdll.c), a window's
\* thread serves a call only while the shell waits for it, and what a hook has
\* copied of them is of a request for its own window.
THEOREM TypeCorrect == Spec => []IInv
<1>1. Init => IInv
  <2>. SUFFICES ASSUME Init PROVE IInv
    OBVIOUS
  <2>1. Idle \in Locals /\ NoMove \in MoveBlocks /\ NoState \in StateBlocks
    BY WindowsAssumption DEF Idle, Locals, NoMove, NoState, MoveBlocks, StateBlocks, Wins, ShellLabels
  <2>2. thread \in [Threads -> Locals] /\ \A t \in Threads : thread[t] = Idle
    BY <2>1 DEF Init
  <2>3. /\ Shell \in Threads /\ \A w \in Windows : w \in Threads
        /\ Idle.pc = "idle" /\ Idle.serving = FALSE /\ Idle.state = NoState
    BY DEF Threads, Idle
  <2>4. DataOK
    <3>1. [open |-> TRUE, pos |-> Start, state |-> 0] \in [open : BOOLEAN, pos : Int, state : States]
      BY WindowsAssumption
    <3>2. [move |-> NoMove, state |-> NoState, focus |-> 0]
             \in [move : MoveBlocks, state : StateBlocks, focus : Nat]
      BY <2>1
    <3> QED BY <3>1, <3>2 DEF Init, DataOK
  <2>5. ThreadOK
    BY <2>2, <2>3 DEF ThreadOK, ShellLabels, WindowLabels
  <2>6. LogOK /\ requests = <<>>
    BY DEF Init, LogOK
  <2>7. ShellServes /\ Serving /\ Blocks
    BY <2>2, <2>3 DEF ShellServes, Serving, Blocks, At, MoveLabels, StateLabels, FocusLabels, CloseLabels
  <2>8. shdata.state = NoState /\ OfRequest(NoState)
    BY DEF Init, OfRequest, NoState
  <2>9. StateBlocksOK
    BY <2>2, <2>3, <2>8 DEF StateBlocksOK
  <2> QED BY <2>4, <2>5, <2>6, <2>7, <2>9 DEF IInv, TypeOK
<1>2. IInv /\ [Next]_vars => IInv'
  BY LogInvariance, DataInvariance, ThreadInvariance, ShellInvariance, ServingInvariance,
     BlocksInvariance, StateBlocksInvariance DEF IInv, TypeOK
<1> QED BY <1>1, <1>2, PTL DEF Spec

-----------------------------------------------------------------------------
(* Acknowledgements.                                                       *)

Acks(n) == {i \in DOMAIN log : log[i] = Ack(n)}
Once(n) == \E i \in DOMAIN log : Acks(n) = {i}

\* A window that has changed its state by itself may take a block for the request
\* it did not serve.
Exempt(n) == requests[n].kind = "STATE" /\ acts[requests[n].win] > 0

\* What is owed for a request that has been carried out.
Answered(n) ==
    \/ Exempt(n)
    \/ requests[n].kind = "DESTROY" /\ Acks(n) = {}
    \/ Gone(requests[n].win) /\ Acks(n) = {}
    \/ Once(n)

\* Where the shell is when it has not acknowledged the last request yet.
Unanswered ==
    \/ thread[Shell].pc \in {"moveBlock", "moveSet", "moveWait"} \cup CloseLabels
          \cup {"stateCheck", "stateShow", "focusBlock", "focusSend"}
    \/ At(Shell, "stateWait") /\ thread[request.win].serving
          /\ thread[request.win].pc \in {"minmaxRead", "minmaxWrite"}
    \/ At(Shell, "focusWait") /\ thread[request.win].serving

\* A window that does nothing by itself changes its state for the shell only, and
\* has read the block that was set for it.
OnlyServes ==
    \A w \in Windows : acts[w] = 0 /\ thread[w].pc \in MinMaxes =>
        /\ thread[w].serving /\ thread[w].want = request.arg
        /\ At(w, "minmaxWrite") => thread[w].state = shdata.state

\* Nor is it in a state that it was not in when the shell looked.
AsLookedAt ==
    At(Shell, "stateShow") /\ acts[request.win] = 0 /\ ~ Gone(request.win)
        => window[request.win].state # request.arg

-----------------------------------------------------------------------------
(* What is written, and what happens to the windows.                       *)

\* A message is written, or someone is mute.
Written(m) == log' = Append(log, m) \/ (log' = log /\ muted' # {})

LEMMA PutIs ==
    ASSUME NEW t, NEW m, NEW b, Put(t, m, b)
    PROVE  Written(m) /\ muted \subseteq muted'
BY DEF Put, PutMuted, PutMessage, PutTimeout, channelVars, Written

\* What the hooks report, and when.
Reported(w, m) ==
    \/ At(w, "posReport") /\ m = Position(w) /\ ~ Gone(w) /\ ~ IsBlocked(w, w)
    \/ /\ At(w, "minmaxWrite")
       /\ LET my == thread[w] IN
          IF my.state.win = w /\ my.state.state = my.want
          THEN m = Ack(my.state.serial) ELSE m = State(w, my.want)
    \/ At(w, "minmaxWrite") /\ ~ thread[w].serving /\ m = Debug
    \/ At(w, "focusAck") /\ m = Ack(shdata.focus)
    \/ At(w, "closeWrite") /\ m = Destroy(w)
    \/ At(w, "ask") /\ m = Create

LEMMA WindowWrites ==
    ASSUME IInv, NEW w \in Windows, WindowStep(w)
    PROVE  /\ muted \subseteq muted'
           /\ \/ /\ log' = log
                 /\ thread[w].pc \notin {"minmaxWrite", "focusAck", "closeWrite", "ask"}
                 /\ At(w, "posReport") => Gone(w) \/ IsBlocked(w, w)
              \/ \E m : Reported(w, m) /\ Written(m)
<1>1. w # Shell
  BY ThreadsAssumption
<1>2. CASE PosReport(w)
  BY <1>1, <1>2, PutIs DEF PosReport, At, Reported, channelVars
<1>3. CASE MinMaxWrite(w)
  BY <1>3, PutIs DEF MinMaxWrite, Reported
<1>4. CASE FocusAck(w) \/ CloseWrite(w) \/ Ask(w)
  BY <1>4, PutIs DEF FocusAck, CloseWrite, Ask, Reported
<1>5. CASE PosRead(w) \/ MinMaxRead(w) \/ MinMaxDo(w) \/ CloseDo(w) \/ Answer(w) \/ AppMove(w)
           \/ AppState(w) \/ AppClose(w)
  BY <1>5 DEF PosRead, MinMaxRead, MinMaxDo, CloseDo, Answer, AppMove, AppState, AppClose,
     channelVars, At
<1> QED BY <1>2, <1>3, <1>4, <1>5 DEF WindowStep

\* What the shell writes, and when.
LEMMA ShellWrites ==
    ASSUME IInv, ShellStep
    PROVE  LET from == thread[Shell].pc
               to == thread'[Shell].pc IN
           /\ muted \subseteq muted'
           /\ \/ /\ log' = log /\ from # "moveWait" /\ ~ (from = "stateCheck" /\ to = "idle")
                 /\ from = "posReport" => Gone(request.win) \/ IsBlocked(Shell, request.win)
              \/ Written(Debug) /\ from \in {"moveBlock", "moveCheck"}
              \/ Written(Position(request.win)) /\ from = "posReport"
              \/ Written(Ack(serial)) /\ from = "moveWait"
              \/ Written(Ack(serial)) /\ from = "stateCheck" /\ to = "idle"
<1>1. thread \in [Threads -> Locals] /\ Shell \in Threads
  BY DEF IInv, TypeOK, ThreadOK, Threads
<1>2. ASSUME NEW pc, Goto(Shell, pc) PROVE thread'[Shell].pc = pc
  BY <1>1, <1>2 DEF Goto, Locals
<1>3. CASE MoveBlock \/ MoveCheck
  BY <1>3, PutIs DEF MoveBlock, MoveCheck, At, channelVars
<1>4. CASE MoveAck
  BY <1>4, PutIs DEF MoveAck, At
<1>5. CASE PosReport(Shell)
  BY <1>5, PutIs DEF PosReport, At, channelVars
<1>6. CASE StateCheck
  BY <1>6, <1>2, PutIs DEF StateCheck, At, channelVars
<1>7. CASE Process \/ MoveUnblock \/ PosRead(Shell) \/ StateUnblock \/ FocusBlock \/ FocusDone
           \/ CloseDone
  BY <1>7 DEF Process, MoveUnblock, PosRead, StateUnblock, FocusBlock, FocusDone, CloseDone, At,
     channelVars
<1> QED BY <1>3, <1>4, <1>5, <1>6, <1>7 DEF ShellStep

\* A window moves by itself, or for the shell; it changes its state behind a hook;
\* one that is gone does not come back.
LEMMA WindowChanges ==
    ASSUME IInv, NEW w \in Windows, WindowStep(w)
    PROVE  /\ \A v \in Windows \ {w} : window'[v] = window[v]
           /\ thread[w].pc # "idle" => window'[w].pos = window[w].pos
           /\ thread[w].pc # "minmaxDo" => window'[w].state = window[w].state
           /\ window'[w].open => window[w].open
<1>1. window \in [Windows -> [open : BOOLEAN, pos : Int, state : States]]
  BY DEF IInv, TypeOK, DataOK
<1>2. CASE AppMove(w)
  BY <1>1, <1>2 DEF AppMove, At
<1>3. CASE MinMaxDo(w)
  BY <1>1, <1>3 DEF MinMaxDo, At
<1>4. CASE CloseDo(w)
  BY <1>1, <1>4 DEF CloseDo, At
<1>5. CASE PosRead(w) \/ PosReport(w) \/ MinMaxRead(w) \/ MinMaxWrite(w) \/ FocusAck(w)
           \/ CloseWrite(w) \/ Ask(w) \/ Answer(w) \/ AppState(w) \/ AppClose(w)
  BY <1>5 DEF PosRead, PosReport, MinMaxRead, MinMaxWrite, FocusAck, CloseWrite, Ask, Answer,
     AppState, AppClose
<1> QED BY <1>2, <1>3, <1>4, <1>5 DEF WindowStep

\* For the shell it moves only when it is told to, to where it is told to go.
LEMMA CallsChange ==
    ASSUME IInv, ShellCall
    PROVE  LET w == request.win
               from == thread[Shell].pc IN
           /\ \A v \in Windows : window'[v].state = window[v].state
                                 /\ (window'[v].open => window[v].open)
           /\ \A v \in Windows \ {w} : window'[v] = window[v]
           /\ from # "moveSet" => UNCHANGED window
           /\ from = "moveSet" /\ w \notin Unruly /\ ~ Gone(w) => window'[w].pos = Target
           /\ from = "focusSend" => Gone(w) \/ thread'[w].serving
           /\ from = "stateShow" => \/ window[w].state = request.arg \/ Gone(w)
                                    \/ thread'[w].serving /\ thread'[w].pc = "minmaxRead"
<1>. DEFINE w == request.win
<1>1. window \in [Windows -> [open : BOOLEAN, pos : Int, state : States]]
      /\ thread \in [Threads -> Locals]
  BY DEF IInv, TypeOK, DataOK, ThreadOK
<1>2. w \in Windows /\ w \in Threads /\ w # Shell /\ Shell \in Threads
  BY CallsAreOfTheWindow, ThreadsAssumption DEF Threads
<1>. HIDE DEF w
<1>3. CASE MoveSet
  <2>1. CASE UNCHANGED window /\ Gone(w)
    BY <2>1, <1>3 DEF MoveSet, At, w
  <2>2. CASE \E p : /\ w \notin Unruly => p = Target
                    /\ window' = [window EXCEPT ![w].pos = p]
    BY <2>2, <1>1, <1>2, <1>3 DEF MoveSet, At, w
  <2> QED BY <2>1, <2>2, <1>3 DEF MoveSet, w
<1>4. CASE StateShow
  <2>1. UNCHANGED window /\ thread[Shell].pc = "stateShow"
    BY <1>4 DEF StateShow, At
  <2>2. CASE thread' = [thread EXCEPT ![Shell].pc = "stateWait", ![w].pc = "minmaxRead",
                                      ![w].want = request.arg, ![w].serving = TRUE]
    BY <2>1, <2>2, <1>1, <1>2 DEF Locals, w
  <2> QED BY <2>1, <2>2, <1>4 DEF StateShow, w
<1>5. CASE FocusSend
  <2>1. UNCHANGED window /\ thread[Shell].pc = "focusSend"
    BY <1>5 DEF FocusSend, At
  <2>2. CASE thread' = [thread EXCEPT ![Shell].pc = "focusWait", ![w].pc = "focusAck",
                                      ![w].serving = TRUE]
    BY <2>1, <2>2, <1>1, <1>2 DEF Locals, w
  <2> QED BY <2>1, <2>2, <1>5 DEF FocusSend, w
<1>6. CASE CloseSend
  BY <1>6 DEF CloseSend, At
<1> QED BY <1>3, <1>4, <1>5, <1>6 DEF ShellCall, w

\* What an application has done is not undone, and requests stay.
LEMMA CalmIsOver ==
    ASSUME IInv, [Next]_vars
    PROVE  /\ \A w \in Windows : /\ acts'[w] = 0 => acts[w] = 0
                                 /\ Gone(w) => Gone(w)'
                                 /\ acts[w] > 0 => acts'[w] > 0
           /\ serial' >= serial
           /\ \A n \in DOMAIN requests : n \in DOMAIN requests' /\ requests'[n] = requests[n]
<1>1. acts \in [Windows -> Nat] /\ requests \in Seq(Requests)
  BY DEF IInv, TypeOK, DataOK, LogOK
<1>2. CASE UNCHANGED vars
  BY <1>2, <1>1 DEF vars, Gone, serial
<1>3. ASSUME NEW r \in Requests, Receive(r)
      PROVE  /\ acts' = acts /\ window' = window /\ serial' >= serial
             /\ \A n \in DOMAIN requests : n \in DOMAIN requests' /\ requests'[n] = requests[n]
  BY <1>1, <1>3 DEF Receive, serial
<1>4. CASE ShellStep
  BY <1>4, <1>1, WindowsWait, ShellGoesOn DEF Gone, serial
<1>5. CASE ShellCall
  BY <1>5, <1>1, CallsAreOfTheWindow, CallsChange DEF Gone, serial
<1>6. ASSUME NEW w \in Windows, WindowStep(w)
      PROVE  /\ \A v \in Windows : /\ acts'[v] = 0 => acts[v] = 0
                                   /\ acts[v] > 0 => acts'[v] > 0
                                   /\ Gone(v) => Gone(v)'
             /\ requests' = requests
  <2>1. requests' = requests /\ (acts' = acts \/ acts' = [acts EXCEPT ![w] = @ + 1])
    BY <1>6, OthersWait, WindowGoesOn
  <2>2. \A v \in Windows : Gone(v) => Gone(v)'
    BY <1>6, WindowChanges DEF Gone
  <2>3. \A v \in Windows : acts'[v] \in {acts[v], acts[v] + 1} /\ acts[v] \in Nat
    BY <1>1, <2>1
  <2> QED BY <2>1, <2>2, <2>3
<1> QED BY Steps, <1>1, <1>2, <1>3, <1>4, <1>5, <1>6 DEF Gone, serial

-----------------------------------------------------------------------------
(* A window that does nothing by itself.                                   *)

\* It changes its state for the shell only, and with the block that was set for it.
LEMMA OnlyServesInvariance ==
    ASSUME IInv, OnlyServes, [Next]_vars
    PROVE  OnlyServes'
<1>. DEFINE Serves(w, my, sh) ==
                my.pc \in MinMaxes => /\ my.serving /\ my.want = request.arg
                                      /\ my.pc = "minmaxWrite" => my.state = sh
<1>1. \A w \in Windows : acts[w] = 0 => Serves(w, thread[w], shdata.state)
  BY DEF OnlyServes, At
<1>2. ASSUME requests' = requests,
             \A w \in Windows : acts'[w] = 0 => Serves(w, thread'[w], shdata'.state)
      PROVE  OnlyServes'
  BY <1>2 DEF OnlyServes, At, request, serial
<1>3. \A w \in Windows : acts'[w] = 0 => acts[w] = 0
  BY CalmIsOver
<1>4. \A w \in Windows : acts[w] = 0 /\ thread[w].pc \in MinMaxes
                            => thread[w].serving /\ request.win = w /\ thread[Shell].pc = "stateWait"
  BY <1>1 DEF IInv, Serving, At, Reports, MinMaxes, Closes
<1>5. CASE UNCHANGED vars
  BY <1>1, <1>2, <1>5 DEF vars
<1>6. ASSUME NEW w \in Windows, WindowStep(w) PROVE OnlyServes'
  <2>1. /\ \A t \in Windows \ {w} : thread'[t] = thread[t]
        /\ UNCHANGED <<shdata, requests>>
    BY <1>6, OthersWait DEF Threads
  <2>2. acts'[w] = 0 => thread[w].pc # "idle"
    <3>1. acts \in [Windows -> Nat]
      BY DEF IInv, TypeOK, DataOK
    <3>2. thread[w].pc = "idle" => acts' = [acts EXCEPT ![w] = @ + 1]
      BY <1>6, WindowGoesOn
    <3> QED BY <3>1, <3>2
  <2>3. CASE thread'[w] = Idle
    BY <2>1, <2>3, <1>1, <1>2, <1>3 DEF Idle, MinMaxes
  <2>4. CASE /\ <<thread[w].pc, thread'[w].pc>> \in Goes
             /\ thread'[w].serving = thread[w].serving
             /\ thread[w].pc = "minmaxRead" => thread'[w].state = shdata.state
             /\ thread'[w].pc \in {"minmaxWrite", "minmaxDo"} => thread'[w].want = thread[w].want
    <3>1. acts'[w] = 0 => Serves(w, thread'[w], shdata'.state)
      BY <2>1, <2>2, <2>4, <1>1, <1>3 DEF Goes, MinMaxes
    <3>. HIDE DEF Serves
    <3> QED BY <2>1, <3>1, <1>1, <1>2, <1>3
  <2> QED BY <2>3, <2>4, <1>6, WindowGoesOn
<1>7. ASSUME NEW r \in Requests, Receive(r) PROVE OnlyServes'
  <2>1. /\ \A w \in Windows : thread'[w] = thread[w]
        /\ thread[Shell].pc = "idle"
    BY <1>7, WindowsWait DEF Receive, At
  <2> QED BY <2>1, <1>3, <1>4 DEF OnlyServes
<1>8. CASE ShellCall
  <2>. DEFINE w == request.win
  <2>1. /\ \A t \in Windows \ {w} : thread'[t] = thread[t]
        /\ UNCHANGED <<shdata, requests>>
        /\ <<thread[Shell].pc, thread'[Shell].pc>> \in Waits
        /\ w \in Windows /\ thread[w].pc = "idle"
        /\ \/ thread'[w] = thread[w]
           \/ thread'[w] = Idle
           \/ /\ <<thread[Shell].pc, thread'[w].pc>> \in CallsOut /\ thread'[w].serving
              /\ thread[Shell].pc = "stateShow" => thread'[w].want = request.arg
    BY <1>8, CallsAreOfTheWindow DEF At
  <2>2. Serves(w, thread'[w], shdata'.state)
    BY <2>1 DEF CallsOut, MinMaxes, Idle
  <2>. HIDE DEF Serves, w
  <2> QED BY <2>1, <2>2, <1>1, <1>2, <1>3
<1>9. CASE ShellStep
  <2>1. requests' = requests /\ \A w \in Windows : thread'[w] = thread[w]
    BY <1>9, WindowsWait, ShellGoesOn
  <2>2. thread[Shell].pc = "stateWait" => ~ thread[request.win].serving
    BY <1>9, ShellGoesOn DEF Process, At
  <2>3. \A w \in Windows : acts[w] = 0 => thread[w].pc \notin MinMaxes
    BY <2>2, <1>4
  <2> QED BY <2>1, <2>3, <1>2, <1>3
<1> QED BY Steps, <1>5, <1>6, <1>7, <1>8, <1>9

\* And it stays in the state that the shell saw it in, until the shell has set the
\* block.
LEMMA AsLookedAtInvariance ==
    ASSUME IInv, OnlyServes, AsLookedAt, [Next]_vars
    PROVE  AsLookedAt'
<1>1. thread[Shell].pc = "stateShow" /\ acts[request.win] = 0 /\ ~ Gone(request.win)
         => window[request.win].state # request.arg
  BY DEF AsLookedAt, At
<1>2. \A w \in Windows : (acts'[w] = 0 => acts[w] = 0) /\ (Gone(w) => Gone(w)')
  BY CalmIsOver
<1>3. thread[Shell].pc # "idle" => request.win \in Windows
  BY RequestKinds DEF IInv, TypeOK, ShellServes
<1>4. ASSUME requests' = requests, thread[Shell].pc = "stateShow",
             \A w \in Windows : acts[w] = 0 => window'[w].state = window[w].state
      PROVE  AsLookedAt'
  BY <1>1, <1>2, <1>3, <1>4 DEF AsLookedAt, At, request, serial
<1>5. thread'[Shell].pc # "stateShow" => AsLookedAt'
  BY DEF AsLookedAt, At
<1>6. CASE UNCHANGED vars
  BY <1>4, <1>5, <1>6 DEF vars
<1>7. ASSUME NEW w \in Windows, WindowStep(w) PROVE AsLookedAt'
  <2>1. thread'[Shell] = thread[Shell] /\ requests' = requests
    BY <1>7, OthersWait, ThreadsAssumption DEF Threads
  <2>2. thread[w].pc = "minmaxDo" /\ acts[w] = 0 => thread[Shell].pc = "stateWait"
    BY DEF OnlyServes, IInv, Serving, At, Reports, MinMaxes, Closes
  <2>3. /\ \A v \in Windows \ {w} : window'[v] = window[v]
        /\ thread[w].pc # "minmaxDo" => window'[w].state = window[w].state
    BY <1>7, WindowChanges
  <2> QED BY <2>1, <2>2, <2>3, <1>4, <1>5
<1>8. ASSUME NEW r \in Requests, Receive(r) PROVE AsLookedAt'
  <2>1. thread'[Shell].pc = FirstLabel(r.kind)
    BY <1>8 DEF Receive, Goto, IInv, TypeOK, ThreadOK, Threads
  <2>2. r.kind \in {"POSITION", "STATE", "FOCUS", "DESTROY"}
    BY RequestKinds, BoundsAssumption DEF IInv, TypeOK
  <2> QED BY <2>1, <2>2, <1>5 DEF FirstLabel
<1>9. CASE ShellCall
  BY <1>9, <1>5, CallsAreOfTheWindow DEF Waits
<1>10. CASE ShellStep
  <2>1. CASE StateCheck
    <3>1. \/ Goto(Shell, "idle")
          \/ request.arg # IF Gone(request.win) THEN 0 ELSE window[request.win].state
      BY <2>1 DEF StateCheck
    <3>2. Goto(Shell, "idle") => thread'[Shell].pc = "idle"
      BY DEF Goto, IInv, TypeOK, ThreadOK, Threads
    <3>3. UNCHANGED <<window, requests, acts>>
      BY <2>1 DEF StateCheck
    <3> QED BY <3>1, <3>2, <3>3, <1>5 DEF AsLookedAt, Gone, request, serial
  <2>2. CASE Process
    BY <2>2, <1>4, <1>5 DEF Process, At
  <2>3. CASE ~ StateCheck /\ ~ Process
    <3>1. <<thread[Shell].pc, thread'[Shell].pc>> \in ShellGoes
      BY <2>3, <1>10, ShellGoesOn
    <3>2. thread[Shell].pc # "stateCheck"
      BY <2>3, <1>10 DEF ShellStep, MoveBlock, MoveAck, MoveCheck, MoveUnblock, PosRead, PosReport,
         StateUnblock, FocusBlock, FocusDone, CloseDone, At
    <3> QED BY <3>1, <3>2, <1>5 DEF ShellGoes
  <2> QED BY <2>1, <2>2, <2>3
<1> QED BY Steps, <1>6, <1>7, <1>8, <1>9, <1>10

-----------------------------------------------------------------------------
(* Acknowledgements are neither lost nor written twice.                    *)

\* A message more in the log is one more acknowledgement of what it acknowledges,
\* and of nothing else.
LEMMA AcksAppend ==
    ASSUME log \in Seq(Messages), NEW m, log' = Append(log, m), NEW n \in Nat
    PROVE  /\ m # Ack(n) => Acks(n)' = Acks(n)
           /\ m = Ack(n) /\ Acks(n) = {} => Once(n)'
           /\ Acks(n) = {} /\ m # Ack(n) => Acks(n)' = {}
           /\ Once(n) /\ m # Ack(n) => Once(n)'
<1>1. /\ Len(log) \in Nat /\ DOMAIN log = 1 .. Len(log) /\ DOMAIN log' = 1 .. Len(log) + 1
      /\ \A i \in DOMAIN log : log'[i] = log[i]
      /\ log'[Len(log) + 1] = m
  BY AppendProperties
<1>2. ASSUME m # Ack(n) PROVE Acks(n)' = Acks(n)
  BY <1>1, <1>2 DEF Acks, Ack
<1>3. ASSUME m = Ack(n), Acks(n) = {} PROVE Once(n)'
  <2>1. \A i \in DOMAIN log : log[i] # Ack(n)
    BY <1>3 DEF Acks
  <2>2. Acks(n)' = {Len(log) + 1}
    BY <1>1, <1>3, <2>1 DEF Acks, Ack
  <2> QED BY <1>1, <2>2 DEF Once
<1>4. ASSUME Once(n), m # Ack(n) PROVE Once(n)'
  BY <1>1, <1>2, <1>4 DEF Once
<1> QED BY <1>2, <1>3, <1>4

\* Serials tell acknowledgements apart, from each other and from the rest.
LEMMA AcksDiffer ==
    /\ \A k \in Nat, n \in Nat : Ack(k) = Ack(n) => k = n
    /\ \A n \in Nat, w \in Windows : Position(w) # Ack(n) /\ Destroy(w) # Ack(n)
    /\ \A n \in Nat, w \in Windows, s \in States : State(w, s) # Ack(n)
    /\ \A n \in Nat : Create # Ack(n) /\ Debug # Ack(n)
<1>1. \A n \in Nat : Ack(n).kind = "ACK" /\ Ack(n).serial = n
  BY DEF Ack
<1>2. \A w \in Windows : Position(w).kind = "POSITION" /\ Destroy(w).kind = "DESTROY"
  BY DEF Position, Destroy
<1>3. \A w \in Windows, s \in States : State(w, s).kind = "STATE"
  BY DEF State
<1>4. Create.kind = "CREATE" /\ Debug.kind = "DEBUG"
  BY DEF Create, Debug
<1> QED BY <1>1, <1>2, <1>3, <1>4

\* Serials are the numbers of the requests.
LEMMA NumbersOK ==
    ASSUME IInv
    PROVE  /\ serial \in Nat
           /\ \A n \in DOMAIN requests : n \in Nat /\ n <= serial
           /\ requests # <<>> => serial \in DOMAIN requests
           /\ thread[Shell].pc # "idle" => serial \in DOMAIN requests /\ request = requests[serial]
           /\ \A n \in DOMAIN requests : requests[n].win \in Windows
<1>1. requests \in Seq(Requests) /\ \A r \in Requests : r.win \in Windows
  BY RequestKinds DEF IInv, TypeOK, LogOK
<1>2. /\ DOMAIN requests = 1 .. Len(requests) /\ Len(requests) \in Nat
      /\ \A n \in 1 .. Len(requests) : requests[n] \in Requests
      /\ requests # <<>> => Len(requests) > 0
  BY <1>1
<1>3. thread[Shell].pc # "idle" => requests # <<>>
  BY DEF IInv, ShellServes
<1> QED BY <1>1, <1>2, <1>3 DEF serial, request

\* What is owed for the n-th request, depending on where the shell is at the last.
Pending == ~ At(Shell, "idle") /\ Unanswered
Owed(n) == IF n = serial /\ Pending THEN Exempt(n) \/ Acks(n) = {} ELSE Answered(n)

\* A step that does not acknowledge a request keeps what is owed for it, if it
\* leaves the shell where the acknowledgement is still to come, or past it.
LEMMA OwedStays ==
    ASSUME IInv, [Next]_vars, NEW n \in DOMAIN requests, serial' = serial, Owed(n),
           Acks(n) = {} => Acks(n)' = {},
           Once(n) => Once(n)',
           n = serial => \/ Exempt(n)
                         \/ Answered(n) /\ ~ Pending'
                         \/ Acks(n) = {} /\ Pending'
    PROVE  Owed(n)'
<1>1. requests'[n] = requests[n] /\ requests[n].win \in Windows
  BY CalmIsOver DEF IInv, TypeOK, LogOK, Requests
<1>2. Exempt(n) => Exempt(n)'
  BY <1>1, CalmIsOver DEF Exempt
<1>3. Gone(requests[n].win) => Gone(requests[n].win)'
  BY <1>1, CalmIsOver DEF Gone
<1>4. Answered(n) => Answered(n)'
  BY <1>1, <1>2, <1>3 DEF Answered
<1>5. Exempt(n)' => Answered(n)'
  BY DEF Answered
<1> QED BY <1>2, <1>4, <1>5 DEF Owed

\* What is owed for all of them.
AllOwed == /\ \A n \in Nat : n > serial => Acks(n) = {}
           /\ \A n \in DOMAIN requests : Owed(n)

\* The hooks.
LEMMA WindowAcks ==
    ASSUME IInv, OnlyServes, AllOwed, muted' = {}, NEW w \in Windows, WindowStep(w), [Next]_vars
    PROVE  AllOwed'
<1>. DEFINE from == thread[w].pc
            my == thread'[w]
<1>1. requests' = requests /\ thread'[Shell] = thread[Shell] /\ shdata' = shdata
      /\ \A t \in Windows \ {w} : thread'[t] = thread[t]
  BY OthersWait, ThreadsAssumption DEF Threads
<1>2. serial' = serial /\ request' = request
  BY <1>1 DEF serial, request
<1>3. log \in Seq(Messages)
  BY DEF IInv, TypeOK, LogOK
<1>4. \/ my = Idle /\ from \in Lasts
      \/ <<from, my.pc>> \in Goes /\ my.serving = thread[w].serving
  BY WindowGoesOn
<1>5. thread[w].serving =>
         /\ request.win = w
         /\ \/ At(Shell, "moveWait") /\ from \in Reports
            \/ At(Shell, "stateWait") /\ from \in Reports \cup MinMaxes
            \/ At(Shell, "focusWait") /\ from = "focusAck"
            \/ At(Shell, "closeWait") /\ from \in Closes
  BY DEF IInv, Serving, At
<1>6. from = "focusAck" => thread[w].serving
  BY DEF IInv, Serving, At
\* The shell waits on, unless the acknowledgement has been written.
<1>7. ASSUME thread[w].serving => from \notin {"focusAck", "minmaxWrite"}
      PROVE  Pending' <=> Pending
  <2>1. Idle.serving = FALSE /\ Idle.pc = "idle"
    BY DEF Idle
  <2>2. my.serving => thread[w].serving
    BY <1>4, <2>1
  <2>3. thread[w].serving /\ thread[Shell].pc = "stateWait" =>
           (from \in {"minmaxRead", "minmaxWrite"}
               <=> my.serving /\ my.pc \in {"minmaxRead", "minmaxWrite"})
    <3>. SUFFICES ASSUME thread[w].serving, thread[Shell].pc = "stateWait"
                  PROVE  from \in {"minmaxRead", "minmaxWrite"}
                            <=> my.serving /\ my.pc \in {"minmaxRead", "minmaxWrite"}
      OBVIOUS
    <3>0. thread[w].serving = TRUE
      BY DEF IInv, TypeOK, ThreadOK, Locals, Threads
    <3>1. CASE from = "minmaxRead"
      <4>1. my.serving = thread[w].serving /\ my.pc = "minmaxWrite"
        BY <3>1, <1>4 DEF Goes, Lasts
      <4> QED BY <3>0, <3>1, <4>1
    <3>2. from \notin {"idle", "minmaxWrite"}
      BY <1>5, <1>7 DEF Reports, MinMaxes, At
    <3>3. CASE from \notin {"idle", "minmaxRead", "minmaxWrite"}
      <4>1. my.pc \notin {"minmaxRead", "minmaxWrite"}
        BY <3>3, <2>1, <1>4 DEF Goes
      <4> QED BY <3>3, <4>1
    <3> QED BY <3>1, <3>2, <3>3
  <2>4. ~ (thread[w].serving /\ thread[Shell].pc = "focusWait")
    BY <1>5, <1>7 DEF At
  <2>5. CASE request.win = w
    BY <1>1, <1>2, <2>2, <2>3, <2>4, <2>5 DEF Pending, Unanswered, At
  <2>6. CASE request.win # w
    <3>1. thread[Shell].pc # "idle" => thread'[request.win] = thread[request.win]
      BY <1>1, <2>6, NumbersOK
    <3> QED BY <1>1, <1>2, <3>1 DEF Pending, Unanswered, At
  <2> QED BY <2>5, <2>6
\* No acknowledgement ...
<1>8. ASSUME \A n \in Nat : (Acks(n) = {} => Acks(n)' = {}) /\ (Once(n) => Once(n)'),
             Exempt(serial) \/ (Pending' <=> Pending)
      PROVE  AllOwed'
  <2>1. ASSUME NEW n \in DOMAIN requests PROVE Owed(n)'
    <3>1. Owed(n) /\ n \in Nat
      BY NumbersOK DEF AllOwed
    <3>2. n = serial => \/ Exempt(n)
                        \/ Answered(n) /\ ~ Pending'
                        \/ Acks(n) = {} /\ Pending'
      BY <3>1, <1>8 DEF Owed
    <3> QED BY <3>1, <3>2, <1>2, <1>8, OwedStays
  <2> QED BY <2>1, <1>1, <1>2, <1>8 DEF AllOwed
\* ... or one.
<1>9. ASSUME NEW k \in DOMAIN requests, log' = Append(log, Ack(k)), Owed(k)',
             k = serial \/ Exempt(serial) \/ (Pending' <=> Pending)
      PROVE  AllOwed'
  <2>0. k \in Nat
    BY NumbersOK
  <2>1. \A n \in Nat : n # k => Ack(k) # Ack(n)
    BY <2>0, AcksDiffer
  <2>2. \A n \in Nat : n # k => (Acks(n) = {} => Acks(n)' = {}) /\ (Once(n) => Once(n)')
    BY <2>1, <1>3, <1>9, AcksAppend
  <2>3. ASSUME NEW n \in DOMAIN requests, n # k PROVE Owed(n)'
    <3>1. Owed(n) /\ n \in Nat
      BY NumbersOK DEF AllOwed
    <3>2. n = serial => \/ Exempt(n)
                        \/ Answered(n) /\ ~ Pending'
                        \/ Acks(n) = {} /\ Pending'
      BY <3>1, <2>3, <1>9 DEF Owed
    <3> QED BY <3>1, <3>2, <2>2, <2>3, <1>2, OwedStays
  <2>4. \A n \in Nat : n > serial => n # k
    BY NumbersOK
  <2> QED BY <2>2, <2>3, <2>4, <1>1, <1>2, <1>9 DEF AllOwed
<1>10. ASSUME log' = log PROVE \A n \in Nat : (Acks(n) = {} => Acks(n)' = {}) /\ (Once(n) => Once(n)')
  BY <1>10 DEF Acks, Once, Ack
<1>11. ASSUME NEW m, log' = Append(log, m), \A n \in Nat : m # Ack(n)
       PROVE  \A n \in Nat : (Acks(n) = {} => Acks(n)' = {}) /\ (Once(n) => Once(n)')
  BY <1>3, <1>11, AcksAppend
<1>12. CASE log' = log /\ from \notin {"minmaxWrite", "focusAck", "closeWrite", "ask"}
  BY <1>7, <1>8, <1>10, <1>12
<1>13. ASSUME NEW m, Reported(w, m), log' = Append(log, m) PROVE AllOwed'
  <2>1. CASE from \notin {"minmaxWrite", "focusAck"}
    <3>1. m \in {Position(w), Destroy(w), Create}
      BY <2>1, <1>13 DEF Reported, At
    <3>2. \A n \in Nat : m # Ack(n)
      BY <3>1, AcksDiffer
    <3> QED BY <2>1, <3>2, <1>7, <1>8, <1>11, <1>13
  <2>2. CASE from = "focusAck"
    <3>1. /\ m = Ack(shdata.focus) /\ thread[w].serving /\ request.win = w
          /\ thread[Shell].pc = "focusWait"
      BY <2>2, <1>5, <1>6, <1>13 DEF Reported, At, Reports, MinMaxes, Closes
    <3>2. shdata.focus = serial /\ request.kind = "FOCUS"
      BY <3>1 DEF IInv, Blocks, ShellServes, At, FocusLabels
    <3>3. serial \in DOMAIN requests /\ serial \in Nat /\ request = requests[serial]
      BY <3>1, NumbersOK
    <3>4. Pending /\ ~ Exempt(serial)
      BY <3>1, <3>2, <3>3 DEF Pending, Unanswered, At, Exempt
    <3>5. Acks(serial) = {}
      BY <3>3, <3>4 DEF AllOwed, Owed
    <3>6. Once(serial)'
      <4>1. PICK s \in Nat : s = serial
        BY <3>3
      <4>2. Acks(s) = {} /\ m = Ack(s)
        BY <3>1, <3>2, <3>5, <4>1
      <4>3. Once(s)'
        BY <4>2, <1>3, <1>13, AcksAppend
      <4> QED BY <1>2, <4>1, <4>3
    <3>7. my = Idle
      BY <2>2, <1>4 DEF Goes
    <3>8. ~ Pending'
      BY <3>1, <3>7, <1>1, <1>2 DEF Pending, Unanswered, At, Idle, CloseLabels
    <3>9. Owed(serial)'
      BY <3>6, <3>8 DEF Owed, Answered
    <3> QED BY <3>1, <3>2, <3>3, <3>9, <1>2, <1>9, <1>13
  <2>3. CASE from = "minmaxWrite"
    <3>. DEFINE b == thread[w].state
    <3>1. \/ IF b.win = w /\ b.state = thread[w].want THEN m = Ack(b.serial)
                                                      ELSE m = State(w, thread[w].want)
          \/ ~ thread[w].serving /\ m = Debug
      BY <2>3, <1>13 DEF Reported, At
    <3>2. thread[w].serving => thread[Shell].pc = "stateWait" /\ request.win = w
      BY <2>3, <1>5 DEF At, Reports, Closes
    <3>3. thread[Shell].pc = "stateWait" =>
             /\ request.kind = "STATE" /\ serial \in DOMAIN requests /\ request = requests[serial]
             /\ shdata.state = [win |-> request.win, state |-> request.arg, serial |-> serial]
      BY NumbersOK DEF IInv, ShellServes, Blocks, At, StateLabels
    <3>4. acts[w] = 0 => /\ thread[w].serving /\ b = shdata.state
                         /\ thread[w].want = request.arg
      BY <2>3 DEF OnlyServes, MinMaxes, At
    <3>5. thread[w].serving /\ acts[w] # 0 => Exempt(serial)
      <4>1. acts[w] \in Nat
        BY DEF IInv, TypeOK, DataOK
      <4> QED BY <3>2, <3>3, <4>1 DEF Exempt
    <3>6. CASE acts[w] = 0
      <4>1. /\ m = Ack(serial) /\ serial \in DOMAIN requests /\ thread[Shell].pc = "stateWait"
            /\ request.win = w /\ thread[w].serving
        BY <3>1, <3>2, <3>3, <3>4, <3>6
      <4>2. Pending
        BY <4>1, <2>3 DEF Pending, Unanswered, At
      <4>3. Exempt(serial) \/ Acks(serial) = {}
        BY <4>1, <4>2 DEF AllOwed, Owed
      <4>4. my.pc # "minmaxRead" /\ my.pc # "minmaxWrite"
        BY <2>3, <1>4 DEF Goes, Idle
      <4>5. ~ Pending'
        BY <4>1, <4>4, <1>1, <1>2 DEF Pending, Unanswered, At, CloseLabels
      <4>6. CASE Exempt(serial)
        <5>1. Exempt(serial)'
          BY <4>1, <4>6, <1>1, <1>2, CalmIsOver, NumbersOK DEF Exempt
        <5>2. Owed(serial)'
          BY <4>5, <5>1 DEF Owed, Answered
        <5> QED BY <4>1, <5>2, <1>2, <1>9, <1>13
      <4>7. CASE Acks(serial) = {}
        <5>0. PICK s \in Nat : s = serial
          BY NumbersOK
        <5>1. Acks(s) = {} /\ m = Ack(s)
          BY <4>1, <4>7, <5>0
        <5>2. Once(s)'
          BY <5>1, <1>3, <1>13, AcksAppend
        <5>3. Once(serial)'
          BY <1>2, <5>0, <5>2
        <5>4. Owed(serial)'
          BY <4>5, <5>3 DEF Owed, Answered
        <5> QED BY <4>1, <5>4, <1>2, <1>9, <1>13
      <4> QED BY <4>3, <4>6, <4>7
    <3>7. CASE acts[w] # 0
      <4>1. Exempt(serial) \/ (Pending' <=> Pending)
        BY <3>5, <3>7, <1>7
      <4>2. CASE b.win = w /\ m = Ack(b.serial)
        <5>1. OfRequest(b) /\ w # NoWindow
          BY ThreadsAssumption DEF IInv, StateBlocksOK
        <5>2. /\ b.serial \in DOMAIN requests
              /\ requests[b.serial].kind = "STATE" /\ requests[b.serial].win = w
          BY <4>2, <5>1 DEF OfRequest
        <5>3. acts'[w] > 0
          <6>1. acts[w] \in Nat
            BY DEF IInv, TypeOK, DataOK
          <6> QED BY <6>1, <3>7, CalmIsOver
        <5>0. PICK k \in DOMAIN requests : k = b.serial
          BY <5>2
        <5>4. k \in DOMAIN requests /\ requests'[k].kind = "STATE" /\ requests'[k].win = w
          BY <5>0, <5>2, <1>1
        <5>5. Exempt(k)'
          BY <5>3, <5>4 DEF Exempt
        <5>6. Owed(k)'
          BY <5>5 DEF Owed, Answered
        <5>7. log' = Append(log, Ack(k))
          BY <4>2, <5>0, <1>13
        <5> QED BY <4>1, <5>4, <5>6, <5>7, <1>9
      <4>3. CASE m = State(w, thread[w].want)
        <5>1. thread[w].want \in States
          BY DEF IInv, TypeOK, ThreadOK, Locals, Threads
        <5>2. \A n \in Nat : m # Ack(n)
          BY <4>3, <5>1, AcksDiffer
        <5> QED BY <4>1, <5>2, <1>8, <1>11, <1>13
      <4>4. CASE m = Debug
        <5>1. \A n \in Nat : m # Ack(n)
          BY <4>4, AcksDiffer
        <5> QED BY <4>1, <5>1, <1>8, <1>11, <1>13
      <4> QED BY <3>1, <4>2, <4>3, <4>4
    <3> QED BY <3>6, <3>7
  <2> QED BY <2>1, <2>2, <2>3
<1>14. \A m : Written(m) => log' = Append(log, m)
  BY DEF Written
<1> QED BY <1>12, <1>13, <1>14, WindowWrites

\* The shell.
LEMMA ShellAcks ==
    ASSUME IInv, AllOwed, muted' = {}, ShellStep, [Next]_vars
    PROVE  AllOwed'
<1>. DEFINE from == thread[Shell].pc
            to == thread'[Shell].pc
<1>1. requests' = requests /\ \A w \in Windows : thread'[w] = thread[w]
  BY ShellGoesOn, WindowsWait
<1>2. serial' = serial /\ request' = request
  BY <1>1 DEF serial, request
<1>3. log \in Seq(Messages)
  BY DEF IInv, TypeOK, LogOK
<1>4. from # "idle" => serial \in DOMAIN requests /\ request = requests[serial] /\ request.win \in Windows
  BY NumbersOK
<1>5. serial \in Nat /\ \A n \in DOMAIN requests : n \in Nat /\ n <= serial
  BY NumbersOK
\* The last request is not behind yet when it is acknowledged.
<1>6. ASSUME \A n \in Nat : n # serial => (Acks(n) = {} => Acks(n)' = {}) /\ (Once(n) => Once(n)'),
             serial \in DOMAIN requests => Owed(serial)'
      PROVE  AllOwed'
  <2>1. ASSUME NEW n \in DOMAIN requests, n # serial PROVE Owed(n)'
    <3>1. Owed(n) /\ n \in Nat
      BY <1>5 DEF AllOwed
    <3> QED BY <2>1, <3>1, <1>2, <1>6, OwedStays
  <2>2. \A n \in Nat : n > serial => Acks(n) = {} /\ n # serial
    BY <1>5 DEF AllOwed
  <2>3. \A n \in Nat : n > serial => Acks(n)' = {}
    BY <2>2, <1>6
  <2> QED BY <2>1, <2>3, <1>1, <1>2, <1>6 DEF AllOwed
<1>7. ASSUME log' = log PROVE \A n \in Nat : (Acks(n) = {} => Acks(n)' = {}) /\ (Once(n) => Once(n)')
  BY <1>7 DEF Acks, Once, Ack
<1>8. ASSUME NEW m, log' = Append(log, m), \A n \in Nat : m # Ack(n)
      PROVE  \A n \in Nat : (Acks(n) = {} => Acks(n)' = {}) /\ (Once(n) => Once(n)')
  BY <1>3, <1>8, AcksAppend
<1>9. CASE Process
  <2>1. log' = log /\ thread' = thread
    BY <1>9 DEF Process
  <2>2. Pending' <=> Pending
    BY <2>1, <1>2 DEF Pending, Unanswered, At
  <2>3. serial \in DOMAIN requests => Owed(serial)'
    <3>1. ASSUME serial \in DOMAIN requests
          PROVE  \/ Exempt(serial) \/ (Answered(serial) /\ ~ Pending')
                 \/ (Acks(serial) = {} /\ Pending')
      BY <3>1, <2>2 DEF AllOwed, Owed
    <3>2. PICK s : s = serial
      OBVIOUS
    <3>3. s \in DOMAIN requests => Owed(s)'
      BY <3>1, <3>2, <2>1, <1>2, <1>5, <1>7, OwedStays DEF AllOwed
    <3> QED BY <3>2, <3>3, <1>2
  <2> QED BY <2>1, <2>3, <1>6, <1>7
<1>10. ASSUME ~ Process PROVE AllOwed'
  <2>1. <<from, to>> \in ShellGoes /\ serial \in DOMAIN requests
    BY <1>4, <1>10, ShellGoesOn DEF ShellGoes
  <2>2. PICK s \in Nat : s = serial
    BY <1>5
  <2>3. s \in DOMAIN requests /\ Owed(s) /\ request = requests[s]
    BY <2>1, <2>2, <1>4 DEF AllOwed, ShellGoes
  <2>4. SUFFICES /\ \A n \in Nat : n # s => (Acks(n) = {} => Acks(n)' = {}) /\ (Once(n) => Once(n)')
                 /\ Owed(s)'
    BY <2>2, <1>2, <1>6
  <2>5. Pending' <=> to \in {"moveSet", "stateShow", "focusSend"}
    BY <2>1 DEF Pending, Unanswered, At, ShellGoes, CloseLabels
  <2>6. Exempt(s) => Exempt(s)'
    BY <2>3, <1>1, <1>4, <2>1, CalmIsOver DEF Exempt, ShellGoes
  \* It acknowledges the request.
  <2>7. ASSUME log' = Append(log, Ack(s)), Pending, ~ Pending'
        PROVE  /\ \A n \in Nat : n # s => (Acks(n) = {} => Acks(n)' = {}) /\ (Once(n) => Once(n)')
               /\ Owed(s)'
    <3>1. \A n \in Nat : n # s => Ack(s) # Ack(n)
      BY AcksDiffer
    <3>2. Exempt(s) \/ Acks(s) = {}
      BY <2>2, <2>3, <2>7 DEF Owed
    <3>3. Exempt(s)' \/ Once(s)'
      BY <3>2, <2>6, <2>7, <1>3, AcksAppend
    <3>4. Owed(s)'
      BY <3>3, <2>7 DEF Owed, Answered
    <3> QED BY <3>1, <3>4, <2>7, <1>3, AcksAppend
  \* It does not.
  <2>8. ASSUME \A n \in Nat : (Acks(n) = {} => Acks(n)' = {}) /\ (Once(n) => Once(n)'),
               \/ Pending' /\ Pending
               \/ ~ Pending' /\ ~ Pending
               \/ ~ Pending' /\ request.kind = "DESTROY"
        PROVE  Owed(s)'
    <3>1. \/ Exempt(s) \/ (Answered(s) /\ ~ Pending')
          \/ (Acks(s) = {} /\ Pending')
      BY <2>2, <2>3, <2>8 DEF Owed, Answered
    <3> QED BY <3>1, <2>2, <2>3, <2>8, <1>2, OwedStays
  <2>9. CASE from \in {"moveBlock", "moveCheck"}
    <3>1. log' = log \/ log' = Append(log, Debug)
      BY <2>9, <1>4, ShellWrites DEF Written
    <3>2. \A n \in Nat : Debug # Ack(n)
      BY AcksDiffer
    <3>3. \A n \in Nat : (Acks(n) = {} => Acks(n)' = {}) /\ (Once(n) => Once(n)')
      BY <3>1, <3>2, <1>7, <1>8
    <3>4. Pending' <=> Pending
      BY <2>1, <2>5, <2>9 DEF Pending, Unanswered, At, ShellGoes, CloseLabels
    <3> QED BY <3>3, <3>4, <2>8
  <2>10. CASE from = "posReport"
    <3>1. log' = log \/ log' = Append(log, Position(request.win))
      BY <2>10, ShellWrites DEF Written
    <3>2. \A n \in Nat : Position(request.win) # Ack(n)
      BY <1>4, <2>10, AcksDiffer
    <3>3. \A n \in Nat : (Acks(n) = {} => Acks(n)' = {}) /\ (Once(n) => Once(n)')
      BY <3>1, <3>2, <1>7, <1>8
    <3>4. ~ Pending' /\ ~ Pending
      BY <2>1, <2>5, <2>10 DEF Pending, Unanswered, At, ShellGoes, CloseLabels
    <3> QED BY <3>3, <3>4, <2>8
  <2>11. CASE from = "moveWait" \/ (from = "stateCheck" /\ to = "idle")
    <3>1. log' = Append(log, Ack(s))
      BY <2>2, <2>11, ShellWrites DEF Written
    <3>2. Pending /\ ~ Pending'
      BY <2>1, <2>5, <2>11 DEF Pending, Unanswered, At, ShellGoes
    <3> QED BY <3>1, <3>2, <2>7
  <2>12. CASE from \notin {"moveBlock", "moveCheck", "posReport", "moveWait"}
              /\ ~ (from = "stateCheck" /\ to = "idle")
    <3>1. log' = log
      BY <2>12, ShellWrites
    <3>2. from \in {"stateWait", "focusWait"} => ~ thread[request.win].serving
      BY <1>10, ShellGoesOn
    <3>3. from = "closeWait" => request.kind = "DESTROY"
      BY DEF IInv, ShellServes, CloseLabels
    <3>4. \/ Pending' /\ Pending
          \/ ~ Pending' /\ ~ Pending
          \/ ~ Pending' /\ request.kind = "DESTROY"
      BY <2>1, <2>5, <2>12, <3>2, <3>3 DEF Pending, Unanswered, At, ShellGoes, CloseLabels
    <3> QED BY <3>1, <3>4, <2>8, <1>7
  <2> QED BY <2>9, <2>10, <2>11, <2>12
<1> QED BY <1>9, <1>10

\* A window that is gone when the shell calls it, or one that is in its state
\* already, need not have anything to say.
LEMMA CallAcks ==
    ASSUME IInv, AsLookedAt, AllOwed, ShellCall, [Next]_vars
    PROVE  AllOwed'
<1>. DEFINE w == request.win
            from == thread[Shell].pc
            to == thread'[Shell].pc
<1>1. /\ requests' = requests /\ acts' = acts /\ log' = log
      /\ <<from, to>> \in Waits
      /\ w \in Windows
  BY CallsAreOfTheWindow DEF channelVars
<1>2. serial' = serial /\ request' = request
  BY <1>1 DEF serial, request
<1>3. \A n \in Nat : (Acks(n) = {} => Acks(n)' = {}) /\ (Once(n) => Once(n)')
  BY <1>1 DEF Acks, Once, Ack
<1>4. \A n \in DOMAIN requests : n \in Nat /\ n <= serial
  BY NumbersOK
<1>5. serial \in DOMAIN requests /\ serial \in Nat /\ request = requests[serial]
  BY <1>1, NumbersOK DEF Waits
<1>6. Pending
  BY <1>1 DEF Pending, Unanswered, At, Waits, CloseLabels
<1>7. \/ Exempt(serial) \/ (Answered(serial) /\ ~ Pending')
      \/ (Acks(serial) = {} /\ Pending')
  <2>1. Exempt(serial) \/ Acks(serial) = {}
    BY <1>5, <1>6 DEF AllOwed, Owed
  <2>2. CASE Pending'
    BY <2>1, <2>2
  <2>3. CASE ~ Pending'
    <3>1. to \in {"stateWait", "focusWait"}
      BY <2>3, <1>1 DEF Pending, Unanswered, At, Waits, CloseLabels
    <3>2. from \in {"stateShow", "focusSend"}
      BY <3>1, <1>1 DEF Waits
    <3>3. ~ (thread'[w].serving /\ to = "focusWait")
          /\ ~ (thread'[w].serving /\ thread'[w].pc = "minmaxRead" /\ to = "stateWait")
      BY <2>3, <3>1, <1>2 DEF Pending, Unanswered, At
    <3>4. from = "focusSend" => Gone(w)
      BY <3>3, <1>1, CallsChange DEF Waits
    <3>5. from = "stateShow" => Gone(w) \/ window[w].state = request.arg
      BY <3>3, <1>1, CallsChange DEF Waits
    <3>6. from = "stateShow" => request.kind = "STATE"
      BY DEF IInv, ShellServes, StateLabels
    <3>7. acts[w] \in Nat
      BY <1>1 DEF IInv, TypeOK, DataOK
    <3>8. Gone(w) \/ Exempt(serial)
      BY <3>2, <3>4, <3>5, <3>6, <3>7, <1>5 DEF AsLookedAt, At, Exempt
    <3>9. Exempt(serial) \/ Answered(serial)
      BY <2>1, <3>8, <1>5 DEF Answered
    <3> QED BY <2>3, <3>9
  <2> QED BY <2>2, <2>3
<1>8. ASSUME NEW n \in DOMAIN requests PROVE Owed(n)'
  BY <1>2, <1>3, <1>4, <1>7, OwedStays DEF AllOwed
<1>9. \A n \in Nat : n > serial => Acks(n)' = {}
  BY <1>3 DEF AllOwed
<1> QED BY <1>1, <1>2, <1>8, <1>9 DEF AllOwed

\* A new request has not been acknowledged by anything before.
LEMMA ReceiveAcks ==
    ASSUME IInv, AllOwed, NEW r \in Requests, Receive(r), [Next]_vars
    PROVE  AllOwed'
<1>1. /\ requests' = Append(requests, r) /\ log' = log /\ thread[Shell].pc = "idle"
      /\ acts' = acts /\ window' = window
  BY DEF Receive, channelVars, At
<1>2. requests \in Seq(Requests)
  BY DEF IInv, TypeOK, LogOK
<1>3. /\ serial' = serial + 1 /\ serial \in Nat /\ DOMAIN requests = 1 .. serial
      /\ DOMAIN requests' = 1 .. serial + 1
      /\ \A n \in 1 .. serial : requests'[n] = requests[n]
  BY <1>1, <1>2 DEF serial
<1>4. \A n \in Nat : (Acks(n) = {} => Acks(n)' = {}) /\ (Once(n) => Once(n)')
  BY <1>1 DEF Acks, Once, Ack
<1>5. \A n \in Nat : n > serial => Acks(n) = {}
  BY DEF AllOwed
<1>6. ASSUME NEW n \in 1 .. serial PROVE Owed(n)'
  <2>1. Answered(n)
    BY <1>1, <1>3 DEF AllOwed, Owed, Pending, At
  <2>2. n \in Nat /\ n # serial' /\ requests'[n] = requests[n]
    BY <1>3
  <2>3. Answered(n)'
    BY <2>1, <2>2, <1>1, <1>4 DEF Answered, Exempt, Gone
  <2> QED BY <2>2, <2>3 DEF Owed
<1>7. Pending'
  <2>1. thread'[Shell].pc = FirstLabel(r.kind)
    BY DEF Receive, Goto, IInv, TypeOK, ThreadOK, Threads
  <2>2. r.kind \in {"POSITION", "STATE", "FOCUS", "DESTROY"}
    BY RequestKinds, BoundsAssumption DEF IInv, TypeOK
  <2> QED BY <2>1, <2>2 DEF FirstLabel, Pending, Unanswered, At, CloseLabels
<1>8. ASSUME NEW n \in Nat, n > serial PROVE Acks(n)' = {}
  BY <1>4, <1>5, <1>8
<1>9. ASSUME NEW n, n = serial + 1 PROVE Owed(n)'
  <2>1. Acks(n)' = {} /\ n = serial'
    BY <1>3, <1>8, <1>9
  <2> QED BY <2>1, <1>7 DEF Owed
<1>10. \A n \in DOMAIN requests' : n \in 1 .. serial \/ n = serial + 1
  BY <1>3
<1>11. \A n \in DOMAIN requests' : Owed(n)'
  BY <1>6, <1>9, <1>10
<1>12. \A n \in Nat : n > serial' => Acks(n)' = {}
  BY <1>3, <1>8
<1> QED BY <1>11, <1>12 DEF AllOwed

\* What is owed is known all along.
AckInv == OnlyServes /\ AsLookedAt /\ (muted = {} => AllOwed)

LEMMA AcksAreOwed == Spec => []AckInv
<1>. USE DEF AckInv
<1>1. Init => AckInv
  <2>. SUFFICES ASSUME Init PROVE AckInv
    OBVIOUS
  <2>1. \A t \in Threads : thread[t].pc = "idle"
    BY DEF Init, Idle
  <2>2. OnlyServes /\ AsLookedAt
    BY <2>1 DEF OnlyServes, AsLookedAt, MinMaxes, At, Threads
  <2>3. log = <<>> /\ requests = <<>>
    BY DEF Init
  <2>4. AllOwed
    BY <2>3 DEF AllOwed, Acks
  <2> QED BY <2>2, <2>4
<1>2. IInv /\ AckInv /\ [Next]_vars => AckInv'
  <2>. SUFFICES ASSUME IInv, AckInv, [Next]_vars PROVE AckInv'
    OBVIOUS
  <2>1. OnlyServes' /\ AsLookedAt'
    BY OnlyServesInvariance, AsLookedAtInvariance
  <2>2. ASSUME muted' = {} PROVE AllOwed'
    <3>1. muted \subseteq muted'
      <4>1. ASSUME UNCHANGED vars PROVE muted' = muted
        BY <4>1 DEF vars, channelVars
      <4>2. ASSUME NEW r \in Requests, Receive(r) PROVE muted' = muted
        BY <4>2 DEF Receive, channelVars
      <4>3. ASSUME ShellCall PROVE muted' = muted
        BY <4>3, CallsAreOfTheWindow DEF channelVars
      <4> QED BY <4>1, <4>2, <4>3, Steps, ShellWrites, WindowWrites
    <3>2. AllOwed
      BY <2>2, <3>1
    <3>3. ASSUME UNCHANGED vars PROVE AllOwed'
      BY <3>2, <3>3 DEF vars, channelVars, AllOwed, Owed, Pending, Unanswered, Acks, Ack, Answered,
         Exempt, Once, Gone, At, serial, request
    <3> QED
      BY <2>2, <3>2, <3>3, Steps, WindowAcks, ShellAcks, CallAcks, ReceiveAcks
  <2> QED BY <2>1, <2>2
<1> QED BY <1>1, <1>2, TypeCorrect, PTL DEF Spec

\* As long as no process is mute, every request is acknowledged exactly once, by
\* its own serial: by the shell (lines 657, 754) or by a hook in another process
\* (lines 502, 554).  But for those AckedOnce excepts.
THEOREM NoAckIsLost == Spec => []AckedOnce
<1>1. IInv /\ AckInv => AckedOnce
  <2>. SUFFICES ASSUME IInv, AckInv, muted = {}, NEW n \in DOMAIN requests
                PROVE  LET acks == Cardinality(Acks(n))
                       IN  \/ requests[n].kind = "STATE" /\ acts[requests[n].win] > 0
                           \/ requests[n].kind = "DESTROY" /\ acks = 0
                           \/ Gone(requests[n].win) /\ acks <= 1
                           \/ acks <= 1 /\ (n < serial \/ At(Shell, "idle") => acks = 1)
    BY DEF AckedOnce, Acks
  <2>1. Acks(n) = {} => Cardinality(Acks(n)) = 0
    BY FS_EmptySet
  <2>2. Once(n) => Cardinality(Acks(n)) = 1
    BY FS_Singleton DEF Once
  <2>3. Owed(n) /\ n \in Nat /\ serial \in Nat
    BY NumbersOK DEF AckInv, AllOwed
  <2>4. CASE n = serial /\ Pending
    BY <2>1, <2>3, <2>4 DEF Owed, Exempt, Pending
  <2>5. CASE Answered(n)
    BY <2>1, <2>2, <2>5 DEF Answered, Exempt
  <2> QED BY <2>3, <2>4, <2>5 DEF Owed
<1> QED BY <1>1, TypeCorrect, AcksAreOwed, PTL

-----------------------------------------------------------------------------
(* Echoes.                                                                 *)

\* A window that goes where it is told and does nothing by itself.
Calm(w) == w \in Windows \ Unruly /\ acts[w] = 0
Asked(w, kind) == \E n \in DOMAIN requests : requests[n].win = w /\ requests[n].kind = kind

\* The block for a move is where the window then is.
MoveIsBlocked ==
    /\ thread[Shell].pc \in {"moveSet", "moveWait", "moveCheck"}
          => shdata.move = [win |-> request.win, at |-> request.arg]
    /\ thread[Shell].pc \in {"moveWait", "moveCheck"} /\ Calm(request.win) /\ ~ Gone(request.win)
          => window[request.win].pos = request.arg
    /\ thread[Shell].pc \in Reports => ~ Calm(request.win)

\* So it has nothing to report unless its state has changed, or it closes.
CalmReports ==
    \A w \in Windows : Calm(w) =>
        /\ thread[w].pc \in Closes => Asked(w, "DESTROY")
        /\ thread[w].pc \in Reports =>
              \/ Asked(w, "STATE")
              \/ /\ thread[w].serving /\ At(Shell, "moveWait")
                 /\ At(w, "posReport") => thread[w].move = shdata.move

\* With no border around the windows the shell blocks what it then asks for, and a
\* window that is calm is found there.
LEMMA MoveIsBlockedInvariance ==
    ASSUME Border = 0, IInv, MoveIsBlocked, [Next]_vars
    PROVE  MoveIsBlocked'
<1>. DEFINE from == thread[Shell].pc
            to == thread'[Shell].pc
            there == window[request.win].pos = request.arg
            block == [win |-> request.win, at |-> request.arg]
            InMove == {"moveSet", "moveWait", "moveCheck"}
            After == {"moveWait", "moveCheck"}
<1>1. /\ from \in InMove => shdata.move = block
      /\ from \in After /\ Calm(request.win) /\ ~ Gone(request.win) => there
      /\ from \in Reports => ~ Calm(request.win)
  BY DEF MoveIsBlocked
<1>2. \A w \in Windows : /\ Calm(w)' => Calm(w)
                         /\ ~ Gone(w)' => ~ Gone(w)
  BY CalmIsOver DEF Calm
<1>3. from # "idle" => request.win \in Windows
  BY NumbersOK
<1>4. ASSUME requests' = requests,
             to \in InMove => shdata'.move = block,
             to \in After /\ Calm(request.win) /\ ~ Gone(request.win)
                => window'[request.win].pos = request.arg,
             to \in Reports => ~ Calm(request.win),
             to # "idle" => from # "idle"
      PROVE  MoveIsBlocked'
  <2>1. request' = request
    BY <1>4 DEF request, serial
  <2> QED BY <2>1, <1>2, <1>3, <1>4 DEF MoveIsBlocked, InMove, After, Reports
<1>5. request.arg \in Int => Target = request.arg
  BY DEF Target
<1>6. from # "idle" => request.arg \in Int
  BY RequestKinds DEF IInv, TypeOK, ShellServes
<1>7. CASE UNCHANGED vars
  BY <1>1, <1>4, <1>7 DEF vars
<1>8. ASSUME NEW w \in Windows, WindowStep(w) PROVE MoveIsBlocked'
  <2>1. /\ thread'[Shell] = thread[Shell] /\ requests' = requests /\ shdata' = shdata
        /\ \A v \in Windows \ {w} : window'[v] = window[v]
        /\ thread[w].pc # "idle" => window'[w].pos = window[w].pos
    BY <1>8, OthersWait, WindowChanges, ThreadsAssumption DEF Threads
  <2>2. thread[w].pc = "idle" => acts'[w] > 0
    <3>1. acts \in [Windows -> Nat]
      BY DEF IInv, TypeOK, DataOK
    <3>2. thread[w].pc = "idle" => acts' = [acts EXCEPT ![w] = @ + 1]
      BY <1>8, WindowGoesOn
    <3> QED BY <3>1, <3>2
  <2>3. request' = request
    BY <2>1 DEF request, serial
  <2>4. ASSUME thread[Shell].pc \in After, Calm(request.win)', ~ Gone(request.win)'
        PROVE  window'[request.win].pos = request.arg
    <3>1. request.win \in Windows
      BY <2>4, <1>3
    <3>2. there
      BY <2>3, <2>4, <3>1, <1>1, <1>2
    <3>3. request.win = w => thread[w].pc # "idle"
      BY <2>2, <2>3, <2>4 DEF Calm
    <3> QED BY <3>1, <3>2, <3>3, <2>1
  <2> QED BY <2>1, <2>3, <2>4, <1>1, <1>2, <1>3 DEF MoveIsBlocked, Reports
<1>9. ASSUME NEW r \in Requests, Receive(r) PROVE MoveIsBlocked'
  <2>1. thread'[Shell].pc = FirstLabel(r.kind)
    BY <1>9 DEF Receive, Goto, IInv, TypeOK, ThreadOK, Threads
  <2>2. r.kind \in {"POSITION", "STATE", "FOCUS", "DESTROY"}
    BY RequestKinds, BoundsAssumption DEF IInv, TypeOK
  <2> QED BY <2>1, <2>2 DEF FirstLabel, MoveIsBlocked, Reports
<1>10. CASE ShellCall
  <2>1. /\ <<from, to>> \in Waits /\ UNCHANGED <<shdata, requests>>
    BY <1>10, CallsAreOfTheWindow
  <2>2. from = "moveSet" /\ Calm(request.win) /\ ~ Gone(request.win)
           => window'[request.win].pos = request.arg
    BY <2>1, <1>5, <1>6, <1>10, CallsChange DEF Calm, Waits
  <2> QED BY <2>1, <2>2, <1>1, <1>4 DEF Waits, Reports
<1>11. CASE ShellStep
  <2>1. requests' = requests /\ window' = window
    BY <1>11, ShellGoesOn, WindowsWait
  <2>2. CASE Process
    BY <2>1, <2>2, <1>1, <1>4 DEF Process
  <2>3. CASE ~ Process
    <3>1. /\ <<from, to>> \in ShellGoes
          /\ from \notin {"moveBlock", "moveUnblock"} => shdata'.move = shdata.move
      BY <2>3, <1>11, ShellGoesOn
    <3>2. from = "moveBlock" => shdata'.move = block
      <4>1. ASSUME MoveBlock PROVE shdata'.move = block
        <5>1. shdata' = Blocked(request.arg)
          BY <4>1, <1>5, <1>6 DEF MoveBlock, At
        <5> QED BY <5>1 DEF Blocked, IInv, TypeOK, DataOK
      <4>2. from = "moveBlock" => MoveBlock
        BY <2>3, <1>11 DEF ShellStep, MoveAck, MoveCheck, MoveUnblock, PosRead, PosReport, StateCheck,
           StateUnblock, FocusBlock, FocusDone, CloseDone, At
      <4> QED BY <4>1, <4>2
    <3>3. from = "moveCheck" /\ to = "posRead" => ~ Calm(request.win)
      <4>1. ASSUME MoveCheck, to = "posRead"
            PROVE  ~ Gone(request.win) /\ window[request.win].pos # shdata.move.at
        <5>1. \A pc : Goto(Shell, pc) => to = pc
          BY DEF Goto, IInv, TypeOK, ThreadOK, Threads
        <5>2. CASE Goto(Shell, "moveUnblock")
          BY <4>1, <5>1, <5>2
        <5>3. CASE /\ ~ Gone(request.win)
                   /\ Goto(Shell, IF window[request.win].pos # shdata.move.at
                                  THEN "posRead" ELSE "moveUnblock")
          BY <4>1, <5>1, <5>3
        <5> QED BY <4>1, <5>2, <5>3 DEF MoveCheck
      <4>2. from = "moveCheck" => MoveCheck
        BY <2>3, <1>11 DEF ShellStep, MoveAck, MoveBlock, MoveUnblock, PosRead, PosReport, StateCheck,
           StateUnblock, FocusBlock, FocusDone, CloseDone, At
      <4>3. from = "moveCheck" => shdata.move.at = request.arg
        BY <1>1
      <4> QED BY <4>1, <4>2, <4>3, <1>1
    <3> QED BY <2>1, <3>1, <3>2, <3>3, <1>1, <1>4 DEF ShellGoes, Reports
  <2> QED BY <2>2, <2>3
<1> QED BY Steps, <1>7, <1>8, <1>9, <1>10, <1>11

\* A calm window reports a place only after a change of state, and closes only when
\* it is asked to; else it is in the shell's move, and finds it blocked.
LEMMA CalmReportsInvariance ==
    ASSUME IInv, OnlyServes, CalmReports, [Next]_vars
    PROVE  CalmReports'
<1>. DEFINE InMove(w, my, pc, block) == /\ my.serving /\ pc = "moveWait"
                                        /\ my.pc = "posReport" => my.move = block
            Excused(w, my, pc, block) ==
                /\ my.pc \in Closes => Asked(w, "DESTROY")
                /\ my.pc \in Reports => Asked(w, "STATE") \/ InMove(w, my, pc, block)
<1>1. \A w \in Windows : Calm(w) => Excused(w, thread[w], thread[Shell].pc, shdata.move)
  BY DEF CalmReports, At
<1>2. \A w \in Windows : Calm(w)' => Calm(w)
  BY CalmIsOver DEF Calm
<1>3. \A w, kind : Asked(w, kind) => Asked(w, kind)'
  BY CalmIsOver DEF Asked
<1>4. ASSUME \A w \in Windows :
                Calm(w)' => Excused(w, thread'[w], thread'[Shell].pc, shdata'.move)
      PROVE  CalmReports'
  BY <1>3, <1>4 DEF CalmReports, At
<1>5. Idle.pc = "idle"
  BY DEF Idle
<1>6. \A w \in Windows : thread[w].serving =>
         /\ request.win = w
         /\ thread[Shell].pc \in {"moveWait", "stateWait", "focusWait", "closeWait"}
         /\ thread[w].pc \in MinMaxes => thread[Shell].pc = "stateWait"
  BY DEF IInv, Serving, At, MinMaxes, Reports, Closes
<1>7. /\ thread[Shell].pc \in StateLabels => Asked(request.win, "STATE")
      /\ thread[Shell].pc \in CloseLabels => Asked(request.win, "DESTROY")
  BY NumbersOK DEF IInv, ShellServes, Asked, StateLabels, CloseLabels
<1>8. CASE UNCHANGED vars
  BY <1>1, <1>2, <1>4, <1>8 DEF vars
<1>9. ASSUME NEW w \in Windows, WindowStep(w) PROVE CalmReports'
  <2>1. /\ thread'[Shell] = thread[Shell] /\ shdata' = shdata
        /\ \A v \in Windows \ {w} : thread'[v] = thread[v]
    BY <1>9, OthersWait, ThreadsAssumption DEF Threads
  <2>2. Calm(w)' => thread[w].pc # "idle"
    <3>1. acts \in [Windows -> Nat]
      BY DEF IInv, TypeOK, DataOK
    <3>2. thread[w].pc = "idle" => acts' = [acts EXCEPT ![w] = @ + 1]
      BY <1>9, WindowGoesOn
    <3> QED BY <3>1, <3>2 DEF Calm
  <2>3. \/ thread'[w] = Idle
        \/ /\ <<thread[w].pc, thread'[w].pc>> \in Goes
           /\ thread'[w].serving = thread[w].serving
           /\ thread[w].pc = "posRead" => thread'[w].move = shdata.move
    BY <1>9, WindowGoesOn
  <2>4. Calm(w) /\ thread[w].pc \in MinMaxes => Asked(w, "STATE")
    BY <1>6, <1>7 DEF OnlyServes, Calm, StateLabels
  <2>5. Calm(w)' => Excused(w, thread'[w], thread'[Shell].pc, shdata'.move)
    <3>. SUFFICES ASSUME Calm(w)' PROVE Excused(w, thread'[w], thread'[Shell].pc, shdata'.move)
      OBVIOUS
    <3>0. Calm(w) /\ Excused(w, thread[w], thread[Shell].pc, shdata.move) /\ thread[w].pc # "idle"
      BY <1>1, <1>2, <2>2
    <3>1. CASE thread'[w] = Idle
      BY <3>1, <1>5 DEF Closes, Reports
    <3>2. CASE thread[w].pc \in MinMaxes
      BY <3>0, <3>2, <2>3, <2>4, <1>5 DEF Goes, MinMaxes, Closes, Reports
    <3>3. CASE thread[w].pc \in Closes
      BY <3>0, <3>3, <2>3, <1>5 DEF Goes, Closes, Reports
    <3>4. CASE thread[w].pc \in Reports
      BY <3>0, <3>4, <2>1, <2>3, <1>5 DEF Goes, Closes, Reports
    <3> QED BY <3>0, <3>1, <3>2, <3>3, <3>4, <2>3 DEF Goes, MinMaxes, Closes, Reports
  <2>. HIDE DEF Excused
  <2> QED BY <2>1, <2>5, <1>1, <1>2, <1>4
\* When the shell goes on, no window is in a move of its.
<1>10. ASSUME \A w \in Windows : ~ thread[w].serving \/ thread[Shell].pc # "moveWait",
              NEW v, \A w \in Windows \ {v} : thread'[w] = thread[w],
              v \in Windows /\ Calm(v) => Excused(v, thread'[v], thread'[Shell].pc, shdata'.move)
       PROVE  CalmReports'
  <2>1. \A w \in Windows \ {v} : Calm(w) => Excused(w, thread'[w], thread'[Shell].pc, shdata'.move)
    BY <1>1, <1>10
  <2>. HIDE DEF Excused
  <2> QED BY <2>1, <1>2, <1>4, <1>10
<1>11. ASSUME NEW r \in Requests, Receive(r) PROVE CalmReports'
  <2>1. thread[Shell].pc = "idle" /\ \A w \in Windows : thread'[w] = thread[w]
    BY <1>11, WindowsWait DEF Receive, At
  <2> QED BY <2>1, <1>10, ThreadsAssumption
<1>12. CASE ShellCall
  <2>. DEFINE w == request.win
  <2>1. /\ \A t \in Windows \ {w} : thread'[t] = thread[t]
        /\ UNCHANGED shdata
        /\ <<thread[Shell].pc, thread'[Shell].pc>> \in Waits
        /\ w \in Windows /\ thread[w].pc = "idle"
        /\ \/ thread'[w] = thread[w]
           \/ thread'[w] = Idle
           \/ <<thread[Shell].pc, thread'[w].pc>> \in CallsOut /\ thread'[w].serving
    BY <1>12, CallsAreOfTheWindow DEF At
  <2>2. Excused(w, thread'[w], thread'[Shell].pc, shdata'.move)
    <3>1. CASE thread'[w] = thread[w] \/ thread'[w] = Idle
      BY <3>1, <2>1, <1>5 DEF Closes, Reports
    <3>2. CASE <<thread[Shell].pc, thread'[w].pc>> \in CallsOut /\ thread'[w].serving
      BY <3>2, <2>1, <1>7 DEF CallsOut, Waits, CloseLabels, Closes, Reports
    <3> QED BY <3>1, <3>2, <2>1
  <2>3. thread[Shell].pc # "moveWait"
    BY <2>1 DEF Waits
  <2>. HIDE DEF Excused
  <2> QED BY <2>1, <2>2, <2>3, <1>10
<1>13. CASE ShellStep
  <2>1. \A w \in Windows : thread'[w] = thread[w]
    BY <1>13, WindowsWait
  <2>2. CASE Process
    BY <2>2, <1>1, <1>2, <1>4 DEF Process
  <2>3. CASE ~ Process
    <3>1. thread[Shell].pc = "moveWait" => ~ thread[request.win].serving
      BY <2>3, <1>13, ShellGoesOn
    <3> QED BY <2>1, <3>1, <1>6, <1>10, ThreadsAssumption
  <2> QED BY <2>2, <2>3
<1> QED BY Steps, <1>8, <1>9, <1>11, <1>12, <1>13

\* What is written about a calm window is excused.
ExcusedMessage(m) ==
    \A w \in Windows \ Unruly :
        m.kind # "ACK" /\ m.win = w /\ acts[w] = 0 =>
            \E n \in DOMAIN requests :
                /\ requests[n].win = w
                /\ <<m.kind, requests[n].kind>> \in
                       {<<"POSITION", "STATE">>, <<"DESTROY", "DESTROY">>}

LEMMA ReportsAreExcused ==
    ASSUME Border = 0, IInv, OnlyServes, MoveIsBlocked, CalmReports
    PROVE  /\ \A w \in Windows : \A m : Reported(w, m) => ExcusedMessage(m)
           /\ thread[Shell].pc = "posReport" => ExcusedMessage(Position(request.win))
           /\ ExcusedMessage(Debug) /\ ExcusedMessage(Ack(serial))
<1>1. \A n : ExcusedMessage(Ack(n))
  BY DEF ExcusedMessage, Ack
<1>2. ExcusedMessage(Debug) /\ ExcusedMessage(Create)
  BY ThreadsAssumption DEF ExcusedMessage, Debug, Create
<1>3. ASSUME NEW w \in Windows, ~ Calm(w)
      PROVE  ExcusedMessage(Position(w)) /\ \A s : ExcusedMessage(State(w, s))
  BY <1>3 DEF ExcusedMessage, Position, State, Calm
<1>4. ASSUME NEW w \in Windows, Asked(w, "STATE") PROVE ExcusedMessage(Position(w))
  BY <1>4 DEF ExcusedMessage, Position, Asked
<1>5. ASSUME NEW w \in Windows, ~ Calm(w) \/ Asked(w, "DESTROY") PROVE ExcusedMessage(Destroy(w))
  BY <1>5 DEF ExcusedMessage, Destroy, Asked, Calm
<1>6. ASSUME NEW w \in Windows, Calm(w), At(w, "posReport"), ~ Gone(w), ~ IsBlocked(w, w)
      PROVE  Asked(w, "STATE")
  <2>1. SUFFICES ASSUME thread[w].serving, At(Shell, "moveWait"), thread[w].move = shdata.move
                 PROVE  FALSE
    BY <1>6 DEF CalmReports, Reports, At
  <2>2. request.win = w
    BY <2>1 DEF IInv, Serving
  <2>3. thread[w].move = [win |-> w, at |-> window[w].pos]
    BY <1>6, <2>1, <2>2 DEF MoveIsBlocked, At
  <2>4. window[w].pos \in Int
    BY DEF IInv, TypeOK, DataOK
  <2>5. Frame(window[w].pos) = window[w].pos
    BY <2>4 DEF Frame
  <2> QED BY <1>6, <2>3, <2>5 DEF IsBlocked
<1>7. ASSUME NEW w \in Windows, At(w, "minmaxWrite"), Calm(w)
      PROVE  thread[w].state.win = w /\ thread[w].state.state = thread[w].want
  <2>1. thread[w].serving /\ thread[w].want = request.arg /\ thread[w].state = shdata.state
    BY <1>7 DEF OnlyServes, Calm, At, MinMaxes
  <2>2. request.win = w /\ At(Shell, "stateWait")
    BY <2>1, <1>7 DEF IInv, Serving, At, Reports, Closes
  <2>3. shdata.state = [win |-> request.win, state |-> request.arg, serial |-> serial]
    BY <2>2 DEF IInv, Blocks
  <2> QED BY <2>1, <2>2, <2>3
<1>8. ASSUME NEW w \in Windows, NEW m, Reported(w, m) PROVE ExcusedMessage(m)
  <2>1. CASE At(w, "posReport") /\ m = Position(w) /\ ~ Gone(w) /\ ~ IsBlocked(w, w)
    BY <2>1, <1>3, <1>4, <1>6
  <2>2. CASE At(w, "minmaxWrite")
    BY <2>2, <1>1, <1>2, <1>3, <1>7, <1>8 DEF Reported, At
  <2>3. CASE At(w, "closeWrite") /\ m = Destroy(w)
    BY <2>3, <1>5 DEF CalmReports, Closes, At
  <2> QED BY <2>1, <2>2, <2>3, <1>1, <1>2, <1>8 DEF Reported
<1>9. thread[Shell].pc = "posReport" => ExcusedMessage(Position(request.win))
  BY <1>3, NumbersOK DEF MoveIsBlocked, Reports
<1> QED BY <1>1, <1>2, <1>8, <1>9

\* Where windows have no invisible border, what the client has asked for is not
\* reported back to it as the user's doing (lines 176, 502 of hookdll.c).  With a
\* border it is: EchoOfMove.cfg.
THEOREM NoEcho == ASSUME Border = 0 PROVE Spec => []EchoIsBlocked
<1>. DEFINE EInv == OnlyServes /\ MoveIsBlocked /\ CalmReports /\ EchoIsBlocked
<1>1. Init => EInv
  <2>. SUFFICES ASSUME Init PROVE EInv
    OBVIOUS
  <2>1. \A t \in Threads : thread[t].pc = "idle"
    BY DEF Init, Idle
  <2>2. OnlyServes /\ MoveIsBlocked /\ CalmReports
    BY <2>1 DEF OnlyServes, MoveIsBlocked, CalmReports, MinMaxes, Closes, Reports, At, Threads
  <2>3. log = <<>>
    BY DEF Init
  <2>4. EchoIsBlocked
    BY <2>3 DEF EchoIsBlocked
  <2> QED BY <2>2, <2>4
<1>2. IInv /\ EInv /\ [Next]_vars => EInv'
  <2>. SUFFICES ASSUME IInv, EInv, [Next]_vars PROVE EInv'
    OBVIOUS
  <2>1. OnlyServes' /\ MoveIsBlocked' /\ CalmReports'
    BY OnlyServesInvariance, MoveIsBlockedInvariance, CalmReportsInvariance
  <2>2. \A i \in DOMAIN log : ExcusedMessage(log[i])
    BY DEF EchoIsBlocked, ExcusedMessage
  <2>3. \A m : ExcusedMessage(m) => ExcusedMessage(m)'
    BY CalmIsOver DEF ExcusedMessage
  <2>4. log \in Seq(Messages)
    BY DEF IInv, TypeOK, LogOK
  <2>5. \/ log' = log
        \/ \E m : ExcusedMessage(m) /\ log' = Append(log, m)
    <3>1. ASSUME UNCHANGED vars \/ ShellCall \/ \E r \in Requests : Receive(r) PROVE log' = log
      BY <3>1, CallsAreOfTheWindow DEF vars, channelVars, Receive
    <3>2. ASSUME ShellStep PROVE log' = log \/ \E m : ExcusedMessage(m) /\ log' = Append(log, m)
      BY <3>2, ShellWrites, ReportsAreExcused DEF Written
    <3>3. ASSUME NEW w \in Windows, WindowStep(w)
          PROVE  log' = log \/ \E m : ExcusedMessage(m) /\ log' = Append(log, m)
      BY <3>3, WindowWrites, ReportsAreExcused DEF Written
    <3> QED BY <3>1, <3>2, <3>3, Steps
  <2>6. \A i \in DOMAIN log' : \A m : m = log'[i] => ExcusedMessage(m)'
    <3>1. CASE log' = log
      BY <3>1, <2>2, <2>3
    <3>2. ASSUME NEW m, ExcusedMessage(m), log' = Append(log, m)
          PROVE  \A i \in DOMAIN log' : \A k : k = log'[i] => ExcusedMessage(k)'
      <4>1. /\ DOMAIN log' = 1 .. Len(log) + 1 /\ DOMAIN log = 1 .. Len(log) /\ Len(log) \in Nat
            /\ \A i \in DOMAIN log : log'[i] = log[i]
            /\ log'[Len(log) + 1] = m
        BY <2>4, <3>2, AppendProperties
      <4>2. \A i \in DOMAIN log' : i \in DOMAIN log \/ i = Len(log) + 1
        BY <4>1
      <4> QED BY <4>1, <4>2, <3>2, <2>2, <2>3
    <3> QED BY <3>1, <3>2, <2>5
  <2>7. EchoIsBlocked'
    BY <2>6 DEF EchoIsBlocked, ExcusedMessage
  <2> QED BY <2>1, <2>7
<1> QED BY <1>1, <1>2, TypeCorrect, PTL DEF Spec

-----------------------------------------------------------------------------
(* Where the client takes a window to be.                                  *)

\* Numbers have a least one, and if they are bounded a greatest.
LEMMA LeastNumber ==
    ASSUME NEW S \in SUBSET Nat, S # {}
    PROVE  \E x \in S : \A y \in S : x <= y
<1>1. PICK x \in S : \A y \in S : ~ (<<y, x>> \in OpToRel(<, Nat))
  BY NatLessThanWellFounded, WFMin
<1>2. \A y \in S : ~ (y < x)
  BY <1>1 DEF OpToRel
<1> QED BY <1>2

LEMMA GreatestNumber ==
    ASSUME NEW n \in Nat, NEW S \in SUBSET (1 .. n), S # {}
    PROVE  \E x \in S : \A y \in S : y <= x
<1>. DEFINE T == {n - x : x \in S}
<1>0. T \subseteq Nat /\ T # {}
  <2>1. \A x \in S : n - x \in Nat
    OBVIOUS
  <2> QED BY <2>1
<1>1. PICK t \in T : \A u \in T : t <= u
  <2>. HIDE DEF T
  <2> QED BY <1>0, LeastNumber
<1>2. PICK x \in S : t = n - x
  OBVIOUS
<1>3. ASSUME NEW y \in S PROVE y <= x
  <2>1. n - y \in T
    OBVIOUS
  <2>2. n - x <= n - y
    BY <1>1, <1>2, <2>1
  <2>3. x \in Int /\ y \in Int
    OBVIOUS
  <2> QED BY <2>2, <2>3
<1> QED BY <1>3


\* A message of those about positions, given the requests rs; what a sequence l of
\* messages says of w's position in the end.
About(m, rs, w) ==
    \/ m.kind = "POSITION" /\ m.win = w
    \/ m.kind = "ACK" /\ m.serial # 0 /\ rs[m.serial].kind = "POSITION" /\ rs[m.serial].win = w
Place(m, rs) == IF m.kind = "ACK" THEN rs[m.serial].arg ELSE m.arg
InTheEnd(l, rs, w, b) ==
    LET n == SelectLastInSeq(l, LAMBDA m : About(m, rs, w))
    IN  IF n = 0 THEN b ELSE Place(l[n], rs)

LEMMA ToldIs ==
    ASSUME NEW l, NEW rs, NEW w, NEW b, NEW T, l \in Seq(T)
    PROVE  /\ (\A i \in DOMAIN l : ~ About(l[i], rs, w)) => InTheEnd(l, rs, w, b) = b
           /\ \A n \in DOMAIN l :
                 About(l[n], rs, w) /\ (\A i \in DOMAIN l : About(l[i], rs, w) => i <= n)
                    => InTheEnd(l, rs, w, b) = Place(l[n], rs)
<1>. DEFINE I == {i \in 1 .. Len(l) : About(l[i], rs, w)}
            last == IF I # {} THEN Max(I) ELSE 0
<1>1. DOMAIN l = 1 .. Len(l) /\ Len(l) \in Nat
  OBVIOUS
<1>2. InTheEnd(l, rs, w, b) = IF last = 0 THEN b ELSE Place(l[last], rs)
  BY DEF InTheEnd, SelectLastInSeq
<1>3. ASSUME NEW n \in DOMAIN l, About(l[n], rs, w),
             \A i \in DOMAIN l : About(l[i], rs, w) => i <= n
      PROVE  last = n
  <2>1. n \in I /\ \A i \in I : n >= i
    BY <1>1, <1>3
  <2>2. \A m \in I : (\A i \in I : m >= i) => m = n
    BY <2>1, <1>1
  <2>3. Max(I) = n
    BY <2>1, <2>2 DEF Max
  <2> QED BY <2>1, <2>3
<1>4. (\A i \in DOMAIN l : ~ About(l[i], rs, w)) => last = 0
  BY <1>1
<1>. HIDE DEF last
<1> QED BY <1>1, <1>2, <1>3, <1>4

\* A message that does not tell of w's position leaves what was told of it, and one
\* that does is what is told.
LEMMA ToldThen ==
    ASSUME NEW l, NEW rs, NEW w, NEW b, NEW T, l \in Seq(T), NEW m \in T
    PROVE  InTheEnd(Append(l, m), rs, w, b) =
               IF About(m, rs, w) THEN Place(m, rs) ELSE InTheEnd(l, rs, w, b)
<1>. DEFINE k == Append(l, m)
            I == {i \in DOMAIN l : About(l[i], rs, w)}
<1>1. /\ DOMAIN l = 1 .. Len(l) /\ Len(l) \in Nat /\ k \in Seq(T)
      /\ DOMAIN k = 1 .. Len(l) + 1 /\ k[Len(l) + 1] = m
      /\ \A i \in DOMAIN l : k[i] = l[i]
  BY AppendProperties
<1>. HIDE DEF k
<1>2. CASE About(m, rs, w)
  <2>1. \A i \in DOMAIN k : i <= Len(l) + 1
    BY <1>1
  <2>2. InTheEnd(k, rs, w, b) = Place(k[Len(l) + 1], rs)
    BY <2>1, <1>1, <1>2, ToldIs
  <2> QED BY <2>2, <1>1, <1>2 DEF k
<1>3. CASE ~ About(m, rs, w) /\ I = {}
  <2>1. \A i \in DOMAIN k : ~ About(k[i], rs, w)
    BY <1>1, <1>3
  <2>2. InTheEnd(k, rs, w, b) = b /\ InTheEnd(l, rs, w, b) = b
    BY <2>1, <1>1, <1>3, ToldIs
  <2> QED BY <2>2, <1>3 DEF k
<1>4. CASE ~ About(m, rs, w) /\ I # {}
  <2>1. PICK n \in I : \A i \in I : i <= n
    BY <1>1, <1>4, GreatestNumber
  <2>2. /\ n \in DOMAIN l /\ About(l[n], rs, w)
        /\ \A i \in DOMAIN l : About(l[i], rs, w) => i <= n
    BY <2>1
  <2>3. InTheEnd(l, rs, w, b) = Place(l[n], rs)
    BY <2>2, ToldIs
  <2>4. /\ n \in DOMAIN k /\ About(k[n], rs, w)
        /\ \A i \in DOMAIN k : About(k[i], rs, w) => i <= n
    BY <2>2, <1>1, <1>4
  <2>5. InTheEnd(k, rs, w, b) = Place(k[n], rs)
    BY <2>4, <1>1, ToldIs
  <2> QED BY <2>3, <2>5, <2>2, <1>1, <1>4 DEF k
<1> QED BY <1>2, <1>3, <1>4

\* A request more changes nothing of what acknowledgements of earlier ones say.
LEMMA ToldStays ==
    ASSUME NEW l, NEW rs, NEW qs, NEW w, NEW b, NEW T, l \in Seq(T),
           \A i \in DOMAIN l : l[i].kind = "ACK" /\ l[i].serial # 0
               => rs[l[i].serial] = qs[l[i].serial]
    PROVE  InTheEnd(l, rs, w, b) = InTheEnd(l, qs, w, b)
<1>. DEFINE I == {i \in DOMAIN l : About(l[i], rs, w)}
<1>1. \A i \in DOMAIN l : /\ About(l[i], rs, w) <=> About(l[i], qs, w)
                          /\ About(l[i], rs, w) => Place(l[i], rs) = Place(l[i], qs)
  BY DEF About, Place
<1>2. CASE I = {}
  BY <1>1, <1>2, ToldIs
<1>3. CASE I # {}
  <2>1. DOMAIN l = 1 .. Len(l) /\ Len(l) \in Nat
    OBVIOUS
  <2>2. PICK n \in I : \A i \in I : i <= n
    BY <2>1, <1>3, GreatestNumber
  <2>3. InTheEnd(l, rs, w, b) = Place(l[n], rs) /\ InTheEnd(l, qs, w, b) = Place(l[n], qs)
    BY <2>2, <1>1, ToldIs
  <2> QED BY <2>2, <2>3, <1>1
<1> QED BY <1>2, <1>3

\* That is where the client takes a window to be.
KnownAt(w) == Told("POSITION", w, Frame(Start))

LEMMA KnownIsTold ==
    ASSUME NEW w
    PROVE  /\ KnownAt(w) = InTheEnd(log, requests, w, Start + Border)
           /\ KnownAt(w)' = InTheEnd(log', requests', w, Start + Border)
BY DEF KnownAt, Told, InTheEnd, IsAbout, About, Place, SelectLastInSeq, Frame

\* The hooks tell of their window's position in update_position, and unless it is
\* blocked.
LEMMA WindowTells ==
    ASSUME IInv, NEW w \in Windows, WindowStep(w), muted' = {}, NEW v \in Windows
    PROVE  \/ /\ KnownAt(v)' = KnownAt(v)
              /\ v = w /\ At(w, "posReport") => Gone(w) \/ IsBlocked(w, w)
           \/ v = w /\ At(w, "posReport") /\ KnownAt(v)' = Frame(window[w].pos)
<1>. DEFINE b == Start + Border
<1>1. KnownAt(v) = InTheEnd(log, requests, v, b) /\ KnownAt(v)' = InTheEnd(log', requests', v, b)
  BY KnownIsTold
<1>2. requests' = requests /\ log \in Seq(Messages)
  BY OthersWait DEF IInv, TypeOK, LogOK
<1>. HIDE DEF b
<1>3. CASE log' = log
  BY <1>1, <1>2, <1>3, WindowWrites, AppendProperties DEF Reported, Written
<1>4. ASSUME NEW m, Reported(w, m), log' = Append(log, m)
      PROVE  \/ m \in Messages /\ ~ About(m, requests, v) /\ ~ At(w, "posReport")
             \/ m = Position(w)/\ At(w, "posReport")
  <2>1. CASE At(w, "posReport")
    BY <1>4, <2>1 DEF Reported, At
  <2>2. CASE At(w, "minmaxWrite")
    <3>. DEFINE my == thread[w]
    <3>1. my.state.serial \in Nat /\ my.want \in States /\ OfRequest(my.state)
      BY DEF IInv, TypeOK, ThreadOK, Locals, StateBlocks, Threads, StateBlocksOK
    <3>0. CASE m = Debug
      BY <3>0, <2>2, MessageKinds DEF IInv, TypeOK, Debug, About, At
    <3>2. CASE my.state.win = w /\ my.state.state = my.want /\ m # Debug
      <4>1. m = Ack(my.state.serial)
        BY <1>4, <2>2, <3>2 DEF Reported, At
      <4>2. requests[my.state.serial].kind = "STATE"
        BY <3>1, <3>2, ThreadsAssumption DEF OfRequest
      <4>3. m \in Messages /\ m.kind = "ACK" /\ m.serial = my.state.serial
        BY <4>1, <3>1, MessageKinds DEF IInv, TypeOK, Ack
      <4> QED BY <4>2, <4>3, <2>2 DEF About, At
    <3>3. CASE m = State(w, my.want)
      BY <3>1, <3>3, <2>2, MessageKinds DEF IInv, TypeOK, State, About, At
    <3> QED BY <1>4, <2>2, <3>0, <3>2, <3>3 DEF Reported, At
  <2>3. CASE At(w, "focusAck")
    <3>1. m = Ack(shdata.focus) /\ shdata.focus = serial /\ request.kind = "FOCUS"
      <4>1. At(Shell, "focusWait")
        BY <2>3 DEF IInv, Serving, At, Reports, MinMaxes, Closes
      <4> QED BY <1>4, <2>3, <4>1 DEF Reported, At, IInv, Blocks, ShellServes, FocusLabels
    <3>2. m \in Messages /\ m.kind = "ACK" /\ m.serial = serial
      BY <3>1, MessageKinds, NumbersOK DEF IInv, TypeOK, Ack
    <3> QED BY <3>1, <3>2, <2>3 DEF About, At, request
  <2>4. CASE At(w, "closeWrite") \/ At(w, "ask")
    BY <1>4, <2>4, MessageKinds DEF Reported, At, Destroy, Create, About, IInv, TypeOK
  <2> QED BY <1>4, <2>1, <2>2, <2>3, <2>4 DEF Reported
<1>5. ASSUME NEW m, Reported(w, m), log' = Append(log, m)
      PROVE  \/ KnownAt(v)' = KnownAt(v) /\ ~ (v = w /\ At(w, "posReport"))
             \/ v = w /\ At(w, "posReport") /\ KnownAt(v)' = Frame(window[w].pos)
  <2>1. CASE m \in Messages /\ ~ About(m, requests, v) /\ ~ At(w, "posReport")
    BY <2>1, <1>1, <1>2, <1>5, ToldThen
  <2>2. CASE m = Position(w) /\ At(w, "posReport")
    <3>1. /\ m \in Messages /\ (About(m, requests, v) <=> v = w)
          /\ Place(m, requests) = Frame(window[w].pos)
      BY <2>2, MessageKinds DEF IInv, TypeOK, Position, About, Place
    <3> QED BY <2>2, <3>1, <1>1, <1>2, <1>5, ToldThen
  <2> QED BY <1>4, <1>5, <2>1, <2>2
<1> QED BY <1>3, <1>5, WindowWrites DEF Written

\* The shell does when it acknowledges a move, and when the window went elsewhere.
LEMMA ShellTells ==
    ASSUME IInv, ShellStep, muted' = {}, NEW v \in Windows
    PROVE  LET from == thread[Shell].pc
               w == request.win IN
           \/ /\ KnownAt(v)' = KnownAt(v)
              /\ v = w => /\ from # "moveWait"
                          /\ from = "posReport" => Gone(w) \/ IsBlocked(Shell, w)
           \/ v = w /\ from = "moveWait" /\ KnownAt(v)' = request.arg
           \/ v = w /\ from = "posReport" /\ KnownAt(v)' = Frame(window[w].pos)
<1>. DEFINE b == Start + Border
            w == request.win
            from == thread[Shell].pc
<1>1. KnownAt(v) = InTheEnd(log, requests, v, b) /\ KnownAt(v)' = InTheEnd(log', requests', v, b)
  BY KnownIsTold
<1>2. requests' = requests /\ log \in Seq(Messages)
  BY ShellGoesOn DEF IInv, TypeOK, LogOK
<1>3. from # "idle" => /\ serial \in Nat /\ serial # 0 /\ request = requests[serial]
                       /\ w \in Windows
  <2>1. from # "idle" => serial \in DOMAIN requests
    BY NumbersOK
  <2>2. requests \in Seq(Requests)
    BY DEF IInv, TypeOK, LogOK
  <2> QED BY <2>1, <2>2, NumbersOK DEF serial
<1>. HIDE DEF b
<1>4. CASE /\ log' = log /\ from # "moveWait"
           /\ from = "posReport" => Gone(w) \/ IsBlocked(Shell, w)
  BY <1>1, <1>2, <1>4
<1>5. CASE Written(Debug) /\ from \in {"moveBlock", "moveCheck"}
  <2>1. Debug \in Messages /\ ~ About(Debug, requests, v)
    BY MessageKinds DEF IInv, TypeOK, Debug, About
  <2>2. log' = Append(log, Debug)
    BY <1>5 DEF Written
  <2>3. KnownAt(v)' = KnownAt(v)
    BY <2>1, <2>2, <1>1, <1>2, ToldThen
  <2> QED BY <2>3, <1>5
<1>6. CASE Written(Position(w)) /\ from = "posReport"
  <2>. DEFINE m == Position(w)
  <2>1. /\ m \in Messages /\ (About(m, requests, v) <=> v = w)
        /\ Place(m, requests) = Frame(window[w].pos)
    BY <1>3, <1>6, MessageKinds DEF IInv, TypeOK, Position, About, Place
  <2>2. log' = Append(log, m)
    BY <1>6 DEF Written
  <2>. HIDE DEF m
  <2> QED BY <2>1, <2>2, <1>1, <1>2, <1>6, ToldThen
<1>7. ASSUME Written(Ack(serial)), from = "moveWait" \/ from = "stateCheck"
      PROVE  IF from = "moveWait" /\ v = w THEN KnownAt(v)' = request.arg ELSE KnownAt(v)' = KnownAt(v)
  <2>. DEFINE m == Ack(serial)
  <2>1. IF from = "moveWait" THEN request.kind = "POSITION" ELSE request.kind = "STATE"
    BY <1>7 DEF IInv, ShellServes, MoveLabels, StateLabels
  <2>2. /\ m \in Messages /\ (About(m, requests, v) <=> from = "moveWait" /\ v = w)
        /\ Place(m, requests) = request.arg
    BY <1>3, <1>7, <2>1, MessageKinds DEF IInv, TypeOK, Ack, About, Place
  <2>3. log' = Append(log, m)
    BY <1>7 DEF Written
  <2>. HIDE DEF m
  <2> QED BY <2>2, <2>3, <1>1, <1>2, ToldThen
<1> QED BY <1>4, <1>5, <1>6, <1>7, ShellWrites

\* The block for a move is there as long as the move, and so are the copies of it
\* that are made while the window is moved and when the shell reports itself.
BlockIsOfMove ==
    /\ thread[Shell].pc \in MoveLabels \ {"moveBlock"}
          => shdata.move = [win |-> request.win, at |-> request.arg]
    /\ thread[Shell].pc \notin MoveLabels \ {"moveBlock"} => shdata.move.win = NoWindow
    /\ At(Shell, "posReport") => thread[Shell].move = shdata.move
    /\ \A w \in Windows : At(Shell, "moveWait") /\ request.win = w /\ At(w, "posReport")
          => thread[w].move = shdata.move

LEMMA BlockIsOfMoveInvariance ==
    ASSUME Border = 0, IInv, BlockIsOfMove, [Next]_vars
    PROVE  BlockIsOfMove'
<1>. DEFINE from == thread[Shell].pc
            to == thread'[Shell].pc
            block == [win |-> request.win, at |-> request.arg]
            InMove == MoveLabels \ {"moveBlock"}
<1>1. /\ from \in InMove => shdata.move = block
      /\ from \notin InMove => shdata.move.win = NoWindow
      /\ from = "posReport" => thread[Shell].move = shdata.move
      /\ \A w \in Windows : from = "moveWait" /\ request.win = w /\ thread[w].pc = "posReport"
            => thread[w].move = shdata.move
  BY DEF BlockIsOfMove, At
<1>2. from # "idle" => request.win \in Windows /\ request.arg \in Int
  BY NumbersOK, RequestKinds DEF IInv, TypeOK, ShellServes
<1>3. ASSUME requests' = requests,
             to \in InMove => shdata'.move = block,
             to \notin InMove => shdata'.move.win = NoWindow,
             to = "posReport" => thread'[Shell].move = shdata'.move,
             \A w \in Windows : to = "moveWait" /\ request.win = w /\ thread'[w].pc = "posReport"
                => thread'[w].move = shdata'.move
      PROVE  BlockIsOfMove'
  <2>1. request' = request
    BY <1>3 DEF request, serial
  <2> QED BY <2>1, <1>3 DEF BlockIsOfMove, At
<1>4. CASE UNCHANGED vars
  BY <1>1, <1>3, <1>4 DEF vars
<1>5. ASSUME NEW w \in Windows, WindowStep(w) PROVE BlockIsOfMove'
  <2>1. /\ thread'[Shell] = thread[Shell] /\ requests' = requests /\ shdata' = shdata
        /\ \A v \in Windows \ {w} : thread'[v] = thread[v]
    BY <1>5, OthersWait, ThreadsAssumption DEF Threads
  <2>2. thread'[w].pc = "posReport" => thread'[w].move = shdata.move
    BY <1>5, WindowGoesOn DEF Goes, Idle
  <2> QED BY <2>1, <2>2, <1>1, <1>3
<1>6. ASSUME NEW r \in Requests, Receive(r) PROVE BlockIsOfMove'
  <2>1. to = FirstLabel(r.kind) /\ from = "idle" /\ shdata' = shdata
    BY <1>6 DEF Receive, Goto, At, IInv, TypeOK, ThreadOK, Threads
  <2>2. r.kind \in {"POSITION", "STATE", "FOCUS", "DESTROY"}
    BY RequestKinds, BoundsAssumption DEF IInv, TypeOK
  <2>3. to \in {"moveBlock", "stateCheck", "focusBlock", "closeSend"}
    BY <2>1, <2>2 DEF FirstLabel
  <2>4. shdata'.move.win = NoWindow
    BY <2>1, <1>1 DEF MoveLabels
  <2> QED BY <2>3, <2>4 DEF BlockIsOfMove, At, MoveLabels
<1>7. CASE ShellCall
  <2>1. /\ <<from, to>> \in Waits /\ UNCHANGED <<shdata, requests>>
        /\ \A t \in Windows \ {request.win} : thread'[t] = thread[t]
        /\ thread[request.win].pc = "idle"
        /\ thread'[request.win].pc # "posReport"
    BY <1>7, CallsAreOfTheWindow DEF At, CallsOut, Idle
  <2> QED BY <2>1, <1>1, <1>3 DEF Waits, MoveLabels
<1>8. CASE ShellStep
  <2>1. requests' = requests /\ \A w \in Windows : thread'[w] = thread[w]
    BY <1>8, ShellGoesOn, WindowsWait
  <2>2. CASE Process
    BY <2>1, <2>2, <1>1, <1>3 DEF Process
  <2>3. CASE ~ Process
    <3>1. /\ <<from, to>> \in ShellGoes
          /\ from \notin {"moveBlock", "moveUnblock"} => shdata'.move = shdata.move
      BY <2>3, <1>8, ShellGoesOn
    <3>2. from = "moveBlock" => shdata'.move = block
      <4>1. ASSUME MoveBlock PROVE shdata'.move = block
        <5>1. Target = request.arg
          BY <4>1, <1>2 DEF MoveBlock, At, Target
        <5>2. shdata' = Blocked(request.arg)
          BY <4>1, <5>1 DEF MoveBlock
        <5> QED BY <5>2 DEF Blocked, IInv, TypeOK, DataOK
      <4>2. from = "moveBlock" => MoveBlock
        BY <2>3, <1>8 DEF ShellStep, MoveAck, MoveCheck, MoveUnblock, PosRead, PosReport, StateCheck,
           StateUnblock, FocusBlock, FocusDone, CloseDone, At
      <4> QED BY <4>1, <4>2
    <3>3. from = "moveUnblock" => shdata'.move.win = NoWindow
      <4>1. ASSUME MoveUnblock PROVE shdata'.move.win = NoWindow
        BY <4>1 DEF MoveUnblock, NoMove, IInv, TypeOK, DataOK
      <4>2. from = "moveUnblock" => MoveUnblock
        BY <2>3, <1>8 DEF ShellStep, MoveAck, MoveCheck, MoveBlock, PosRead, PosReport, StateCheck,
           StateUnblock, FocusBlock, FocusDone, CloseDone, At
      <4> QED BY <4>1, <4>2
    <3>4. to = "posReport" => thread'[Shell].move = shdata'.move
      <4>1. ASSUME PosRead(Shell) PROVE thread'[Shell].move = shdata'.move
        BY <4>1 DEF PosRead, IInv, TypeOK, ThreadOK, Threads, Locals
      <4>2. to = "posReport" => from = "posRead"
        BY <3>1 DEF ShellGoes
      <4>3. from = "posRead" => PosRead(Shell)
        BY <2>3, <1>8 DEF ShellStep, MoveAck, MoveCheck, MoveBlock, MoveUnblock, PosReport, StateCheck,
           StateUnblock, FocusBlock, FocusDone, CloseDone, At
      <4> QED BY <4>1, <4>2, <4>3
    <3>5. to # "moveWait"
      BY <3>1 DEF ShellGoes
    <3>6. CASE from \in InMove /\ from # "moveUnblock"
      BY <3>1, <3>4, <3>5, <3>6, <2>1, <1>1, <1>3 DEF ShellGoes, MoveLabels
    <3>7. CASE from \in {"moveBlock", "moveUnblock"}
      BY <3>1, <3>2, <3>3, <3>4, <3>5, <3>7, <2>1, <1>3 DEF ShellGoes, MoveLabels
    <3>8. CASE from \notin MoveLabels
      BY <3>1, <3>8, <2>1, <1>1, <1>3 DEF ShellGoes, MoveLabels
    <3> QED BY <3>6, <3>7, <3>8
  <2> QED BY <2>2, <2>3
<1> QED BY Steps, <1>4, <1>5, <1>6, <1>7, <1>8

\* A window that moves by itself reports it, if it is not minimised, and so does one
\* that is restored; it does not move into the block.
LEMMA MovesAreReported ==
    ASSUME MayReturn = FALSE, IInv, NEW w \in Windows, WindowStep(w)
    PROVE  /\ \/ window'[w].pos = window[w].pos
              \/ /\ thread'[w].pc = "posRead" \/ window'[w].state = 1
                 /\ shdata.move # [win |-> w, at |-> window'[w].pos]
           /\ window'[w].state # 1 /\ window[w].state = 1 => thread'[w].pc = "posRead"
<1>1. /\ window \in [Windows -> [open : BOOLEAN, pos : Int, state : States]]
      /\ thread \in [Threads -> Locals] /\ w \in Threads
  BY DEF IInv, TypeOK, DataOK, ThreadOK, Threads
<1>2. CASE AppMove(w)
  <2>1. PICK p \in Places :
               /\ shdata.move # [win |-> w, at |-> p]
               /\ window' = [window EXCEPT ![w].pos = p]
               /\ \E n \in Calls(w, p) : thread' = [thread EXCEPT ![w] = Reporting(n, FALSE)]
    BY <1>2 DEF AppMove
  <2>2. /\ window'[w].pos = p /\ window'[w].state = window[w].state
    BY <1>1, <2>1
  <2>3. CASE p = window[w].pos \/ window[w].state = 1
    BY <2>1, <2>2, <2>3
  <2>4. CASE ~ (p = window[w].pos \/ window[w].state = 1)
    <3>1. PICK n \in 1 .. 2 : thread' = [thread EXCEPT ![w] = Reporting(n, FALSE)]
      BY <2>1, <2>4 DEF Calls
    <3>2. Reporting(n, FALSE).pc = "posRead"
      BY DEF Reporting, Idle
    <3> QED BY <3>1, <3>2, <1>1, <2>1, <2>2, <2>4
  <2> QED BY <2>3, <2>4
<1>3. CASE MinMaxDo(w)
  <2>1. /\ window'[w].state = thread[w].want /\ window'[w].pos = window[w].pos
        /\ thread'[w] = Reporting(IF thread[w].want = 1 THEN 0 ELSE 1, thread[w].serving)
    BY <1>1, <1>3 DEF MinMaxDo
  <2>2. \A b : Reporting(1, b).pc = "posRead"
    BY DEF Reporting, Idle
  <2> QED BY <2>1, <2>2
<1>4. CASE ~ AppMove(w) /\ ~ MinMaxDo(w)
  <2>1. window'[w].pos = window[w].pos
    BY <1>1, <1>4 DEF WindowStep, PosRead, PosReport, MinMaxRead, MinMaxWrite, FocusAck, CloseWrite,
       CloseDo, Ask, Answer, AppState, AppClose
  <2>2. window'[w].state = window[w].state
    BY <1>1, <1>4 DEF WindowStep, PosRead, PosReport, MinMaxRead, MinMaxWrite, FocusAck, CloseWrite,
       CloseDo, Ask, Answer, AppState, AppClose
  <2> QED BY <2>1, <2>2
<1> QED BY <1>2, <1>3, <1>4

\* Of a window that the shell moves: the move is not acknowledged yet, or it is.
Before(w) == thread[Shell].pc \in {"moveBlock", "moveSet", "moveWait"} /\ request.win = w
Afterwards(w) ==
    thread[Shell].pc \in {"moveCheck", "posRead", "posReport", "moveUnblock"} /\ request.win = w

\* The client knows where it is, or a report is to come - by the hook, if it does not
\* take it for the shell's move, or by the shell, if the window is elsewhere.
Right(w) == KnownAt(w) = window[w].pos
Elsewhere(w) == window[w].pos # shdata.move.at
Refused(w) == thread[w].move = [win |-> w, at |-> window[w].pos]
ToReport(w) ==
    \/ At(w, "posRead")
    \/ At(w, "posReport") /\ ~ Refused(w)
    \/ Afterwards(w) /\ ~ At(Shell, "moveUnblock") /\ Elsewhere(w)

\* Where the block is, the acknowledgement told that, and what a hook does not report
\* is told then.
Mirrored(w) ==
    ~ Gone(w) =>
        /\ ~ Before(w) /\ window[w].state # 1 => Right(w) \/ ToReport(w)
        /\ Afterwards(w) /\ ~ Elsewhere(w) => Right(w)
        /\ At(w, "posReport") /\ Refused(w) => Before(w) \/ Right(w)

\* The hooks.
LEMMA WindowMirrored ==
    ASSUME Border = 0, MayReturn = FALSE, IInv, BlockIsOfMove, NEW w \in Windows, WindowStep(w),
           muted' = {}, NEW v \in Windows, Mirrored(v)
    PROVE  Mirrored(v)'
<1>1. /\ thread'[Shell] = thread[Shell] /\ shdata' = shdata /\ request' = request
      /\ v # w => thread'[v] = thread[v] /\ window'[v] = window[v]
  BY OthersWait, WindowChanges, ThreadsAssumption DEF Threads, request, serial
<1>2. \A u \in Windows : Frame(window[u].pos) = window[u].pos
  BY DEF Frame, IInv, TypeOK, DataOK
<1>3. \/ /\ KnownAt(v)' = KnownAt(v)
         /\ v = w /\ At(w, "posReport") => Gone(w) \/ Refused(w)
      \/ v = w /\ At(w, "posReport") /\ KnownAt(v)' = window[w].pos
  BY <1>2, WindowTells DEF IsBlocked, Refused
<1>4. Gone(v) => Gone(v)'
  BY <1>1, WindowChanges DEF Gone
<1> SUFFICES ASSUME ~ Gone(v), ~ Gone(v)' PROVE Mirrored(v)'
  BY <1>4 DEF Mirrored
<1>5. CASE v # w
  <2>1. KnownAt(v)' = KnownAt(v)
    BY <1>3, <1>5
  <2> QED BY <2>1, <1>1, <1>5 DEF Mirrored, Before, Afterwards, Right, Elsewhere, Refused, ToReport,
             At
<1>6. CASE v = w
  <2>. DEFINE from == thread[w].pc
              to == thread'[w].pc
              block == [win |-> w, at |-> window'[w].pos]
  <2>1. \/ thread'[w] = Idle /\ from \in Lasts
        \/ /\ <<from, to>> \in Goes
           /\ from = "posRead" => thread'[w].move = shdata.move
    BY WindowGoesOn
  <2>2. \/ window'[w].pos = window[w].pos
        \/ /\ to = "posRead" \/ window'[w].state = 1
           /\ shdata.move # block
    BY MovesAreReported
  <2>3. /\ window'[w].state # 1 /\ window[w].state = 1 => to = "posRead"
        /\ from # "minmaxDo" => window'[w].state = window[w].state
        /\ from # "idle" => window'[w].pos = window[w].pos
    BY MovesAreReported, WindowChanges
  <2>4. /\ Afterwards(w) => shdata.move = [win |-> w, at |-> shdata.move.at]
        /\ shdata.move.win = w => Before(w) \/ Afterwards(w)
    BY ThreadsAssumption DEF BlockIsOfMove, Before, Afterwards, MoveLabels
  <2>5. to = "posReport" => from = "posRead" /\ thread'[w].move = shdata.move
    BY <2>1 DEF Goes, Idle
  <2>6. from = "posRead" => to = "posReport"
    BY <2>1 DEF Goes, Lasts
  <2>7. /\ Before(w)' <=> Before(w)
        /\ Afterwards(w)' <=> Afterwards(w)
        /\ At(Shell, "moveUnblock")' <=> At(Shell, "moveUnblock")
    BY <1>1 DEF Before, Afterwards, At
  <2>8. ASSUME window'[w].pos = window[w].pos
        PROVE  /\ Right(w) => Right(w)'
               /\ Elsewhere(w)' <=> Elsewhere(w)
               /\ from = "posReport" => Before(w) \/ Right(w)'
    BY <2>8, <1>1, <1>3, <1>6 DEF Right, Elsewhere, Mirrored, At
  <2>9. ASSUME to = "posReport", Refused(w)'
        PROVE  Before(w) \/ Right(w)'
    <3>1. from = "posRead" /\ shdata.move = block /\ window'[w].pos = window[w].pos
      BY <2>3, <2>5, <2>9 DEF Refused
    <3>2. ~ Elsewhere(w)
      BY <3>1 DEF Elsewhere
    <3> QED BY <3>1, <3>2, <2>4, <2>8, <1>6 DEF Mirrored
  <2>10. ASSUME Afterwards(w), ~ Elsewhere(w)'
         PROVE  Right(w)'
    <3>1. shdata.move = block
      BY <2>4, <2>10, <1>1 DEF Elsewhere
    <3>2. window'[w].pos = window[w].pos
      BY <3>1, <2>2
    <3> QED BY <3>2, <2>8, <2>10, <1>6 DEF Mirrored
  <2>11. ASSUME ~ Before(w), window'[w].state # 1
         PROVE  Right(w)' \/ ToReport(w)'
    <3>1. CASE to = "posRead"
      BY <3>1 DEF ToReport, At
    <3>2. CASE to = "posReport"
      BY <3>2, <2>9, <2>11 DEF ToReport, At
    <3>3. CASE to \notin Reports
      <4>1. window'[w].pos = window[w].pos /\ window[w].state # 1
        BY <3>3, <2>2, <2>3, <2>11 DEF Reports
      <4>2. CASE from = "posReport"
        BY <4>1, <4>2, <2>8, <2>11
      <4>3. CASE from # "posReport"
        <5>1. Right(w) \/ (Afterwards(w) /\ ~ At(Shell, "moveUnblock") /\ Elsewhere(w))
          BY <4>1, <4>3, <3>3, <2>6, <2>11, <1>6 DEF Mirrored, ToReport, At, Reports
        <5> QED BY <5>1, <4>1, <2>7, <2>8 DEF ToReport
      <4> QED BY <4>2, <4>3
    <3> QED BY <3>1, <3>2, <3>3 DEF Reports
  <2> QED BY <2>7, <2>9, <2>10, <2>11, <1>6 DEF Mirrored, At
<1> QED BY <1>5, <1>6

\* What the shell does by itself.
LEMMA ShellMirrored ==
    ASSUME Border = 0, IInv, BlockIsOfMove, ShellStep, muted' = {}, NEW v \in Windows, Mirrored(v)
    PROVE  Mirrored(v)'
<1>. DEFINE from == thread[Shell].pc
            to == thread'[Shell].pc
            block == [win |-> request.win, at |-> request.arg]
<1>1. /\ thread'[v] = thread[v] /\ window' = window /\ request' = request
  BY WindowsWait, ShellGoesOn DEF request, serial
<1>2. \A u \in Windows : Frame(window[u].pos) = window[u].pos
  BY DEF Frame, IInv, TypeOK, DataOK
<1> SUFFICES ASSUME ~ Gone(v), ~ Gone(v)' PROVE Mirrored(v)'
  BY <1>1 DEF Mirrored, Gone
<1>3. Process => Mirrored(v)'
  <2>1. Process => KnownAt(v)' = KnownAt(v) /\ UNCHANGED <<thread, shdata>>
    BY KnownIsTold DEF Process
  <2> QED BY <2>1, <1>1 DEF Mirrored, Before, Afterwards, Right, Elsewhere, Refused, ToReport, At
<1> SUFFICES ASSUME ~ Process PROVE Mirrored(v)'
  BY <1>3
<1>4. /\ <<from, to>> \in ShellGoes
      /\ from \notin {"moveBlock", "moveUnblock"} => shdata'.move = shdata.move
  BY ShellGoesOn
<1>5. /\ from \in {"moveWait", "moveCheck", "posRead", "posReport"} => shdata.move = block
      /\ from = "posReport" => thread[Shell].move = block
      /\ from = "moveWait" /\ request.win = v /\ At(v, "posReport") => thread[v].move = block
  BY DEF BlockIsOfMove, MoveLabels, At
<1>6. CASE from = "idle" \/ request.win # v
  <2>1. KnownAt(v)' = KnownAt(v)
    BY <1>4, <1>6, ShellTells DEF ShellGoes
  <2>2. ~ Before(v) /\ ~ Afterwards(v) /\ ~ Before(v)' /\ ~ Afterwards(v)'
    BY <1>1, <1>4, <1>6 DEF Before, Afterwards, ShellGoes
  <2> QED BY <2>1, <2>2, <1>1 DEF Mirrored, Right, ToReport, Refused, At
<1>7. CASE from = "moveBlock" /\ request.win = v
  <2>1. Before(v)' /\ ~ Afterwards(v)'
    BY <1>1, <1>4, <1>7 DEF Before, Afterwards, ShellGoes
  <2> QED BY <2>1 DEF Mirrored
<1>8. CASE from = "moveWait" /\ request.win = v
  <2>1. KnownAt(v)' = request.arg /\ shdata'.move.at = request.arg
    BY <1>4, <1>5, <1>8, ShellTells
  <2>2. to = "moveCheck" /\ Afterwards(v)' /\ ~ Before(v)'
    BY <1>1, <1>4, <1>8 DEF Before, Afterwards, ShellGoes
  <2>3. At(v, "posReport") /\ Refused(v)' => Right(v)'
    BY <2>1, <1>1, <1>5, <1>8 DEF Refused, Right
  <2>4. Right(v)' \/ Elsewhere(v)'
    BY <2>1, <1>1 DEF Right, Elsewhere
  <2> QED BY <2>2, <2>3, <2>4, <1>1 DEF Mirrored, ToReport, At
<1>9. CASE from \in {"moveCheck", "posRead", "posReport"} /\ request.win = v
  <2>1. Afterwards(v) /\ Afterwards(v)' /\ ~ Before(v) /\ ~ Before(v)' /\ from # "moveUnblock"
    BY <1>1, <1>4, <1>9 DEF Before, Afterwards, ShellGoes
  <2>2. /\ Right(v) => Right(v)'
        /\ from = "posReport" => Right(v)' \/ ~ Elsewhere(v)
    <3>1. \/ KnownAt(v)' = KnownAt(v) /\ (from = "posReport" => IsBlocked(Shell, v))
          \/ KnownAt(v)' = window[v].pos
      BY <1>2, <1>9, ShellTells
    <3>2. from = "posReport" /\ IsBlocked(Shell, v) => ~ Elsewhere(v)
      BY <1>2, <1>5 DEF IsBlocked, Elsewhere
    <3> QED BY <3>1, <3>2, <1>1 DEF Right
  <2>3. from = "moveCheck" /\ to = "moveUnblock" => ~ Elsewhere(v)
    <3>1. \A pc : Goto(Shell, pc) => to = pc
      BY DEF Goto, IInv, TypeOK, ThreadOK, Threads
    <3>2. MoveCheck /\ to = "moveUnblock" => ~ Elsewhere(v)
      BY <3>1, <1>9 DEF MoveCheck, Elsewhere
    <3>3. from = "moveCheck" => MoveCheck
      BY DEF ShellStep, MoveAck, MoveBlock, MoveUnblock, PosRead, PosReport, StateCheck,
         StateUnblock, FocusBlock, FocusDone, CloseDone, At
    <3> QED BY <3>2, <3>3
  <2>4. Elsewhere(v)' <=> Elsewhere(v)
    BY <1>1, <1>4, <1>9 DEF Elsewhere
  <2>5. to = "moveUnblock" => Right(v)' \/ ~ Elsewhere(v)
    BY <2>2, <2>3, <1>4, <1>9 DEF ShellGoes
  <2>6. ~ Elsewhere(v) => Right(v)'
    BY <2>1, <2>2 DEF Mirrored
  <2>7. At(v, "posReport") /\ Refused(v) => Right(v)'
    BY <2>1, <2>2 DEF Mirrored
  <2>8. Right(v)' \/ (to # "moveUnblock" /\ Elsewhere(v))
    BY <2>5, <2>6
  <2> QED BY <2>1, <2>4, <2>6, <2>7, <2>8, <1>1 DEF Mirrored, ToReport, At, Refused
<1>10. CASE from = "moveUnblock" /\ request.win = v
  <2>1. Afterwards(v) /\ ~ Before(v) /\ ~ Before(v)' /\ ~ Afterwards(v)'
    BY <1>1, <1>4, <1>10 DEF Before, Afterwards, ShellGoes
  <2>2. KnownAt(v)' = KnownAt(v)
    BY <1>10, ShellTells
  <2> QED BY <2>1, <2>2, <1>1, <1>10 DEF Mirrored, ToReport, At, Right, Refused
<1>11. CASE /\ request.win = v
            /\ from \in {"stateCheck", "stateWait", "focusBlock", "focusWait", "closeWait"}
  <2>1. ~ Before(v) /\ ~ Before(v)' /\ ~ Afterwards(v) /\ ~ Afterwards(v)'
    BY <1>4, <1>11 DEF Before, Afterwards, ShellGoes
  <2>2. KnownAt(v)' = KnownAt(v)
    BY <1>11, ShellTells
  <2> QED BY <2>1, <2>2, <1>1 DEF Mirrored, ToReport, At, Right, Refused
<1> QED BY <1>4, <1>6, <1>7, <1>8, <1>9, <1>10, <1>11 DEF ShellGoes

\* And what it has a window do.
LEMMA CallMirrored ==
    ASSUME Border = 0, IInv, BlockIsOfMove, ShellCall, muted' = {}, NEW v \in Windows, Mirrored(v)
    PROVE  Mirrored(v)'
<1>. DEFINE w == request.win
            from == thread[Shell].pc
            to == thread'[Shell].pc
<1>1. /\ w \in Windows /\ At(w, "idle") /\ <<from, to>> \in Waits
      /\ \A t \in Windows \ {w} : thread'[t] = thread[t]
      /\ UNCHANGED <<shdata, channelVars, requests>>
  BY CallsAreOfTheWindow
<1>2. thread'[w] = thread[w] \/ thread'[w] = Idle \/ <<from, thread'[w].pc>> \in CallsOut
  BY CallsAreOfTheWindow
<1>3. KnownAt(v)' = KnownAt(v) /\ request' = request
  BY <1>1, KnownIsTold DEF channelVars, request, serial
<1>4. /\ window'[v].state = window[v].state /\ (Gone(v) => Gone(v)')
      /\ v # w => window'[v] = window[v]
      /\ from # "moveSet" => window' = window
  BY CallsChange DEF Gone
<1>5. CASE v # w
  <2>1. ~ Before(v) /\ ~ Before(v)' /\ ~ Afterwards(v) /\ ~ Afterwards(v)'
    BY <1>3, <1>5 DEF Before, Afterwards
  <2> QED BY <2>1, <1>1, <1>3, <1>4, <1>5 DEF Mirrored, ToReport, At, Right, Refused, Gone
<1>6. CASE v = w /\ from = "moveSet"
  <2>1. Before(v)' /\ ~ Afterwards(v)'
    BY <1>1, <1>3, <1>6 DEF Before, Afterwards, Waits
  <2> QED BY <2>1 DEF Mirrored
<1>7. CASE v = w /\ from # "moveSet"
  <2>1. ~ Before(v) /\ ~ Before(v)' /\ ~ Afterwards(v) /\ ~ Afterwards(v)'
    BY <1>1, <1>7 DEF Before, Afterwards, Waits
  <2>2. thread'[v].pc \notin Reports /\ thread[v].pc = "idle"
    BY <1>1, <1>2, <1>7 DEF CallsOut, Idle, At, Reports
  <2> QED BY <2>1, <2>2, <1>3, <1>4, <1>7 DEF Mirrored, ToReport, At, Right, Gone, Reports
<1> QED BY <1>5, <1>6, <1>7

\* A request to come finds everything told.
LEMMA ReceiveMirrored ==
    ASSUME Border = 0, IInv, AckInv, NEW r \in Requests, Receive(r), muted = {}, NEW v \in Windows,
           BlockIsOfMove, Mirrored(v)
    PROVE  Mirrored(v)'
<1>1. /\ thread'[v] = thread[v] /\ window' = window /\ At(Shell, "idle")
      /\ requests' = Append(requests, r) /\ log' = log
  BY WindowsWait DEF Receive, channelVars
<1>2. KnownAt(v)' = KnownAt(v)
  <2>1. log \in Seq(Messages) /\ requests \in Seq(Requests)
    BY DEF IInv, TypeOK, LogOK
  <2>2. ASSUME NEW i \in DOMAIN log, log[i].kind = "ACK", log[i].serial # 0
        PROVE  requests[log[i].serial] = requests'[log[i].serial]
    <3>. DEFINE n == log[i].serial
    <3>1. n \in Nat /\ log[i] = Ack(n)
      <4>1. log[i] \in Messages
        BY <2>1
      <4> QED BY <4>1, <2>2 DEF Messages, Ack
    <3>2. i \in Acks(n)
      BY <3>1 DEF Acks
    <3>3. n <= serial
      BY <3>1, <3>2 DEF AckInv, AllOwed, serial
    <3>. HIDE DEF n
    <3>4. n \in 1 .. Len(requests)
      BY <3>1, <3>3, <2>2, <2>1 DEF serial, n
    <3>5. requests'[n] = requests[n]
      BY <3>4, <1>1, <2>1, AppendProperties
    <3> QED BY <3>5 DEF n
  <2>3. InTheEnd(log, requests, v, Start + Border) = InTheEnd(log, requests', v, Start + Border)
    BY <2>1, <2>2, ToldStays
  <2> QED BY <2>3, <1>1, KnownIsTold
<1>3. ~ Before(v) /\ ~ Afterwards(v) /\ ~ Afterwards(v)'
  <2>1. thread'[Shell].pc = FirstLabel(r.kind)
    BY DEF Receive, Goto, IInv, TypeOK, ThreadOK, Threads
  <2>2. r.kind \in {"POSITION", "STATE", "FOCUS", "DESTROY"}
    BY RequestKinds, BoundsAssumption DEF IInv, TypeOK
  <2> QED BY <2>1, <2>2, <1>1 DEF FirstLabel, Before, Afterwards, At
<1> QED BY <1>1, <1>2, <1>3 DEF Mirrored, ToReport, At, Right, Refused, Gone

\* When things have settled, the client has a window that is not minimised where it
\* is (PositionMirror): no report is swallowed by a block that was meant for the
\* shell's own move (line 176), and a window that did not go where it was told is
\* reported after the acknowledgement (line 661).  For windows without the border
\* that the block does not allow for, and that do not move into the block themselves.
THEOREM ClientKnowsPositions ==
    ASSUME Border = 0, MayReturn = FALSE PROVE Spec => []PositionMirror
<1>. DEFINE Inv == BlockIsOfMove /\ (muted = {} => \A v \in Windows : Mirrored(v))
<1>1. Init => Inv
  <2>. SUFFICES ASSUME Init PROVE Inv
    OBVIOUS
  <2>1. /\ \A t \in Threads : thread[t].pc = "idle"
        /\ \A v \in Windows : v \in Threads /\ window[v].pos = Start
        /\ Shell \in Threads /\ log = <<>> /\ shdata.move.win = NoWindow
    BY DEF Init, Idle, NoMove, Threads
  <2>2. ASSUME NEW v \in Windows PROVE KnownAt(v) = Start
    <3>1. log \in Seq(Messages) /\ DOMAIN log = {}
      BY <2>1
    <3>. DEFINE b == Start + Border
    <3>2. InTheEnd(log, requests, v, b) = b
      <4>1. \A i \in DOMAIN log : ~ About(log[i], requests, v)
        BY <3>1
      <4>. HIDE DEF b
      <4> QED BY <3>1, <4>1, ToldIs
    <3>3. Start + Border = Start
      BY WindowsAssumption
    <3> QED BY <3>2, <3>3, KnownIsTold
  <2>3. BlockIsOfMove
    BY <2>1 DEF BlockIsOfMove, At, MoveLabels
  <2>4. ASSUME NEW v \in Windows PROVE Mirrored(v)
    BY <2>1, <2>2 DEF Mirrored, Right, Afterwards, At
  <2> QED BY <2>3, <2>4
<1>2. IInv /\ AckInv /\ Inv /\ [Next]_vars => Inv'
  <2>. SUFFICES ASSUME IInv, AckInv, Inv, [Next]_vars PROVE Inv'
    OBVIOUS
  <2>1. BlockIsOfMove'
    BY BlockIsOfMoveInvariance
  <2>2. ASSUME muted' = {}, NEW v \in Windows PROVE Mirrored(v)'
    <3>1. muted = {}
      <4>1. ASSUME UNCHANGED vars PROVE muted' = muted
        BY <4>1 DEF vars, channelVars
      <4>2. ASSUME NEW r \in Requests, Receive(r) PROVE muted' = muted
        BY <4>2 DEF Receive, channelVars
      <4>3. ASSUME ShellCall PROVE muted' = muted
        BY <4>3, CallsAreOfTheWindow DEF channelVars
      <4> QED BY <2>2, <4>1, <4>2, <4>3, Steps, ShellWrites, WindowWrites
    <3>2. Mirrored(v)
      BY <3>1
    <3>3. ASSUME UNCHANGED vars PROVE Mirrored(v)'
      <4>1. KnownAt(v)' = KnownAt(v)
        BY <3>3, KnownIsTold DEF vars, channelVars
      <4> QED BY <4>1, <3>2, <3>3 DEF vars, Mirrored, Before, Afterwards, Right, Elsewhere, Refused,
                 ToReport, At, Gone, request, serial
    <3> QED
      BY <2>2, <3>1, <3>2, <3>3, Steps, WindowMirrored, ShellMirrored, CallMirrored, ReceiveMirrored
  <2> QED BY <2>1, <2>2
<1>3. IInv /\ Inv => PositionMirror
  <2>. SUFFICES ASSUME IInv, Inv, NEW w \in Windows, Settled(w), window[w].state # 1
                PROVE  Told("POSITION", w, Frame(Start)) = Frame(window[w].pos)
    BY DEF PositionMirror
  <2>1. Frame(window[w].pos) = window[w].pos
    BY DEF Frame, IInv, TypeOK, DataOK
  <2>2. Right(w)
    BY DEF Settled, Mirrored, Before, Afterwards, ToReport, At
  <2> QED BY <2>1, <2>2 DEF Right, KnownAt
<1>. HIDE DEF Inv
<1> QED BY <1>1, <1>2, <1>3, TypeCorrect, AcksAreOwed, PTL DEF Spec

=============================================================================
