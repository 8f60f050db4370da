------------------------------ MODULE HookBlock ------------------------------
(***************************************************************************)
(* Requests of the client and reports of the windows (ServerExe/hookdll.c).*)
(* The shell carries out a request with one of the Safe* functions, which  *)
(* sees to its acknowledgement; the hooks, which run in the windows' own   *)
(* threads, report what happens to a window, unless the variables shared   *)
(* with the shell say that it is what the client has asked for.            *)
(*                                                                         *)
(* A change of a window runs in the thread that owns it, hooks included,   *)
(* and a call of the shell that causes it returns after it.  The sections  *)
(* under the DLL's own g_mutex wait for nothing and are single steps; so   *)
(* is a bracket of vchannel_block: what it reads first and what it does    *)
(* last commute with all that may happen between.  The ring is a log here, *)
(* of which the last messages are unread.                                  *)
(***************************************************************************)
EXTENDS Integers, Sequences, FiniteSets, SequencesExt

CONSTANTS
    Windows,      \* each with a thread and a process of its own
    Shell,        \* the shell's thread
    NoWindow,
    Kinds,        \* the requests that come
    Places,       \* positions of windows and in requests, as integers
    Start,        \* where all windows are first
    States,       \* 0: normal, 1: minimised, 2: maximised
    Border,       \* width of the invisible resize border
    Room,         \* messages that fit the ring
    MaxRequests,  \* bound: requests
    MaxActs,      \* bound: changes an application makes by itself, each
    Movers, Switchers, Closers, \* windows that move, change state or close by themselves
    Unruly,       \* windows that do not go exactly where they are told
    Askers,       \* windows that ask the user before they close
    MayReturn     \* may a window move by itself to where it was just told to?

ASSUME ThreadsAssumption ==
    Shell \notin Windows /\ NoWindow \notin Windows /\ Shell # NoWindow
ASSUME WindowsAssumption ==
    /\ Places \subseteq Int /\ Start \in Places /\ Border \in Nat
    /\ 0 \in States /\ States \subseteq 0 .. 2
    /\ (Movers \cup Switchers \cup Closers \cup Unruly \cup Askers) \subseteq Windows
    /\ MayReturn \in BOOLEAN
ASSUME BoundsAssumption ==
    /\ Kinds \subseteq {"POSITION", "STATE", "FOCUS", "DESTROY"}
    /\ Room \in Nat \ {0} /\ MaxRequests \in Nat /\ MaxActs \in Nat

Threads == Windows \cup {Shell}

VARIABLES
    window,    \* of each window: is it there, left edge with border, show state
    shdata,    \* g_shdata: the block variables
    thread,    \* of each thread: where it is, and its local variables
    log,       \* all messages ever written
    unread,    \* how many of the last of them are still in the ring
    muted,     \* the processes whose g_seamless_shell is FALSE
    requests,  \* the requests so far; the index is the serial
    acts       \* changes the applications made by themselves

channelVars == <<log, unread, muted>>
vars == <<window, shdata, thread, channelVars, requests, acts>>

serial == Len(requests)
request == requests[serial]
Frame(full) == full + Border    \* what DwmGetWindowAttribute returns
Target == request.arg - Border  \* SafeMoveWindow's shift of x

Requests ==
    {r \in [kind : Kinds, win : Windows, arg : Places \cup States] :
        CASE r.kind = "POSITION" -> r.arg \in Places
          [] r.kind = "STATE" -> r.arg \in States
          [] OTHER -> r.arg = 0}

Ack(n) == [kind |-> "ACK", serial |-> n]
Position(w) == [kind |-> "POSITION", win |-> w, arg |-> Frame(window[w].pos)]
State(w, s) == [kind |-> "STATE", win |-> w, arg |-> s]
Create == [kind |-> "CREATE", win |-> NoWindow]     \* a dialog of its own
Destroy(w) == [kind |-> "DESTROY", win |-> w]
Debug == [kind |-> "DEBUG", win |-> NoWindow]

NoMove == [win |-> NoWindow, at |-> 0]
NoState == [win |-> NoWindow, state |-> 0, serial |-> 0]

\* A thread outside of everything below.  move, state: a hook's copies of the
\* block variables; want: the state a window is about to enter; left: calls of
\* update_position still to come; serving: is this a call of the shell?
Idle == [pc |-> "idle", move |-> NoMove, state |-> NoState, want |-> 0,
         left |-> 0, serving |-> FALSE]

\* The shared memory is zero-filled.
Init ==
    /\ window = [w \in Windows |-> [open |-> TRUE, pos |-> Start, state |-> 0]]
    /\ shdata = [move |-> NoMove, state |-> NoState, focus |-> 0]
    /\ thread = [t \in Threads |-> Idle]
    /\ log = <<>> /\ unread = 0 /\ muted = {}
    /\ requests = <<>> /\ acts = [w \in Windows |-> 0]

At(t, pc) == thread[t].pc = pc
Goto(t, pc) == thread' = [thread EXCEPT ![t].pc = pc]
Gone(w) == ~ window[w].open

-----------------------------------------------------------------------------
(* Writing to the channel.                                                 *)

\* The shell is in a synchronous call into this window's thread.
ShellWaitsFor(t) ==
    /\ thread[Shell].pc \in {"moveSet", "moveWait", "stateShow", "stateWait",
                             "focusSend", "focusWait", "closeSend", "closeWait"}
    /\ request.win = t

\* A write to a full ring waits for the shell.  If the shell cannot come - it
\* is writing itself, or excluded by the caller's bracket, or waiting for the
\* caller - the wait times out and the process is mute from then on.
PutMuted(t) == t \in muted /\ UNCHANGED channelVars
PutMessage(t, m) ==
    /\ t \notin muted /\ unread < Room
    /\ log' = Append(log, m) /\ unread' = unread + 1
    /\ UNCHANGED muted
\* No timeout: the wait for room has no end.
PutTimeout_(t, inBracket) == FALSE
PutTimeout(t, inBracket) ==
    /\ t \notin muted /\ unread = Room
    /\ t = Shell \/ inBracket \/ ShellWaitsFor(t)
    /\ muted' = muted \cup {t}
    /\ UNCHANGED <<log, unread>>
Put(t, m, inBracket) == PutMuted(t) \/ PutMessage(t, m) \/ PutTimeout(t, inBracket)

\* vchannel_process, from the main loop; it takes all there is.
Process ==
    /\ At(Shell, "idle") /\ unread > 0
    /\ unread' = 0
    /\ UNCHANGED <<window, shdata, thread, log, muted, requests, acts>>

-----------------------------------------------------------------------------
(* update_position, by a hook or by SafeMoveWindow.                        *)

PosRead(t) ==
    /\ At(t, "posRead")
    /\ thread' = [thread EXCEPT ![t].pc = "posReport", ![t].move = shdata.move]
    /\ UNCHANGED <<window, shdata, channelVars, requests, acts>>

\* The comparison of a whole rectangle, here of its left edge.
IsBlocked(t, w) == thread[t].move = [win |-> w, at |-> Frame(window[w].pos)]

\* What follows in the thread: another call, the end of the hooks' work, or
\* the rest of SafeMoveWindow.
AfterReport(t) ==
    IF t = Shell THEN [Idle EXCEPT !.pc = "moveUnblock"]
    ELSE IF thread[t].left = 1 THEN Idle
    ELSE [thread[t] EXCEPT !.pc = "posRead", !.left = @ - 1]

PosReport(t) ==
    LET w == IF t = Shell THEN request.win ELSE t IN
    /\ At(t, "posReport")
    /\ IF Gone(w) \/ IsBlocked(t, w) THEN UNCHANGED channelVars
       ELSE Put(t, Position(w), TRUE)
    /\ thread' = [thread EXCEPT ![t] = AfterReport(t)]
    /\ UNCHANGED <<window, shdata, requests, acts>>

-----------------------------------------------------------------------------
(* What happens to a window.                                               *)

\* A thread with n calls of update_position to make.
Reporting(n, isServing) ==
    IF n = 0 THEN Idle
    ELSE [Idle EXCEPT !.pc = "posRead", !.left = n, !.serving = isServing]

\* How often the hooks call it when a window moves: on WM_WINDOWPOSCHANGED,
\* and on WM_MOVE or WM_SIZE if the window procedure lets them happen; not for
\* a minimised window.
Calls(w, p) == IF p = window[w].pos \/ window[w].state = 1 THEN {0} ELSE 1 .. 2

AppMove(w) ==
    /\ w \in Movers /\ At(w, "idle") /\ ~ Gone(w) /\ acts[w] < MaxActs
    /\ \E p \in Places \ {window[w].pos} :
          /\ MayReturn \/ shdata.move # [win |-> w, at |-> p]
          /\ window' = [window EXCEPT ![w].pos = p]
          /\ \E n \in Calls(w, p) : thread' = [thread EXCEPT ![w] = Reporting(n, FALSE)]
    /\ acts' = [acts EXCEPT ![w] = @ + 1]
    /\ UNCHANGED <<shdata, channelVars, requests>>

AppState(w) ==
    /\ w \in Switchers /\ At(w, "idle") /\ ~ Gone(w) /\ acts[w] < MaxActs
    /\ \E s \in States \ {window[w].state} :
          thread' = [thread EXCEPT ![w].pc = "minmaxRead", ![w].want = s]
    /\ acts' = [acts EXCEPT ![w] = @ + 1]
    /\ UNCHANGED <<window, shdata, channelVars, requests>>

\* cbt_hook_proc: HCBT_MINMAX comes before the state changes.
MinMaxRead(w) ==
    /\ At(w, "minmaxRead")
    /\ thread' = [thread EXCEPT ![w].pc = "minmaxWrite", ![w].state = shdata.state]
    /\ UNCHANGED <<window, shdata, channelVars, requests, acts>>

\* A show command that is none of those it knows, which ShowWindow with the shell's
\* three never leads to, is worth a DEBUG message only.
MinMaxWrite(w) ==
    LET my == thread[w]
        m == IF my.state.win = w /\ my.state.state = my.want
             THEN Ack(my.state.serial) ELSE State(w, my.want)
    IN  /\ At(w, "minmaxWrite")
        /\ \/ Put(w, m, FALSE)
           \/ ~ my.serving /\ Put(w, Debug, FALSE)
        /\ Goto(w, "minmaxDo")
        /\ UNCHANGED <<window, shdata, requests, acts>>

\* The window changes, and with it its size.
MinMaxDo(w) ==
    LET my == thread[w] IN
    /\ At(w, "minmaxDo")
    /\ window' = [window EXCEPT ![w].state = my.want]
    /\ thread' = [thread EXCEPT ![w] = Reporting(IF my.want = 1 THEN 0 ELSE 1, my.serving)]
    /\ UNCHANGED <<shdata, channelVars, requests, acts>>

\* wndprocret_hook_proc on g_wm_seamless_focus.
FocusAck(w) ==
    /\ At(w, "focusAck")
    /\ Put(w, Ack(shdata.focus), FALSE)
    /\ thread' = [thread EXCEPT ![w] = Idle]
    /\ UNCHANGED <<window, shdata, requests, acts>>

\* A window closes: it is hidden, which is reported, and then destroyed.
AppClose(w) ==
    /\ w \in Closers /\ At(w, "idle") /\ ~ Gone(w) /\ acts[w] < MaxActs
    /\ Goto(w, "closeWrite")
    /\ acts' = [acts EXCEPT ![w] = @ + 1]
    /\ UNCHANGED <<window, shdata, channelVars, requests>>

CloseWrite(w) ==
    /\ At(w, "closeWrite")
    /\ Put(w, Destroy(w), FALSE)
    /\ Goto(w, "closeDo")
    /\ UNCHANGED <<window, shdata, requests, acts>>

CloseDo(w) ==
    /\ At(w, "closeDo")
    /\ window' = [window EXCEPT ![w].open = FALSE]
    /\ thread' = [thread EXCEPT ![w] = Idle]
    /\ UNCHANGED <<shdata, channelVars, requests, acts>>

\* On WM_CLOSE it may bring up a dialog, and wait for the user's answer ...
Ask(w) ==
    /\ At(w, "ask")
    /\ Put(w, Create, FALSE)
    /\ Goto(w, "asking")
    /\ UNCHANGED <<window, shdata, requests, acts>>

\* ... who does not see the dialog as long as its CREATE is in the ring, but may
\* hit a key.
Answer(w) ==
    /\ At(w, "asking")
    /\ \/ Goto(w, "closeWrite")
       \/ thread' = [thread EXCEPT ![w] = Idle]
    /\ UNCHANGED <<window, shdata, channelVars, requests, acts>>

-----------------------------------------------------------------------------
(* The shell: process_cmds and the Safe* functions.  A call for a window   *)
(* that is gone fails at once.                                             *)

FirstLabel(kind) ==
    CASE kind = "POSITION" -> "moveBlock"
      [] kind = "STATE" -> "stateCheck"
      [] kind = "FOCUS" -> "focusBlock"
      [] kind = "DESTROY" -> "closeSend"

Receive(r) ==
    /\ At(Shell, "idle") /\ serial < MaxRequests
    /\ requests' = Append(requests, r)
    /\ Goto(Shell, FirstLabel(r.kind))
    /\ UNCHANGED <<window, shdata, channelVars, acts>>

\* block_move_hwnd is forgotten.
MoveBlock_ ==
    /\ At(Shell, "moveBlock")
    /\ IF Gone(request.win) THEN Put(Shell, Debug, FALSE) ELSE UNCHANGED channelVars
    /\ shdata' = [shdata EXCEPT !.move.at = Target]
    /\ Goto(Shell, "moveSet")
    /\ UNCHANGED <<window, requests, acts>>
\* Without a window to look at nothing is known of its border.
Blocked(pos) == [shdata EXCEPT !.move = [win |-> request.win, at |-> pos]]
MoveBlock ==
    /\ At(Shell, "moveBlock")
    /\ IF Gone(request.win)
       THEN Put(Shell, Debug, FALSE) /\ shdata' = Blocked(request.arg)
       ELSE UNCHANGED channelVars /\ shdata' = Blocked(Target)
    /\ Goto(Shell, "moveSet")
    /\ UNCHANGED <<window, requests, acts>>

\* SetWindowPos, as soon as the window's thread attends to it.
MoveSet ==
    LET w == request.win IN
    /\ At(Shell, "moveSet") /\ At(w, "idle")
    /\ \/ Gone(w) /\ Goto(Shell, "moveWait") /\ UNCHANGED window
       \/ ~ Gone(w) /\ \E p \in IF w \in Unruly THEN Places ELSE {Target} :
             /\ window' = [window EXCEPT ![w].pos = p]
             /\ \E n \in Calls(w, p) :
                   thread' = [thread EXCEPT ![Shell].pc = "moveWait",
                                            ![w] = Reporting(n, TRUE)]
    /\ UNCHANGED <<shdata, channelVars, requests, acts>>

MoveAck ==
    /\ At(Shell, "moveWait") /\ ~ thread[request.win].serving
    /\ Put(Shell, Ack(serial), FALSE)
    /\ Goto(Shell, "moveCheck")
    /\ UNCHANGED <<window, shdata, requests, acts>>

\* The window is taken to be where it was told to go.
MoveCheck_ ==
    /\ At(Shell, "moveCheck")
    /\ Goto(Shell, "moveUnblock")
    /\ UNCHANGED <<window, shdata, channelVars, requests, acts>>
MoveCheck ==
    /\ At(Shell, "moveCheck")
    /\ \/ /\ ~ Gone(request.win) /\ UNCHANGED channelVars
          /\ Goto(Shell, IF window[request.win].pos # shdata.move.at
                         THEN "posRead" ELSE "moveUnblock")
       \/ Gone(request.win) /\ Put(Shell, Debug, FALSE) /\ Goto(Shell, "moveUnblock")
    /\ UNCHANGED <<window, shdata, requests, acts>>

MoveUnblock ==
    /\ At(Shell, "moveUnblock")
    /\ shdata' = [shdata EXCEPT !.move = NoMove]
    /\ Goto(Shell, "idle")
    /\ UNCHANGED <<window, channelVars, requests, acts>>

\* The bracket of SafeSetState.
StateCheck ==
    LET current == IF Gone(request.win) THEN 0 ELSE window[request.win].state
        done == current = request.arg IN
    /\ At(Shell, "stateCheck")
    /\ Goto(Shell, IF done THEN "idle" ELSE "stateShow")
    /\ \/ done /\ Put(Shell, Ack(serial), TRUE) /\ UNCHANGED shdata
       \/ /\ ~ done
          /\ shdata' = [shdata EXCEPT !.state = [win |-> request.win, state |-> request.arg,
                                                 serial |-> serial]]
          /\ UNCHANGED channelVars
    /\ UNCHANGED <<window, requests, acts>>

\* ShowWindow.  Whether there is an HCBT_MINMAX if the window is in that state
\* already is up to Windows.  A state that is none of the three (line 773) is
\* never requested here.
StateShow ==
    LET w == request.win IN
    /\ At(Shell, "stateShow") /\ At(w, "idle")
    /\ \/ /\ window[w].state = request.arg \/ Gone(w)
          /\ Goto(Shell, "stateWait")
       \/ /\ ~ Gone(w)
          /\ thread' = [thread EXCEPT ![Shell].pc = "stateWait", ![w].pc = "minmaxRead",
                                      ![w].want = request.arg, ![w].serving = TRUE]
    /\ UNCHANGED <<window, shdata, channelVars, requests, acts>>

\* The serial stays.
StateUnblock ==
    /\ At(Shell, "stateWait") /\ ~ thread[request.win].serving
    /\ shdata' = [shdata EXCEPT !.state.win = NoWindow, !.state.state = -1]
    /\ Goto(Shell, "idle")
    /\ UNCHANGED <<window, channelVars, requests, acts>>

\* Of these block variables only the serial is ever read.
FocusBlock_ ==
    /\ At(Shell, "focusBlock")
    /\ Goto(Shell, "focusSend")
    /\ UNCHANGED <<window, shdata, channelVars, requests, acts>>
FocusBlock ==
    /\ At(Shell, "focusBlock")
    /\ shdata' = [shdata EXCEPT !.focus = serial]
    /\ Goto(Shell, "focusSend")
    /\ UNCHANGED <<window, channelVars, requests, acts>>

FocusSend ==
    LET w == request.win IN
    /\ At(Shell, "focusSend") /\ At(w, "idle")
    /\ \/ Gone(w) /\ Goto(Shell, "focusWait")
       \/ ~ Gone(w) /\ thread' = [thread EXCEPT ![Shell].pc = "focusWait",
                                               ![w].pc = "focusAck", ![w].serving = TRUE]
    /\ UNCHANGED <<window, shdata, channelVars, requests, acts>>

FocusDone ==
    /\ At(Shell, "focusWait") /\ ~ thread[request.win].serving
    /\ Goto(Shell, "idle")
    /\ UNCHANGED <<window, shdata, channelVars, requests, acts>>

\* do_destroy: SendMessage of WM_CLOSE.
CloseSend ==
    LET w == request.win IN
    /\ At(Shell, "closeSend") /\ At(w, "idle")
    /\ \/ Gone(w) /\ Goto(Shell, "closeWait")
       \/ /\ ~ Gone(w)
          /\ \E pc \in {"closeWrite"} \cup (IF w \in Askers THEN {"ask"} ELSE {}) :
                thread' = [thread EXCEPT ![Shell].pc = "closeWait",
                                         ![w].pc = pc, ![w].serving = TRUE]
    /\ UNCHANGED <<window, shdata, channelVars, requests, acts>>

CloseDone ==
    /\ At(Shell, "closeWait") /\ ~ thread[request.win].serving
    /\ Goto(Shell, "idle")
    /\ UNCHANGED <<window, shdata, channelVars, requests, acts>>

-----------------------------------------------------------------------------
Hook(w) == PosRead(w) \/ PosReport(w) \/ MinMaxRead(w) \/ MinMaxWrite(w)
           \/ MinMaxDo(w) \/ FocusAck(w) \/ CloseWrite(w) \/ CloseDo(w) \/ Ask(w)

SafeMoveWindow == MoveBlock \/ MoveSet \/ MoveAck \/ MoveCheck
                  \/ PosRead(Shell) \/ PosReport(Shell) \/ MoveUnblock
SafeSetState == StateCheck \/ StateShow \/ StateUnblock
SafeFocus == FocusBlock \/ FocusSend \/ FocusDone
do_destroy == CloseSend \/ CloseDone

Next ==
    \/ \E r \in Requests : Receive(r)
    \/ Process
    \/ SafeMoveWindow \/ SafeSetState \/ SafeFocus \/ do_destroy
    \/ \E w \in Windows : Hook(w) \/ AppMove(w) \/ AppState(w) \/ AppClose(w) \/ Answer(w)

\* Threads run, and windows attend to what is sent to them when they are idle;
\* they are so again and again, since what they do by themselves is bounded.  The
\* user may not answer.
Fairness ==
    /\ WF_vars(Process)
    /\ WF_vars(SafeMoveWindow \/ SafeSetState \/ SafeFocus \/ do_destroy)
    /\ \A w \in Windows : WF_vars(Hook(w))

Spec == Init /\ [][Next]_vars /\ Fairness

-----------------------------------------------------------------------------
(* Properties.                                                             *)

\* What the client has last been told of a window: a report, or the
\* acknowledgement that it is as the client wanted it.
IsAbout(m, kind, w) ==
    \/ m.kind = kind /\ m.win = w
    \/ /\ m.kind = "ACK" /\ m.serial # 0
       /\ requests[m.serial].kind = kind /\ requests[m.serial].win = w
Told(kind, w, before) ==
    LET n == SelectLastInSeq(log, LAMBDA m : IsAbout(m, kind, w))
    IN  IF n = 0 THEN before
        ELSE IF log[n].kind = "ACK" THEN requests[log[n].serial].arg ELSE log[n].arg

\* Neither the shell nor the window's thread has anything to do or to report.
Settled(w) == At(Shell, "idle") /\ At(w, "idle") /\ ~ Gone(w) /\ muted = {}

\* When things have settled, the client has a window that is not minimised
\* where it is: no report is swallowed by a block that was meant for the
\* shell's own move (line 176), and a window that did not go where it was told
\* is reported after the acknowledgement (line 661).  That the window does not
\* move back into the block by itself (MayReturn) is needed.
PositionMirror ==
    \A w \in Windows : Settled(w) /\ window[w].state # 1
                          => Told("POSITION", w, Frame(Start)) = Frame(window[w].pos)

\* As long as no process is mute, a request that has been carried out has been
\* acknowledged exactly once, by its own serial, whether the shell writes the
\* ACK (lines 657, 754) or a hook in another process does (lines 502, 554).
\* Not so for the state of a window that changes it by itself in the middle; and
\* one that closes before it sees to the request may never acknowledge it.
AckedOnce ==
    muted = {} =>
        \A n \in DOMAIN requests :
            LET acks == Cardinality({i \in DOMAIN log : log[i] = Ack(n)})
            IN  \/ requests[n].kind = "STATE" /\ acts[requests[n].win] > 0
                \/ requests[n].kind = "DESTROY" /\ acks = 0
                \/ Gone(requests[n].win) /\ acks <= 1
                \/ acks <= 1 /\ (n < serial \/ At(Shell, "idle") => acks = 1)

\* A window that does as it is told and nothing by itself is not reported: its
\* changes are the client's own requests.  Only a change of state, which is
\* acknowledged, makes its new position worth a report, and of a request to close
\* it is the report that tells the client.
EchoIsBlocked ==
    \A i \in DOMAIN log, w \in Windows \ Unruly :
        log[i].kind # "ACK" /\ log[i].win = w /\ acts[w] = 0 =>
            \E n \in DOMAIN requests :
                /\ requests[n].win = w
                /\ <<log[i].kind, requests[n].kind>> \in
                       {<<"POSITION", "STATE">>, <<"DESTROY", "DESTROY">>}

\* The shell comes back from every request, also if the window's hook has to
\* wait for room in the ring that only the shell empties - unless the window asks
\* its user something on WM_CLOSE: nobody sees the question then, since it is the
\* shell, waiting in SendMessage (main.c line 325), that would tell the client.
CommandsReturn ==
    ~ At(Shell, "idle") ~> At(Shell, "idle") \/ \E w \in Windows : At(w, "asking")
=============================================================================
