------------------------------ MODULE ShellLoop ------------------------------
(***************************************************************************)
(* The shell's main loop (WinMain, ServerExe/main.c) against the session   *)
(* it runs in: the connection and the desktop are polled, the client is    *)
(* told of changes through the ring and the virtual channel, and the shell *)
(* ends, logging the user off, when there is nothing left to stay for.     *)
(***************************************************************************)
EXTENDS Integers, FiniteSetsExt, SequencesExt

CONSTANTS
    Pids,               \* ids a process of the session can have
    Startup,            \* those that run before the shell's loop,
    PidReuse,           \* can an id in its list be given to another process later?
    CHECK,              \* turns between two evaluations of should_terminate
    SESSION_TIMEOUT,    \* in ticks of time()
    MaxConnections,     \* bound: connections of clients to the session
    MaxFailures         \* bound: failing queries and openings of the channel

ASSUME LoopAssumption ==
    /\ Startup \subseteq Pids /\ PidReuse \in BOOLEAN
    /\ CHECK \in Nat /\ SESSION_TIMEOUT \in Nat \ {0}
    /\ MaxConnections \in Nat \ {0} /\ MaxFailures \in Nat

VARIABLES
    connected,      \* is the session active?
    connection,     \* the number of its current or last connection
    hidden,         \* is another desktop shown, of the system?
    procs,          \* what runs under each id
    failures,       \* queries and openings that have failed
    \* the shell:
    pc, check_counter,
    g_connected, g_desktop_hidden, g_persistent_mode,
    startup_procs,  \* g_startup_procs
    disconnect_age, \* time since g_session_disconnect_ts, if it is not 0
    mbox,           \* a message box: none, in a new thread, or counted
    g_vchannel,     \* the connection that the channel was opened on, or 0
    g_buffer,       \* has vchannel_open made the ring and its objects?
    ring,           \* the shell's messages in the ring
    announced,      \* evwr
    listed,         \* what WTSEnumerateProcesses has found, until it is freed
    \* the client:
    client,         \* what it has been told on its connection
    \* history:
    missed,         \* the current connection replaced one the shell thinks it has
    unseen,         \* like disconnect_age, since a poll last found the session active
    fresh,          \* the processes that were started after the list was made
    reason          \* why the shell has ended

sessionVars == <<connected, connection, hidden, procs, failures>>
knownVars == <<g_connected, g_desktop_hidden, g_persistent_mode, startup_procs>>
channelVars == <<g_vchannel, g_buffer, ring, announced, client>>
endVars == <<listed, fresh, reason>>
timeVars == <<disconnect_age, unseen>>
vars == <<sessionVars, pc, check_counter, knownVars, timeVars, mbox, channelVars, missed, endVars>>

Never == -1     \* g_session_disconnect_ts = 0
Unaware == [hello |-> FALSE, hidden |-> FALSE]
Freed == [pid \in Pids |-> "none"]

Init ==
    /\ connected \in BOOLEAN /\ connection = 1
    /\ hidden \in BOOLEAN
    /\ procs = [pid \in Pids |-> IF pid \in Startup THEN "old" ELSE "none"]
    /\ failures = 0
    /\ pc = "open" /\ check_counter = CHECK
    /\ g_connected = FALSE /\ g_desktop_hidden = FALSE /\ g_persistent_mode = FALSE
    /\ startup_procs = {}
    /\ disconnect_age = Never /\ unseen = 0
    /\ mbox = "none"
    /\ g_vchannel = 0 /\ g_buffer = FALSE /\ ring = <<>> /\ announced = FALSE
    /\ client = Unaware
    /\ listed = Freed /\ fresh = {}
    /\ missed = FALSE /\ reason = "none"

-----------------------------------------------------------------------------
(* The session.                                                            *)

Running == pc # "ended"

\* The client goes away; its connection may just be lost.
Disconnect ==
    /\ Running /\ connected
    /\ connected' = FALSE /\ client' = Unaware
    /\ UNCHANGED <<connection, hidden, procs, failures, pc, check_counter, knownVars, timeVars,
                   mbox, g_vchannel, g_buffer, ring, announced, missed, endVars>>

Reconnect ==
    /\ Running /\ ~ connected /\ connection < MaxConnections
    /\ connected' = TRUE /\ connection' = connection + 1
    /\ missed' = g_connected
    /\ UNCHANGED <<hidden, procs, failures, pc, check_counter, knownVars, timeVars, mbox,
                   channelVars, endVars>>

\* The desktop of the log-on, of a screen saver or of a consent prompt.
SwitchDesktop ==
    /\ Running /\ hidden' = ~ hidden
    /\ UNCHANGED <<connected, connection, procs, failures, pc, check_counter, knownVars,
                   timeVars, mbox, channelVars, missed, endVars>>

\* A process starts another one, of a name that counts or not, or ends.
NewProcess(pid) ==
    /\ procs[pid] = "none" /\ (pid \in startup_procs => PidReuse)
    /\ \E name \in {"app", "system"} : procs' = [procs EXCEPT ![pid] = name]
    /\ fresh' = IF pc = "walk" THEN fresh \cup {pid} ELSE {}
ProcessStarts(pid) ==
    /\ Running /\ pc \notin {"open", "start"}
    /\ \E p \in Pids : procs[p] \in {"old", "app"}
    /\ NewProcess(pid)
    /\ UNCHANGED <<connected, connection, hidden, failures, pc, check_counter, knownVars,
                   timeVars, mbox, channelVars, missed, listed, reason>>
ProcessEnds(pid) ==
    /\ Running /\ procs[pid] # "none"
    /\ procs' = [procs EXCEPT ![pid] = "none"]
    /\ UNCHANGED <<connected, connection, hidden, failures, pc, check_counter, knownVars,
                   timeVars, mbox, channelVars, missed, endVars>>

\* Time matters, and is counted, while g_session_disconnect_ts is set.
Older(age) == Min({age + 1, SESSION_TIMEOUT})
Tick ==
    /\ Running /\ disconnect_age # Never
    /\ disconnect_age' = Older(disconnect_age) /\ unseen' = Older(unseen)
    /\ UNCHANGED <<sessionVars, pc, check_counter, knownVars, mbox, channelVars, missed, endVars>>

-----------------------------------------------------------------------------
(* Queries.                                                                *)

Fail == failures < MaxFailures /\ failures' = failures + 1

\* The desktop that gets the input cannot be opened if it is the system's.
is_desktop_hidden == hidden

\* A query that fails counts as connected.
is_connected(res) == \/ res = connected /\ UNCHANGED failures
                     \/ res = TRUE /\ Fail

-----------------------------------------------------------------------------
(* The channel, as far as the shell itself uses it.                        *)

\* Without a ring the shell mutes itself with its first message.
vchannel_write(m) ==
    IF g_buffer THEN ring' = Append(ring, m) /\ announced' = TRUE
    ELSE UNCHANGED <<ring, announced>>

\* A channel can be opened if there is a client; a failure leaves none.
Handle == IF connected THEN connection ELSE 0
WTSVirtualChannelOpen == \/ g_vchannel' = Handle /\ UNCHANGED failures
                         \/ g_vchannel' = 0 /\ Fail

Told(m) == CASE m.kind = "HELLO" -> [hello |-> TRUE, hidden |-> m.hidden]
             [] m.kind = "HIDE" -> [client EXCEPT !.hidden = TRUE]
             [] m.kind = "UNHIDE" -> [client EXCEPT !.hidden = FALSE]

Arrives == connected /\ g_vchannel = connection

\* One round of vchannel_process: a message gets to the client, or is lost, and
\* if the write fails the loop is left with the others in the ring.
ProcessMessage ==
    /\ pc = "process" /\ g_vchannel # 0 /\ announced /\ ring # <<>>
    /\ ring' = Tail(ring)
    /\ IF Arrives THEN client' = Told(Head(ring)) /\ UNCHANGED <<pc, announced>>
       ELSE /\ UNCHANGED client
            /\ \/ UNCHANGED <<pc, announced>>
               \/ pc' = "commands" /\ announced' = FALSE
    /\ UNCHANGED <<sessionVars, check_counter, knownVars, timeVars, mbox, g_vchannel, g_buffer,
                   missed, endVars>>

\* The shell is aborted by the assertion that the channel is open.
Abort ==
    /\ pc = "process" /\ g_vchannel = 0
    /\ pc' = "ended" /\ reason' = "assertion"
    /\ UNCHANGED <<sessionVars, check_counter, knownVars, timeVars, mbox, channelVars, missed,
                   listed, fresh>>

ProcessDone ==
    /\ pc = "process" /\ g_vchannel # 0 /\ (announced => ring = <<>>)
    /\ pc' = "commands" /\ announced' = FALSE
    /\ UNCHANGED <<sessionVars, check_counter, knownVars, timeVars, mbox, g_vchannel, g_buffer,
                   ring, client, missed, endVars>>

-----------------------------------------------------------------------------
(* Before the loop.                                                        *)

\* The result of vchannel_open is not looked at.
Open ==
    /\ pc = "open" /\ pc' = "start"
    /\ WTSVirtualChannelOpen /\ g_buffer' = (g_vchannel' # 0)
    /\ UNCHANGED <<connected, connection, hidden, procs, check_counter, knownVars, timeVars, mbox, ring, announced,
                   client, missed, endVars>>

\* build_startup_procs; if it fails the list is empty.
build_startup_procs ==
    \/ startup_procs' = {pid \in Pids : procs[pid] # "none"}
    \/ startup_procs' = {}

\* The first poll, the first HELLO, and the variables of the loop.
Start ==
    /\ pc = "start" /\ pc' = "check"
    /\ build_startup_procs
    /\ \E res \in BOOLEAN : is_connected(res) /\ g_connected' = res
    /\ g_desktop_hidden' = is_desktop_hidden
    /\ vchannel_write([kind |-> "HELLO", hidden |-> g_desktop_hidden'])
    /\ missed' = (g_connected' /\ g_vchannel # Handle)
    /\ disconnect_age' = Never /\ unseen' = 0
    /\ g_persistent_mode' = TRUE /\ check_counter' = CHECK
    /\ UNCHANGED <<connected, connection, hidden, procs, mbox, g_vchannel, g_buffer,
                   client, endVars>>

-----------------------------------------------------------------------------
(* The loop.                                                               *)

\* Is there a process to stay for?  Nor do those count that were there before.
Occupied(list) ==
    \E pid \in Pids : list[pid] \notin {"none", "system"} /\ pid \notin startup_procs

Go(label, why) == pc' = label /\ reason' = why /\ UNCHANGED failures
Stay == Go("poll", "none")

\* The list of processes is made at once, and looked through afterwards.
WTSEnumerateProcesses ==
    \/ pc' = "walk" /\ listed' = procs /\ fresh' = {} /\ UNCHANGED <<failures, reason>>
    \/ pc' = "ended" /\ reason' = "failure" /\ Fail /\ UNCHANGED <<listed, fresh>>

\* g_connected and the time stamp are those of the last poll.
should_terminate ==
    IF ~ g_connected /\ g_persistent_mode
    THEN /\ IF disconnect_age = SESSION_TIMEOUT THEN Go("ended", "timeout") ELSE Stay
         /\ UNCHANGED <<listed, fresh>>
    ELSE IF g_persistent_mode \/ mbox = "counted" THEN Stay /\ UNCHANGED <<listed, fresh>>
    ELSE WTSEnumerateProcesses

CheckTerminate ==
    /\ pc = "check" /\ check_counter = 0
    /\ check_counter' = -1
    /\ should_terminate
    /\ UNCHANGED <<connected, connection, hidden, procs, knownVars, timeVars, mbox, channelVars,
                   missed>>

\* build_system_procs: a process of one of the names in the registry, or of two
\* others if there are none, does not count.
Walk ==
    /\ pc = "walk"
    /\ IF Occupied(listed) THEN Stay /\ fresh' = {}
       ELSE Go("ended", "nothing runs") /\ UNCHANGED fresh
    /\ listed' = Freed
    /\ UNCHANGED <<connected, connection, hidden, procs, check_counter, knownVars, timeVars, mbox,
                   channelVars, missed>>

CheckCounter ==
    /\ pc = "check" /\ check_counter # 0
    /\ check_counter' = check_counter - 1
    /\ pc' = "poll"
    /\ UNCHANGED <<sessionVars, knownVars, timeVars, mbox, channelVars, missed, endVars>>

\* The time of a disconnection is that of the last turn, not of the first.
Disconnected_(res) == IF res THEN Never ELSE 0
\* A reconnection does not end the time.
NotReset_(res) == IF disconnect_age = Never /\ ~ res THEN 0 ELSE disconnect_age
DisconnectAge(res) ==
    IF res THEN Never ELSE IF disconnect_age = Never THEN 0 ELSE disconnect_age

\* g_connected is set at the end of the turn; nothing reads it before.
Poll ==
    /\ pc = "poll"
    /\ \E res \in BOOLEAN :
          /\ is_connected(res)
          /\ disconnect_age' = DisconnectAge(res)
          /\ unseen' = IF res THEN 0 ELSE unseen
          /\ IF res /\ ~ g_connected THEN pc' = "reopen" /\ UNCHANGED g_connected
             ELSE pc' = "desktop" /\ g_connected' = res
    /\ UNCHANGED <<connected, connection, hidden, procs, check_counter, g_desktop_hidden,
                   g_persistent_mode, startup_procs, mbox, channelVars, missed, endVars>>

\* The channel is not opened again.
Reopen_ ==
    /\ pc = "reopen" /\ pc' = "hello"
    /\ g_persistent_mode' = TRUE /\ g_connected' = TRUE
    /\ UNCHANGED <<sessionVars, check_counter, g_desktop_hidden, startup_procs, timeVars, mbox,
                   channelVars, missed, endVars>>

Reopen ==
    /\ pc = "reopen" /\ pc' = "hello"
    /\ g_persistent_mode' = TRUE /\ g_connected' = TRUE
    /\ WTSVirtualChannelOpen
    /\ missed' = ~ connected
    /\ UNCHANGED <<connected, connection, hidden, procs, check_counter, g_desktop_hidden, startup_procs, timeVars, mbox,
                   g_buffer, ring, announced, client, endVars>>

\* SEAMLESS_HELLO_HIDDEN is not set.
Hello_ ==
    /\ pc = "hello" /\ pc' = "desktop"
    /\ vchannel_write([kind |-> "HELLO", hidden |-> FALSE])
    /\ UNCHANGED <<sessionVars, check_counter, knownVars, timeVars, mbox, g_vchannel, g_buffer,
                   client, missed, endVars>>

Hello ==
    /\ pc = "hello" /\ pc' = "desktop"
    /\ vchannel_write([kind |-> "HELLO", hidden |-> g_desktop_hidden])
    /\ UNCHANGED <<sessionVars, check_counter, knownVars, timeVars, mbox, g_vchannel, g_buffer,
                   client, missed, endVars>>

Desktop ==
    /\ pc = "desktop" /\ pc' = "process"
    /\ IF check_counter < 0
       THEN /\ IF is_desktop_hidden # g_desktop_hidden
               THEN vchannel_write([kind |-> IF is_desktop_hidden THEN "HIDE" ELSE "UNHIDE"])
               ELSE UNCHANGED <<ring, announced>>
            /\ g_desktop_hidden' = is_desktop_hidden
            /\ check_counter' = CHECK
       ELSE UNCHANGED <<ring, announced, g_desktop_hidden, check_counter>>
    /\ UNCHANGED <<sessionVars, g_connected, g_persistent_mode, startup_procs, timeVars, mbox,
                   g_vchannel, g_buffer, client, missed, endVars>>

launch_appW == \E pid \in Pids : NewProcess(pid)

\* A new process, or a message box.
do_spawn ==
    \/ launch_appW /\ UNCHANGED <<g_persistent_mode, mbox>>
    \/ mbox = "none" /\ mbox' = "thread" /\ UNCHANGED <<procs, fresh, g_persistent_mode>>

do_persistent(enable) == g_persistent_mode' = enable /\ UNCHANGED <<procs, fresh, mbox>>

\* process_cmds, as many rounds as the client has commands.
Command ==
    /\ pc = "commands" /\ Arrives
    /\ do_spawn \/ \E enable \in BOOLEAN : do_persistent(enable)
    /\ UNCHANGED <<connected, connection, hidden, failures, pc, check_counter, g_connected,
                   g_desktop_hidden, startup_procs, timeVars, channelVars, missed, listed, reason>>
CommandsDone ==
    /\ pc = "commands" /\ pc' = "check"
    /\ UNCHANGED <<sessionVars, check_counter, knownVars, timeVars, mbox, channelVars, missed,
                   endVars>>

\* mbox_thread: the box is counted when its thread runs.
MessageBox ==
    /\ Running
    /\ \/ mbox = "thread" /\ mbox' = "counted"
       \/ mbox = "counted" /\ mbox' = "none"
    /\ UNCHANGED <<sessionVars, pc, check_counter, knownVars, timeVars, channelVars, missed,
                   endVars>>

-----------------------------------------------------------------------------
Turn == \/ Open \/ Start \/ CheckTerminate \/ Walk \/ CheckCounter \/ Poll \/ Reopen \/ Hello
        \/ Desktop \/ ProcessMessage \/ ProcessDone \/ Abort \/ CommandsDone

Next ==
    \/ Turn \/ Command \/ MessageBox \/ Tick
    \/ Disconnect \/ Reconnect \/ SwitchDesktop
    \/ \E pid \in Pids : ProcessStarts(pid) \/ ProcessEnds(pid)

\* The loop goes round, time passes, and a new thread gets to run.
Fairness == WF_vars(Turn) /\ WF_vars(Tick) /\ WF_vars(mbox = "thread" /\ MessageBox)

Spec == Init /\ [][Next]_vars /\ Fairness

-----------------------------------------------------------------------------
(* Properties.                                                             *)

\* Between two turns, a client on the channel that the shell has open, of a
\* session that it knows to be connected, has been greeted and knows whether the
\* desktop is hidden as well as the shell does: although HIDE and UNHIDE are
\* sent on changes only and get lost while nobody is there (lines 787-793), the
\* HELLO of a reconnection (lines 776-780) makes up for it.  A shell whose
\* vchannel_open has failed and that a client has saved from the assertion, by
\* coming before the first turn has got there, says nothing to anybody.
ClientKnowsHidden ==
    pc = "check" /\ g_buffer /\ g_connected /\ Arrives /\ ring = <<>>
        => client = [hello |-> TRUE, hidden |-> g_desktop_hidden]

\* A session is not ended under an application that was started after the shell,
\* unless nobody was seen in it for SESSION_TIMEOUT, a query failed, or the shell
\* was aborted since the channel could not be opened - as it cannot when the
\* client of a poll is gone at the reopening.  Nor does the list of processes
\* show those that start while it is looked through: these are left, no others.
\* That no application got the id of an earlier process (PidReuse) is needed.
NoEarlyEnd ==
    pc = "ended" =>
        \/ reason = "timeout" /\ unseen = SESSION_TIMEOUT
        \/ reason = "failure" /\ failures > 0
        \/ reason = "assertion" /\ g_vchannel = 0
        \/ reason = "nothing runs" /\ \A pid \in Pids : procs[pid] = "app" => pid \in fresh

\* A client that comes back, other than behind the shell's back, is greeted on
\* its new channel if it stays, by a shell that has a ring and is not aborted.
ReturningClientIsGreeted ==
    connected ~> client.hello \/ ~ connected \/ missed \/ ~ Running
                    \/ (pc # "open" /\ ~ g_buffer)

\* When nobody comes back to a persistent session, or nothing runs in one that
\* is not, it is ended.
NothingToStayFor ==
    \/ ~ connected /\ g_persistent_mode
    \/ ~ g_persistent_mode /\ mbox = "none" /\ ~ Occupied(procs)
EndsAtLast == <>[](Running => NothingToStayFor) => <>(~ Running)
=============================================================================
