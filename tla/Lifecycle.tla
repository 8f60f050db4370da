----------------------------- MODULE Lifecycle ------------------------------
(***************************************************************************)
(* How seamlessrdpshell, its 32-bit helper and the hook DLL come and go    *)
(* (WinMain in ServerExe/main.c and seamlessrdphook.c, DllMain in          *)
(* hookdll.c, vchannel_open and vchannel_close in vchannel.c), in one      *)
(* session.  Processes with the DLL are counted in shared memory, and that *)
(* count is all that keeps a second shell from starting.                   *)
(*                                                                         *)
(* The memory and the channel's objects live as long as a process has them *)
(* open; a process that detaches leaves its handles open (DllMain has lost *)
(* filemapping by then), so only its end closes them.                      *)
(***************************************************************************)
EXTENDS Integers, FiniteSets

CONSTANTS
    Shells,         \* processes of seamlessrdpshell
    Helpers,        \* processes of seamlessrdphook32
    HelperOf,       \* the one a shell starts
    Apps,           \* applications,
    Apps32,         \* those a helper's hooks are for
    MaxFailures,    \* bound: calls that fail when a process starts
    Killable,       \* processes that may be terminated from outside,
    MaxKills        \* bound: how many of them

Procs == Shells \cup Helpers \cup Apps

ASSUME ProcsAssumption ==
    /\ IsFiniteSet(Procs)
    /\ Shells \cap (Helpers \cup Apps) = {} /\ Helpers \cap Apps = {}
    /\ HelperOf \in [Shells -> Helpers]
    /\ \A s, t \in Shells : HelperOf[s] = HelperOf[t] => s = t
    /\ Apps32 \subseteq Apps /\ Killable \subseteq Procs
    /\ MaxFailures \in Nat /\ MaxKills \in Nat

VARIABLES
    pc,             \* where each process is
    count,          \* instance_count
    mapped,         \* processes with g_shdata
    held,           \* processes with an open handle of that memory
    stale,          \* history: counted ones that were terminated
    hooks,          \* processes whose SetHooks is in force
    chan,           \* processes with the channel's objects open
    asked,          \* helpers with a WM_CLOSE in their queue
    accepted,       \* shells that have passed the check
    failed,         \* processes for which a call has failed
    kills           \* processes terminated from outside

vars == <<pc, count, mapped, held, stale, hooks, chan, asked, accepted, failed, kills>>

Init ==
    /\ pc = [p \in Procs |-> IF p \in Apps THEN "run" ELSE "off"]
    /\ count = 0 /\ kills = 0
    /\ mapped = {} /\ held = {} /\ stale = {} /\ hooks = {}
    /\ chan = {} /\ asked = {} /\ accepted = {} /\ failed = {}

Goto(p, l) == pc' = [pc EXCEPT ![p] = l]
At(p, l) == pc[p] = l
MayFail == Cardinality(failed) < MaxFailures
Fails(p) == MayFail /\ failed' = failed \cup {p}

\* Is there a hook that brings the DLL into application a?
Hooked(a) == hooks \cap (IF a \in Apps32 THEN Helpers ELSE Shells) # {}

-----------------------------------------------------------------------------
(* DllMain.                                                                *)

\* DLL_PROCESS_ATTACH.  If the mutex or the memory cannot be had the DLL stays
\* in all the same, but it is not counted; the handle of the memory may be there.
Attach(p, next) ==
    /\ Goto(p, next)
    /\ \/ /\ count' = count + 1 /\ mapped' = mapped \cup {p} /\ held' = held \cup {p}
          /\ UNCHANGED failed
       \/ Fails(p) /\ held' \in {held, held \cup {p}} /\ UNCHANGED <<count, mapped>>
    /\ UNCHANGED <<stale, hooks, chan, asked, accepted, kills>>

\* DLL_PROCESS_DETACH: first a DESTROYGRP is written, if there is a channel ...
DetachWrite(p) ==
    /\ At(p, "write") /\ Goto(p, "uncount")
    /\ chan' = IF chan = {} THEN {} ELSE chan \cup {p}
    /\ UNCHANGED <<count, mapped, held, stale, hooks, asked, accepted, failed, kills>>

\* The count is lowered also by a process that has not been counted.
Uncount_(p, next) ==
    /\ At(p, "uncount") /\ Goto(p, next)
    /\ count' = count - 1
    /\ mapped' = mapped \ {p}
    /\ UNCHANGED <<held, stale, hooks, chan, asked, accepted, failed, kills>>
\* ... then the process is no longer counted.
Uncount(p, next) ==
    /\ At(p, "uncount") /\ Goto(p, next)
    /\ count' = IF p \in mapped THEN count - 1 ELSE count
    /\ mapped' = mapped \ {p}
    /\ UNCHANGED <<held, stale, hooks, chan, asked, accepted, failed, kills>>

\* The end of a process: the system removes its hooks and closes its handles.
\* With the last handle the shared memory is gone, and with it the count.
Die(p) ==
    /\ Goto(p, "dead")
    /\ held' = held \ {p} /\ mapped' = mapped \ {p}
    /\ count' = IF held' = {} THEN 0 ELSE count
    /\ stale' = IF held' = {} THEN {} ELSE stale \cup (mapped \cap {p})
    /\ hooks' = hooks \ {p} /\ chan' = chan \ {p} /\ asked' = asked \ {p}

Kill(p) ==
    /\ kills < MaxKills /\ pc[p] \notin {"off", "dead"}
    /\ kills' = kills + 1
    /\ Die(p) /\ UNCHANGED <<accepted, failed>>

-----------------------------------------------------------------------------
(* seamlessrdpshell.                                                       *)

Load(s) == At(s, "off") /\ Attach(s, "check")

\* GetInstanceCount: 0 if the DLL has not been initialized.
GetInstanceCount(p) == IF p \in mapped THEN count ELSE 0

\* Any count is good that shows that the DLL has been initialized.
Check_(s) ==
    /\ At(s, "check")
    /\ IF GetInstanceCount(s) # 0
       THEN Goto(s, "create") /\ accepted' = accepted \cup {s}
       ELSE Goto(s, "write") /\ UNCHANGED accepted
    /\ UNCHANGED <<count, mapped, held, stale, hooks, chan, asked, failed, kills>>
Check(s) ==
    /\ At(s, "check")
    /\ IF GetInstanceCount(s) = 1
       THEN Goto(s, "create") /\ accepted' = accepted \cup {s}
       ELSE Goto(s, "write") /\ UNCHANGED accepted
    /\ UNCHANGED <<count, mapped, held, stale, hooks, chan, asked, failed, kills>>

\* vchannel_close: what vchannel_open has got before it failed is given back.
vchannel_close(s) == chan' = chan \ {s}

\* vchannel_open: the objects are created, or opened if they are there still ...
Create(s) ==
    /\ At(s, "create")
    /\ \/ Goto(s, "reset") /\ chan' = chan \cup {s} /\ UNCHANGED failed
       \/ Goto(s, "launch") /\ Fails(s) /\ vchannel_close(s)
    /\ UNCHANGED <<count, mapped, held, stale, hooks, asked, accepted, kills>>

\* ... then pw and pr are set to 0.
Reset(s) ==
    /\ At(s, "reset") /\ Goto(s, "launch")
    /\ UNCHANGED <<count, mapped, held, stale, hooks, chan, asked, accepted, failed, kills>>

launch_app(s, next) ==
    \/ pc' = [pc EXCEPT ![s] = next, ![HelperOf[s]] = "load"] /\ UNCHANGED failed
    \/ Goto(s, next) /\ Fails(HelperOf[s])

\* The helper may take longer than the shell waits for it.
launch_helper(s) ==
    /\ At(s, "launch") /\ launch_app(s, "hook")
    /\ UNCHANGED <<count, mapped, held, stale, hooks, chan, asked, accepted, kills>>

SetHooks(p) ==
    /\ At(p, "hook") /\ Goto(p, "loop")
    /\ hooks' = hooks \cup {p}
    /\ UNCHANGED <<count, mapped, held, stale, chan, asked, accepted, failed, kills>>

\* The main loop ends.  Without a helper there is nobody to ask.
RemoveHooks(s) ==
    /\ At(s, "loop") /\ s \in chan
    /\ Goto(s, IF At(HelperOf[s], "off") THEN "write" ELSE "ask")
    /\ hooks' = hooks \ {s}
    /\ UNCHANGED <<count, mapped, held, stale, chan, asked, accepted, failed, kills>>

\* vchannel_process asserts that the channel is open; the process exits.
Abort(s) ==
    /\ At(s, "loop") /\ s \notin chan
    /\ Goto(s, "write")
    /\ UNCHANGED <<count, mapped, held, stale, hooks, chan, asked, accepted, failed, kills>>

\* kill_15_9: WM_CLOSE is posted if the helper has its window ...
Ask(s) ==
    /\ At(s, "ask") /\ Goto(s, "wait")
    /\ asked' = IF At(HelperOf[s], "loop") THEN asked \cup {HelperOf[s]} ELSE asked
    /\ UNCHANGED <<count, mapped, held, stale, hooks, chan, accepted, failed, kills>>

\* ... and after HELPER_TIMEOUT it is terminated, wherever it is.
Terminate(s) ==
    /\ At(s, "wait") /\ ~ At(HelperOf[s], "dead")
    /\ Die(HelperOf[s]) /\ UNCHANGED <<accepted, failed, kills>>

\* The shell does not wait for the helper.
HelperGone_(s) == TRUE
HelperGone(s) == At(HelperOf[s], "dead")

Wait(s) ==
    /\ At(s, "wait") /\ HelperGone(s) /\ Goto(s, "write")
    /\ UNCHANGED <<count, mapped, held, stale, hooks, chan, asked, accepted, failed, kills>>

\* Or the wait fails, or TerminateProcess does, and the helper stays.
GiveUp(s) ==
    /\ At(s, "wait") /\ ~ At(HelperOf[s], "dead")
    /\ Goto(s, "write") /\ Fails(s)
    /\ UNCHANGED <<count, mapped, held, stale, hooks, chan, asked, accepted, kills>>

\* After ExitWindows, which other processes may survive or not, the process ends.
Exit(p) == At(p, "end") /\ Die(p) /\ UNCHANGED <<accepted, failed, kills>>

FreeLibrary(p) == DetachWrite(p) \/ Uncount(p, "end")

Shell(s) ==
    \/ Check(s) \/ Create(s) \/ Reset(s) \/ launch_helper(s) \/ SetHooks(s)
    \/ Abort(s) \/ Ask(s) \/ Terminate(s) \/ Wait(s) \/ GiveUp(s) \/ FreeLibrary(s) \/ Exit(s)

-----------------------------------------------------------------------------
(* seamlessrdphook32.                                                      *)

\* The window's procedure has ended the message loop.
Close(h) ==
    /\ At(h, "loop") /\ h \in asked /\ Goto(h, "write")
    /\ UNCHANGED <<count, mapped, held, stale, hooks, chan, asked, accepted, failed, kills>>

Helper(h) ==
    \/ At(h, "load") /\ Attach(h, "hook")
    \/ SetHooks(h) \/ Close(h) \/ FreeLibrary(h) \/ Exit(h)

-----------------------------------------------------------------------------
(* Applications.                                                           *)

\* The next message brings the DLL in, and the channel with its first report.
Inject(a) == At(a, "run") /\ Hooked(a) /\ Attach(a, "in")

Report(a) ==
    /\ At(a, "in") /\ chan # {} /\ a \notin chan
    /\ chan' = chan \cup {a}
    /\ UNCHANGED <<pc, count, mapped, held, stale, hooks, asked, accepted, failed, kills>>

\* The count is lowered before the DESTROYGRP.
Leave_(a) ==
    /\ At(a, "in") /\ Goto(a, "write")
    /\ count' = IF a \in mapped THEN count - 1 ELSE count
    /\ mapped' = mapped \ {a}
    /\ UNCHANGED <<held, stale, hooks, chan, asked, accepted, failed, kills>>
\* Without hooks the next message takes it out again, and so does the end of the
\* application.
Leave(a) ==
    /\ At(a, "in") /\ Goto(a, "write")
    /\ UNCHANGED <<count, mapped, held, stale, hooks, chan, asked, accepted, failed, kills>>

Left(a) ==
    \/ DetachWrite(a)
    \/ (~ Hooked(a) /\ Uncount(a, "run"))
    \/ Uncount(a, "end") \/ Exit(a)

Quit(a) == At(a, "run") /\ Die(a) /\ UNCHANGED <<accepted, failed, kills>>

App(a) == Inject(a) \/ Report(a) \/ Leave(a) \/ Left(a) \/ Quit(a)

-----------------------------------------------------------------------------
Next ==
    \/ \E s \in Shells : Load(s) \/ Shell(s) \/ RemoveHooks(s)
    \/ \E h \in Helpers : Helper(h)
    \/ \E a \in Apps : App(a)
    \/ \E p \in Killable : Kill(p)

\* Shells, helpers and applications that are in the DLL go on; an unhooked
\* application gets a message.  A shell need not be started, nor its loop end.
Fairness ==
    /\ \A s \in Shells : WF_vars(Shell(s))
    /\ \A h \in Helpers : WF_vars(Helper(h))
    /\ \A a \in Apps : WF_vars(Left(a)) /\ WF_vars(~ Hooked(a) /\ Leave(a))

Spec == Init /\ [][Next]_vars /\ Fairness

-----------------------------------------------------------------------------
(* Properties.                                                             *)

ShellPcs == {"off", "check", "create", "reset", "launch", "hook", "loop", "ask",
             "wait", "write", "uncount", "end", "dead"}
HelperPcs == {"off", "load", "hook", "loop", "write", "uncount", "end", "dead"}
AppPcs == {"run", "in", "write", "uncount", "end", "dead"}

\* Types.
TypeOK ==
    /\ pc \in [Procs -> ShellPcs \cup HelperPcs \cup AppPcs]
    /\ \A s \in Shells : pc[s] \in ShellPcs
    /\ \A h \in Helpers : pc[h] \in HelperPcs
    /\ \A a \in Apps : pc[a] \in AppPcs
    /\ count \in Nat /\ kills \in Nat
    /\ mapped \subseteq held /\ held \subseteq Procs /\ stale \subseteq Procs
    /\ hooks \subseteq Shells \cup Helpers /\ chan \subseteq Procs /\ asked \subseteq Helpers
    /\ accepted \subseteq Shells /\ failed \subseteq Procs

\* instance_count counts the processes that have the DLL, and besides only those
\* that were terminated in it, until the memory goes: it is never too low, so
\* that another shell is not overlooked, and with no terminated process not too
\* high (hookdll.c lines 817 and 837).
CountIsExact == count = Cardinality(mapped \cup stale)

Running(s) == s \in accepted /\ pc[s] \notin {"end", "dead"}

\* Two shells never get past the check, whenever they are started (main.c lines
\* 711-722: the count is looked at some time after it was raised).
AtMostOneShell == \A s, t \in Shells : Running(s) /\ Running(t) => s = t

\* May p write to the ring now?
Writes(p) == pc[p] \in {"in", "hook", "loop", "write"}

\* What a shell that did not end in the regular way has left running.
Ended(s) == pc[s] \in {"end", "dead"}
Leftovers ==
    {s \in Shells : Ended(s) /\ s \in hooks}
    \cup {h \in Helpers : pc[h] \notin {"off", "dead"}
                          /\ \E s \in Shells : HelperOf[s] = h /\ Ended(s)}

\* Who may write to the ring while a shell sets pw and pr to 0 (vchannel.c line
\* 161, without the mutex).  At the check nobody is writing, for a process is
\* counted until it has written its DESTROYGRP, unless it could not be counted at
\* all.  Between the check and the reset there can be two: what a shell that
\* ended irregularly, or could not end its helper, has left running; and a second
\* shell that the check turns away, with its DESTROYGRP (hookdll.c line 831).
WritersAtReset ==
    [][\A s \in Shells, p \in Procs :
          /\ (At(s, "check") /\ pc'[s] = "create") => (Writes(p) => p \in failed)
          /\ (pc[s] \in {"create", "reset"} /\ ~ Writes(p) /\ Writes(p)')
                => Leftovers # {} \/ (p \in Shells /\ At(p, "check"))
      ]_vars

\* When a shell has ended its helper, no application keeps the DLL, unless the
\* hooks of somebody else bring it there (main.c lines 809-817: the helper's hooks
\* are not removed, so it must not survive).  One whose wait for the helper, or
\* TerminateProcess, has failed has not ended it (lines 642-648).
HooksAreRemoved ==
    \A s \in Shells :
        (s \in accepted \ failed /\ At(s, "write") /\ s \in chan) ~>
            \/ \A a \in Apps : ~ At(a, "in")
            \/ hooks \ {s, HelperOf[s]} # {}
=============================================================================
