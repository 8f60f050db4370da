-------------------------- MODULE LifecycleProofs --------------------------
(***************************************************************************)
(* Proofs about Lifecycle, for any number of shells, helpers and           *)
(* applications, and whatever fails or is terminated.                      *)
(***************************************************************************)
EXTENDS Lifecycle, FiniteSetTheorems, TLAPS

\* Where a process has the DLL, and has not yet taken itself out of the count.
InDll == {"check", "create", "reset", "launch", "hook", "loop", "ask", "wait",
          "write", "uncount", "in"}
Early == {"off", "check", "create", "reset", "launch"}
PastCheck == {"create", "reset", "launch", "hook", "loop", "ask", "wait"}

\* Who is counted is in the DLL; who was terminated stays so.
Counted ==
    /\ count = Cardinality(mapped \cup stale)
    /\ \A p \in mapped : pc[p] \in InDll
    /\ \A p \in stale : pc[p] = "dead"

\* A process with the DLL that is not counted has failed to attach.
Uncounted == \A p \in Procs : pc[p] \in InDll /\ p \notin mapped => p \in failed

\* A shell that has passed the check stays in the count until its last steps.
Passed ==
    \A s \in Shells : /\ pc[s] \in PastCheck => s \in accepted
                      /\ Running(s) => s \in mapped

\* A helper runs only after its shell has got as far as to start it.
Started ==
    /\ \A s \in Shells : pc[s] \in Early => pc[HelperOf[s]] = "off"
    /\ \A h \in Helpers : pc[h] # "off" =>
          \E s \in Shells : HelperOf[s] = h /\ s \in accepted

\* Whose hooks are in force.
HooksOK ==
    /\ \A s \in hooks \cap Shells : s \in accepted /\ pc[s] \notin Early
    /\ \A h \in hooks \cap Helpers : pc[h] \notin {"off", "dead"}

IInv == TypeOK /\ Counted /\ Uncounted /\ Passed /\ AtMostOneShell /\ Started /\ HooksOK

-----------------------------------------------------------------------------
(* The steps, by what they do to the count and to the check.               *)

\* The DLL comes in.
Enters(p) ==
    \/ p \in Shells /\ pc[p] = "off" /\ Attach(p, "check")
    \/ p \in Helpers /\ pc[p] = "load" /\ Attach(p, "hook")
    \/ p \in Apps /\ pc[p] = "run" /\ Hooked(p) /\ Attach(p, "in")

\* It goes out.
Leaves(p) == Uncount(p, "end") \/ (p \in Apps /\ Uncount(p, "run"))

\* A process ends, or is terminated.
Ends(p) ==
    /\ Die(p) /\ UNCHANGED <<accepted, failed>>
    /\ pc[p] = "off" => \E s \in Shells : HelperOf[s] = p /\ pc[s] = "wait"

\* A process goes on from l to m within the DLL.
Moves == {<<"write", "uncount">>, <<"create", "reset">>, <<"create", "launch">>,
          <<"reset", "launch">>, <<"hook", "loop">>, <<"loop", "write">>,
          <<"loop", "ask">>, <<"ask", "wait">>, <<"wait", "write">>, <<"in", "write">>}
Walks(p) ==
    /\ \E l, m \in InDll : /\ <<l, m>> \in Moves /\ pc[p] = l
                           /\ pc' = [pc EXCEPT ![p] = m]
                           /\ p \in Shells \/ m \in {"loop", "write", "uncount"}
    /\ UNCHANGED <<count, mapped, held, stale, accepted>>
    /\ failed \subseteq failed'

countVars == <<pc, count, mapped, held, stale, accepted, failed>>

\* Every step is of one of these kinds, or changes nothing that matters here.
LEMMA StepKinds ==
    ASSUME TypeOK, [Next]_vars
    PROVE  \/ UNCHANGED countVars
           \/ \E p \in Procs : Enters(p) \/ Leaves(p) \/ Ends(p) \/ Walks(p)
           \/ \E s \in Shells : Check(s) \/ launch_helper(s)
<1> DEFINE Goal == \/ UNCHANGED countVars
                   \/ \E p \in Procs : Enters(p) \/ Leaves(p) \/ Ends(p) \/ Walks(p)
                   \/ \E s \in Shells : Check(s) \/ launch_helper(s)
<1>walk. ASSUME NEW p \in Procs, NEW l \in InDll, NEW m \in InDll, <<l, m>> \in Moves,
               p \in Shells \/ m \in {"loop", "write", "uncount"},
               At(p, l), Goto(p, m), failed \subseteq failed',
               UNCHANGED <<count, mapped, held, stale, accepted>>
        PROVE  Goal
  BY <1>walk DEF Walks, At, Goto
<1>lib. ASSUME NEW p \in Procs, FreeLibrary(p) PROVE Goal
  <2>1. CASE DetachWrite(p)
    BY <2>1, <1>walk DEF DetachWrite, Moves, InDll
  <2>2. CASE Uncount(p, "end")
    BY <2>2 DEF Leaves
  <2> QED BY <2>1, <2>2, <1>lib DEF FreeLibrary
<1>hook. ASSUME NEW p \in Procs, SetHooks(p) PROVE Goal
  BY <1>hook, <1>walk DEF SetHooks, Moves, InDll
<1>exit. ASSUME NEW p \in Procs, Exit(p) PROVE Goal
  BY <1>exit DEF Exit, Ends, At
<1>1. ASSUME NEW s \in Shells, Load(s) \/ Shell(s) \/ RemoveHooks(s) PROVE Goal
  <2>0. s \in Procs /\ HelperOf[s] \in Procs
    BY ProcsAssumption DEF Procs
  <2>1. CASE Load(s)
    BY <2>1, <2>0 DEF Load, Enters, At
  <2>2. CASE Check(s) \/ launch_helper(s)
    BY <2>2
  <2>3. CASE Create(s)
    BY <2>3, <2>0, <1>walk DEF Create, Fails, Moves, InDll
  <2>4. CASE Reset(s)
    BY <2>4, <2>0, <1>walk DEF Reset, Moves, InDll
  <2>5. CASE SetHooks(s)
    BY <2>5, <2>0, <1>hook
  <2>6. CASE Abort(s)
    BY <2>6, <2>0, <1>walk DEF Abort, Moves, InDll
  <2>7. CASE Ask(s)
    BY <2>7, <2>0, <1>walk DEF Ask, Moves, InDll
  <2>8. CASE Terminate(s)
    BY <2>8, <2>0 DEF Terminate, Ends, At
  <2>9. CASE Wait(s) \/ GiveUp(s)
    BY <2>9, <2>0, <1>walk DEF Wait, GiveUp, Fails, Moves, InDll
  <2>10. CASE FreeLibrary(s)
    BY <2>10, <2>0, <1>lib
  <2>11. CASE Exit(s)
    BY <2>11, <2>0, <1>exit
  <2>12. CASE RemoveHooks(s)
    BY <2>12, <2>0, <1>walk DEF RemoveHooks, Moves, InDll
  <2> QED BY <1>1, <2>1, <2>2, <2>3, <2>4, <2>5, <2>6, <2>7, <2>8, <2>9, <2>10,
             <2>11, <2>12 DEF Shell
<1>2. ASSUME NEW h \in Helpers, Helper(h) PROVE Goal
  <2>0. h \in Procs
    BY DEF Procs
  <2>1. CASE At(h, "load") /\ Attach(h, "hook")
    BY <2>1, <2>0 DEF Enters, At
  <2>2. CASE Close(h)
    BY <2>2, <2>0, <1>walk DEF Close, Moves, InDll
  <2> QED BY <1>2, <2>0, <2>1, <2>2, <1>lib, <1>hook, <1>exit DEF Helper
<1>3. ASSUME NEW a \in Apps, App(a) PROVE Goal
  <2>0. a \in Procs
    BY DEF Procs
  <2>1. CASE Inject(a)
    BY <2>1, <2>0 DEF Inject, Enters, At
  <2>2. CASE Report(a)
    BY <2>2 DEF Report, countVars
  <2>3. CASE Leave(a)
    BY <2>3, <2>0, <1>walk DEF Leave, Moves, InDll
  <2>4. CASE Left(a)
    <3>1. CASE DetachWrite(a)
      BY <3>1, <2>0, <1>lib DEF FreeLibrary
    <3>2. CASE Uncount(a, "run") \/ Uncount(a, "end")
      BY <3>2, <2>0 DEF Leaves
    <3> QED BY <2>4, <3>1, <3>2, <2>0, <1>exit DEF Left
  <2>5. CASE Quit(a)
    BY <2>5, <2>0 DEF Quit, Ends, At
  <2> QED BY <1>3, <2>1, <2>2, <2>3, <2>4, <2>5 DEF App
<1>4. ASSUME NEW p \in Killable, Kill(p) PROVE Goal
  BY <1>4, ProcsAssumption DEF Kill, Ends
<1>5. CASE UNCHANGED vars
  BY <1>5 DEF vars, countVars
<1> QED BY <1>1, <1>2, <1>3, <1>4, <1>5 DEF Next

-----------------------------------------------------------------------------
(* Types.                                                                  *)

Labels == ShellPcs \cup HelperPcs \cup AppPcs
PcOK ==
    /\ pc \in [Procs -> Labels]
    /\ \A s \in Shells : pc[s] \in ShellPcs
    /\ \A h \in Helpers : pc[h] \in HelperPcs
    /\ \A a \in Apps : pc[a] \in AppPcs
SetsOK ==
    /\ kills \in Nat
    /\ mapped \subseteq held /\ held \subseteq Procs /\ stale \subseteq Procs
    /\ hooks \subseteq Shells \cup Helpers /\ chan \subseteq Procs /\ asked \subseteq Helpers
    /\ accepted \subseteq Shells /\ failed \subseteq Procs

\* Types of the places, of the sets, and of the count.
LEMMA TypeOKSplits == TypeOK <=> PcOK /\ SetsOK /\ count \in Nat
BY DEF TypeOK, PcOK, SetsOK, Labels

\* A process is of one kind; every helper has one shell.
LEMMA KindsOfProcs ==
    /\ \A p \in Procs : p \in Shells \/ p \in Helpers \/ p \in Apps
    /\ \A s \in Shells : s \in Procs /\ s \notin Helpers /\ s \notin Apps
                         /\ HelperOf[s] \in Helpers /\ HelperOf[s] \in Procs
    /\ \A h \in Helpers : h \in Procs /\ h \notin Apps
    /\ \A a \in Apps : a \in Procs
    /\ \A s, t \in Shells : HelperOf[s] = HelperOf[t] => s = t
BY ProcsAssumption DEF Procs

\* One process goes to a place that its kind has.
LEMMA PcMoves ==
    ASSUME PcOK, NEW p \in Procs, NEW l, Goto(p, l),
           p \in Shells => l \in ShellPcs, p \in Helpers => l \in HelperPcs,
           p \in Apps => l \in AppPcs
    PROVE  PcOK'
BY KindsOfProcs DEF PcOK, Goto, Labels

\* Each process stays at places of its kind.
LEMMA PcStep ==
    ASSUME TypeOK, [Next]_vars
    PROVE  PcOK'
<1>0. PcOK
  BY TypeOKSplits
<1>1. CASE UNCHANGED countVars
  BY <1>0, <1>1 DEF PcOK, countVars
<1>2. ASSUME NEW p \in Procs, Enters(p) PROVE PcOK'
  BY <1>0, <1>2, PcMoves, KindsOfProcs
     DEF Enters, Attach, ShellPcs, HelperPcs, AppPcs
<1>3. ASSUME NEW p \in Procs, Leaves(p) PROVE PcOK'
  BY <1>0, <1>3, PcMoves, KindsOfProcs
     DEF Leaves, Uncount, ShellPcs, HelperPcs, AppPcs
<1>4. ASSUME NEW p \in Procs, Ends(p) PROVE PcOK'
  BY <1>0, <1>4, PcMoves, KindsOfProcs
     DEF Ends, Die, ShellPcs, HelperPcs, AppPcs
<1>5. ASSUME NEW p \in Procs, Walks(p) PROVE PcOK'
  <2>1. PICK l \in InDll, m \in InDll :
               /\ <<l, m>> \in Moves /\ pc[p] = l /\ Goto(p, m)
               /\ p \in Shells \/ m \in {"loop", "write", "uncount"}
    BY <1>5 DEF Walks, Goto
  <2>2. p \in Shells => l \in ShellPcs /\ m \in ShellPcs
    BY <2>1, <1>0 DEF PcOK, Moves, ShellPcs
  <2>3. p \in Helpers => m \in HelperPcs
    BY <2>1, KindsOfProcs DEF HelperPcs
  <2>4. p \in Apps => m \in AppPcs
    BY <2>1, <1>0, KindsOfProcs DEF PcOK, Moves, AppPcs
  <2> QED BY <1>0, <2>1, <2>2, <2>3, <2>4, PcMoves
<1>6. ASSUME NEW s \in Shells, Check(s) PROVE PcOK'
  BY <1>0, <1>6, PcMoves, KindsOfProcs DEF Check, ShellPcs
<1>7. ASSUME NEW s \in Shells, launch_helper(s) PROVE PcOK'
  <2>1. CASE Goto(s, "hook")
    BY <1>0, <2>1, PcMoves, KindsOfProcs DEF ShellPcs
  <2>2. CASE pc' = [pc EXCEPT ![s] = "hook", ![HelperOf[s]] = "load"]
    BY <1>0, <2>2, KindsOfProcs DEF PcOK, Labels, ShellPcs, HelperPcs
  <2> QED BY <1>7, <2>1, <2>2 DEF launch_helper, launch_app
<1> QED BY <1>1, <1>2, <1>3, <1>4, <1>5, <1>6, <1>7, StepKinds

\* The sets stay sets of processes of the right kinds.
LEMMA SetsStep ==
    ASSUME TypeOK, [Next]_vars
    PROVE  SetsOK'
<1>0. SetsOK
  BY TypeOKSplits
<1> USE DEF SetsOK
<1>attach. ASSUME NEW p \in Procs, NEW l, Attach(p, l) PROVE SetsOK'
  BY <1>0, <1>attach DEF Attach, Fails
<1>die. ASSUME NEW p \in Procs, Die(p), accepted' = accepted, failed' = failed, kills' \in Nat
        PROVE  SetsOK'
  BY <1>0, <1>die DEF Die
<1>exit. ASSUME NEW p \in Procs, Exit(p) PROVE SetsOK'
  BY <1>0, <1>exit, <1>die DEF Exit
<1>lib. ASSUME NEW p \in Procs, NEW l, DetachWrite(p) \/ Uncount(p, l) PROVE SetsOK'
  BY <1>0, <1>lib DEF DetachWrite, Uncount
<1>hook. ASSUME NEW p \in Shells \cup Helpers, SetHooks(p) PROVE SetsOK'
  BY <1>0, <1>hook DEF SetHooks
<1>1. ASSUME NEW s \in Shells, Load(s) \/ Shell(s) \/ RemoveHooks(s) PROVE SetsOK'
  <2>0. s \in Procs /\ HelperOf[s] \in Procs /\ HelperOf[s] \in Helpers
    BY KindsOfProcs
  <2>1. CASE Load(s)
    BY <2>1, <2>0, <1>attach DEF Load
  <2>2. CASE Check(s)
    BY <2>2, <1>0 DEF Check
  <2>3. CASE Create(s)
    BY <2>3, <2>0, <1>0 DEF Create, Fails, vchannel_close
  <2>4. CASE Reset(s) \/ Abort(s) \/ Wait(s)
    BY <2>4, <1>0 DEF Reset, Abort, Wait
  <2>5. CASE launch_helper(s)
    BY <2>5, <2>0, <1>0 DEF launch_helper, launch_app, Fails
  <2>6. CASE SetHooks(s)
    BY <2>6, <1>hook
  <2>7. CASE Ask(s)
    BY <2>7, <2>0, <1>0 DEF Ask
  <2>8. CASE Terminate(s)
    BY <2>8, <2>0, <1>0, <1>die DEF Terminate
  <2>9. CASE FreeLibrary(s)
    BY <2>9, <2>0, <1>lib DEF FreeLibrary
  <2>10. CASE Exit(s)
    BY <2>10, <2>0, <1>exit
  <2>11. CASE RemoveHooks(s)
    BY <2>11, <1>0 DEF RemoveHooks
  <2>12. CASE GiveUp(s)
    BY <2>12, <2>0, <1>0 DEF GiveUp, Fails
  <2> QED BY <1>1, <2>1, <2>2, <2>3, <2>4, <2>5, <2>6, <2>7, <2>8, <2>9, <2>10,
             <2>11, <2>12 DEF Shell
<1>2. ASSUME NEW h \in Helpers, Helper(h) PROVE SetsOK'
  <2>0. h \in Procs
    BY KindsOfProcs
  <2>1. CASE Close(h)
    BY <2>1, <1>0 DEF Close
  <2> QED BY <1>2, <2>0, <2>1, <1>attach, <1>lib, <1>hook, <1>exit DEF Helper, FreeLibrary
<1>3. ASSUME NEW a \in Apps, App(a) PROVE SetsOK'
  <2>0. a \in Procs
    BY KindsOfProcs
  <2>1. CASE Inject(a)
    BY <2>1, <2>0, <1>attach DEF Inject
  <2>2. CASE Report(a) \/ Leave(a)
    BY <2>2, <2>0, <1>0 DEF Report, Leave
  <2>3. CASE Left(a)
    BY <2>3, <2>0, <1>lib, <1>exit DEF Left
  <2>4. CASE Quit(a)
    BY <2>4, <2>0, <1>0, <1>die DEF Quit
  <2> QED BY <1>3, <2>1, <2>2, <2>3, <2>4 DEF App
<1>4. ASSUME NEW p \in Killable, Kill(p) PROVE SetsOK'
  <2>1. p \in Procs /\ kills' \in Nat
    BY <1>4, <1>0, ProcsAssumption DEF Kill
  <2> QED BY <1>4, <2>1, <1>die DEF Kill
<1>5. CASE UNCHANGED vars
  BY <1>0, <1>5 DEF vars
<1> QED BY <1>1, <1>2, <1>3, <1>4, <1>5 DEF Next

-----------------------------------------------------------------------------
(* The count.                                                              *)

\* There is a number of them.
LEMMA Finite ==
    ASSUME TypeOK
    PROVE  /\ IsFiniteSet(mapped \cup stale)
           /\ Cardinality(mapped \cup stale) \in Nat
<1>1. mapped \cup stale \in SUBSET Procs
  BY DEF TypeOK
<1> QED BY <1>1, ProcsAssumption, FS_Subset, FS_CardinalityType

\* No process comes in twice.
LEMMA EntersUncounted ==
    ASSUME Counted, NEW p \in Procs, Enters(p)
    PROVE  p \notin mapped \cup stale
BY DEF Counted, Enters, InDll

\* A process that comes in, goes out or ends is counted in, out or as stale.
LEMMA CountedStep ==
    ASSUME TypeOK, Counted, Started, [Next]_vars
    PROVE  Counted'
<1>0. pc \in [Procs -> Labels] /\ mapped \subseteq held /\ held \subseteq Procs /\ stale \subseteq Procs
  BY DEF TypeOK, Labels
<1>1. CASE UNCHANGED countVars
  BY <1>1 DEF Counted, countVars
<1>2. ASSUME NEW p \in Procs, Enters(p) PROVE Counted'
  <2>1. PICK next \in InDll : Attach(p, next)
    BY <1>2 DEF Enters, InDll
  <2>2. (\A q \in mapped' : pc'[q] \in InDll) /\ (\A q \in stale' : pc'[q] = "dead")
    BY <1>0, <1>2, <2>1, EntersUncounted DEF Attach, Goto, Counted
  <2>3. CASE count' = count + 1 /\ mapped' = mapped \cup {p} /\ stale' = stale
    <3>1. mapped' \cup stale' = (mapped \cup stale) \cup {p}
      BY <2>3
    <3>2. Cardinality((mapped \cup stale) \cup {p}) = Cardinality(mapped \cup stale) + 1
      BY <1>2, Finite, FS_AddElement, EntersUncounted
    <3> QED BY <2>2, <2>3, <3>1, <3>2 DEF Counted
  <2>4. CASE UNCHANGED <<count, mapped, stale>>
    BY <2>2, <2>4 DEF Counted
  <2> QED BY <2>1, <2>3, <2>4 DEF Attach
<1>3. ASSUME NEW p \in Procs, Leaves(p) PROVE Counted'
  <2>1. PICK next : Uncount(p, next)
    BY <1>3 DEF Leaves
  <2>2. p \notin stale
    BY <2>1 DEF Uncount, At, Counted
  <2>3. (\A q \in mapped' : pc'[q] \in InDll) /\ (\A q \in stale' : pc'[q] = "dead")
    BY <1>0, <2>1, <2>2 DEF Uncount, Goto, Counted
  <2>4. mapped' \cup stale' = (mapped \cup stale) \ {p}
    BY <2>1, <2>2 DEF Uncount
  <2>5. Cardinality((mapped \cup stale) \ {p})
        = IF p \in mapped THEN Cardinality(mapped \cup stale) - 1 ELSE Cardinality(mapped \cup stale)
    BY <2>2, Finite, FS_RemoveElement
  <2> QED BY <2>1, <2>3, <2>4, <2>5 DEF Counted, Uncount
<1>4. ASSUME NEW p \in Procs, Ends(p) PROVE Counted'
  <2>1. (\A q \in mapped' : pc'[q] \in InDll) /\ (\A q \in stale' : pc'[q] = "dead")
    BY <1>0, <1>4 DEF Ends, Die, Goto, Counted
  <2>2. CASE held' = {}
    <3>1. mapped' \cup stale' = {} /\ count' = 0
      BY <1>0, <1>4, <2>2 DEF Ends, Die
    <3> QED BY <2>1, <3>1, FS_EmptySet DEF Counted
  <2>3. CASE held' # {}
    <3>1. mapped' \cup stale' = mapped \cup stale /\ count' = count
      BY <1>4, <2>3 DEF Ends, Die
    <3> QED BY <2>1, <3>1 DEF Counted
  <2> QED BY <2>2, <2>3
<1>5. ASSUME NEW p \in Procs, Walks(p) PROVE Counted'
  <2>1. p \notin stale
    BY <1>5 DEF Walks, Counted, InDll
  <2>2. (\A q \in mapped' : pc'[q] \in InDll) /\ (\A q \in stale' : pc'[q] = "dead")
    BY <1>0, <1>5, <2>1 DEF Walks, Counted
  <2> QED BY <1>5, <2>2 DEF Walks, Counted
<1>6. ASSUME NEW s \in Shells, Check(s) PROVE Counted'
  <2>1. (\A q \in mapped' : pc'[q] \in InDll) /\ (\A q \in stale' : pc'[q] = "dead")
    BY <1>0, <1>6, KindsOfProcs DEF Check, At, Goto, Counted, InDll
  <2> QED BY <1>6, <2>1 DEF Check, Counted
<1>7. ASSUME NEW s \in Shells, launch_helper(s) PROVE Counted'
  <2>1. pc[s] = "launch" /\ pc[HelperOf[s]] = "off"
    BY <1>7 DEF launch_helper, At, Started, Early
  <2>2. (\A q \in mapped' : pc'[q] \in InDll) /\ (\A q \in stale' : pc'[q] = "dead")
    BY <1>0, <1>7, <2>1, KindsOfProcs
       DEF launch_helper, launch_app, Goto, Counted, InDll
  <2> QED BY <1>7, <2>2 DEF launch_helper, Counted
<1> QED BY <1>1, <1>2, <1>3, <1>4, <1>5, <1>6, <1>7, StepKinds

\* What a process in the DLL has been through.
LEMMA UncountedStep ==
    ASSUME TypeOK, Counted, Uncounted, [Next]_vars
    PROVE  Uncounted'
<1>0. pc \in [Procs -> Labels]
  BY DEF TypeOK, Labels
<1>1. CASE UNCHANGED countVars
  BY <1>1 DEF Uncounted, countVars
<1>2. ASSUME NEW p \in Procs, Enters(p) PROVE Uncounted'
  <2>1. PICK next : Attach(p, next)
    BY <1>2 DEF Enters
  <2> QED BY <1>0, <2>1 DEF Attach, Fails, Goto, Uncounted
<1>3. ASSUME NEW p \in Procs, Leaves(p) PROVE Uncounted'
  <2>1. PICK next \in {"end", "run"} : Uncount(p, next)
    BY <1>3 DEF Leaves
  <2> QED BY <1>0, <2>1 DEF Uncount, Goto, Uncounted, InDll
<1>4. ASSUME NEW p \in Procs, Ends(p) PROVE Uncounted'
  BY <1>0, <1>4 DEF Ends, Die, Goto, Uncounted, InDll
<1>5. ASSUME NEW p \in Procs, Walks(p) PROVE Uncounted'
  BY <1>0, <1>5 DEF Walks, Uncounted
<1>6. ASSUME NEW s \in Shells, Check(s) PROVE Uncounted'
  BY <1>0, <1>6, KindsOfProcs DEF Check, At, Goto, Uncounted, InDll
<1>7. ASSUME NEW s \in Shells, launch_helper(s) PROVE Uncounted'
  BY <1>0, <1>7, KindsOfProcs
     DEF launch_helper, launch_app, Fails, At, Goto, Uncounted, InDll
<1> QED BY <1>1, <1>2, <1>3, <1>4, <1>5, <1>6, <1>7, StepKinds

-----------------------------------------------------------------------------
(* The check.                                                              *)

\* The check sees a count of 1 only in a shell that is the only one counted.
LEMMA CheckSeesOnlyItself ==
    ASSUME TypeOK, Counted, NEW s \in Shells, GetInstanceCount(s) = 1
    PROVE  mapped \cup stale = {s} /\ s \in mapped
<1>1. s \in mapped /\ count = 1
  BY DEF GetInstanceCount
<1>2. PICK x : mapped \cup stale = {x}
  BY <1>1, Finite, FS_Singleton DEF Counted
<1> QED BY <1>1, <1>2

\* Only the check lets a shell pass, and only one that is counted.
LEMMA PassedStep ==
    ASSUME TypeOK, Counted, Passed, [Next]_vars
    PROVE  Passed'
<1>0. pc \in [Procs -> Labels] /\ accepted \subseteq Shells
  BY DEF TypeOK, Labels
<1> USE DEF Running
<1>1. CASE UNCHANGED countVars
  BY <1>1 DEF Passed, countVars
<1>2. ASSUME NEW p \in Procs, Enters(p) PROVE Passed'
  BY <1>0, <1>2, KindsOfProcs DEF Enters, Attach, Goto, Passed, PastCheck
<1>3. ASSUME NEW p \in Procs, Leaves(p) PROVE Passed'
  BY <1>0, <1>3, KindsOfProcs DEF Leaves, Uncount, Goto, Passed, PastCheck
<1>4. ASSUME NEW p \in Procs, Ends(p) PROVE Passed'
  BY <1>0, <1>4, KindsOfProcs DEF Ends, Die, Goto, Passed, PastCheck
<1>5. ASSUME NEW p \in Procs, Walks(p) PROVE Passed'
  <2>1. PICK l \in InDll, m \in InDll : <<l, m>> \in Moves /\ pc[p] = l
                                          /\ pc' = [pc EXCEPT ![p] = m]
    BY <1>5 DEF Walks
  <2>2. l \notin {"end", "dead"} /\ (m \in PastCheck => l \in PastCheck)
    BY <2>1 DEF InDll, Moves, PastCheck
  <2> QED BY <1>0, <1>5, <2>1, <2>2, KindsOfProcs DEF Walks, Passed
<1>6. ASSUME NEW s \in Shells, Check(s) PROVE Passed'
  <2>1. CASE GetInstanceCount(s) = 1
    BY <1>0, <1>6, <2>1, CheckSeesOnlyItself, KindsOfProcs DEF Check, At, Goto, Passed
  <2>2. CASE GetInstanceCount(s) # 1
    BY <1>0, <1>6, <2>2, KindsOfProcs DEF Check, At, Goto, Passed, PastCheck
  <2> QED BY <2>1, <2>2
<1>7. ASSUME NEW s \in Shells, launch_helper(s) PROVE Passed'
  BY <1>0, <1>7, KindsOfProcs
     DEF launch_helper, launch_app, At, Goto, Passed, PastCheck
<1> QED BY <1>1, <1>2, <1>3, <1>4, <1>5, <1>6, <1>7, StepKinds

\* The check does not let a shell pass while another one runs.
LEMMA OneShellStep ==
    ASSUME TypeOK, Counted, Passed, AtMostOneShell, [Next]_vars
    PROVE  AtMostOneShell'
<1>0. pc \in [Procs -> Labels]
  BY DEF TypeOK, Labels
\* A shell that runs has run before, but at the check.
<1>1. ASSUME NEW s \in Shells, Running(s)'
      PROVE  Running(s) \/ (Check(s) /\ GetInstanceCount(s) = 1)
  <2> USE DEF Running
  <2>1. CASE UNCHANGED countVars
    BY <1>1, <2>1 DEF countVars
  <2>2. ASSUME NEW p \in Procs, Enters(p) \/ Leaves(p) \/ Ends(p) \/ Walks(p)
        PROVE  Running(s)
    BY <1>0, <1>1, <2>2, KindsOfProcs
       DEF Enters, Attach, Leaves, Uncount, Ends, Die, Walks, InDll, Goto, At
  <2>3. ASSUME NEW t \in Shells, launch_helper(t) PROVE Running(s)
    BY <1>0, <1>1, <2>3, KindsOfProcs DEF launch_helper, launch_app, Goto, At
  <2>4. ASSUME NEW t \in Shells, Check(t)
        PROVE  Running(s) \/ (Check(s) /\ GetInstanceCount(s) = 1)
    BY <1>0, <1>1, <2>4, KindsOfProcs DEF Check, Goto, At
  <2> QED BY <2>1, <2>2, <2>3, <2>4, StepKinds
<1>2. SUFFICES ASSUME NEW s \in Shells, NEW t \in Shells, Running(s)', Running(t)'
               PROVE  s = t
  BY DEF AtMostOneShell
<1>3. ASSUME NEW x \in Shells, NEW y \in Shells, Running(x), GetInstanceCount(y) = 1
      PROVE  x = y
  BY <1>3, CheckSeesOnlyItself DEF Passed
<1>4. ASSUME NEW x \in Shells, NEW y \in Shells,
             GetInstanceCount(x) = 1, GetInstanceCount(y) = 1
      PROVE  x = y
  BY <1>4, CheckSeesOnlyItself
<1> QED BY <1>1, <1>2, <1>3, <1>4 DEF AtMostOneShell

-----------------------------------------------------------------------------
(* Helpers and hooks.                                                      *)

\* A helper is started once, by its shell.
LEMMA StartedStep ==
    ASSUME TypeOK, Counted, Passed, Started, [Next]_vars
    PROVE  Started'
<1>0. pc \in [Procs -> Labels] /\ accepted \subseteq Shells
  BY DEF TypeOK, Labels
<1>1. CASE UNCHANGED countVars
  BY <1>1 DEF Started, countVars
<1>2. ASSUME NEW p \in Procs, Enters(p) PROVE Started'
  BY <1>0, <1>2, KindsOfProcs DEF Enters, Attach, Goto, Started, Early
<1>3. ASSUME NEW p \in Procs, Leaves(p) PROVE Started'
  BY <1>0, <1>3, KindsOfProcs DEF Leaves, Uncount, At, Goto, Started, Early
<1>4. ASSUME NEW p \in Procs, Ends(p) PROVE Started'
  <2>1. accepted' = accepted /\ pc' = [pc EXCEPT ![p] = "dead"]
    BY <1>4 DEF Ends, Die, Goto
  <2>2. ASSUME NEW s \in Shells, pc'[s] \in Early PROVE pc'[HelperOf[s]] = "off"
    <3>1. pc[s] \in Early /\ pc[HelperOf[s]] = "off"
      BY <1>0, <2>1, <2>2, KindsOfProcs DEF Started, Early
    <3>2. HelperOf[s] # p
      BY <1>4, <3>1, KindsOfProcs DEF Ends, Early
    <3> QED BY <1>0, <2>1, <3>1, <3>2, KindsOfProcs
  <2>3. ASSUME NEW h \in Helpers, pc'[h] # "off"
        PROVE  \E s \in Shells : HelperOf[s] = h /\ s \in accepted
    <3>1. CASE pc[h] # "off"
      BY <3>1 DEF Started
    <3>2. CASE pc[h] = "off"
      BY <1>0, <1>4, <2>1, <2>3, <3>2, KindsOfProcs DEF Ends, Passed, PastCheck
    <3> QED BY <3>1, <3>2
  <2> QED BY <2>1, <2>2, <2>3 DEF Started
<1>5. ASSUME NEW p \in Procs, Walks(p) PROVE Started'
  <2>1. PICK l \in InDll, m \in InDll : <<l, m>> \in Moves /\ pc[p] = l
                                          /\ pc' = [pc EXCEPT ![p] = m]
    BY <1>5 DEF Walks
  <2>2. l # "off" /\ m # "off" /\ (m \in Early => l \in Early)
    BY <2>1 DEF InDll, Moves, Early
  <2> QED BY <1>0, <1>5, <2>1, <2>2, KindsOfProcs DEF Walks, Started
<1>6. ASSUME NEW s \in Shells, Check(s) PROVE Started'
  BY <1>0, <1>6, KindsOfProcs DEF Check, At, Goto, Started, Early
<1>7. ASSUME NEW s \in Shells, launch_helper(s) PROVE Started'
  <2>1. pc[s] = "launch" /\ s \in accepted /\ accepted' = accepted
    BY <1>7 DEF launch_helper, At, Passed, PastCheck
  <2>2. CASE Goto(s, "hook")
    BY <1>0, <2>1, <2>2, KindsOfProcs DEF Goto, Started, Early
  <2>3. CASE pc' = [pc EXCEPT ![s] = "hook", ![HelperOf[s]] = "load"]
    BY <1>0, <2>1, <2>3, KindsOfProcs DEF Started, Early
  <2> QED BY <1>7, <2>2, <2>3 DEF launch_helper, launch_app
<1> QED BY <1>1, <1>2, <1>3, <1>4, <1>5, <1>6, <1>7, StepKinds

\* The hooks of a process change when it sets or removes them, or ends.
LEMMA HooksChange ==
    ASSUME TypeOK, [Next]_vars
    PROVE  \/ hooks' \subseteq hooks
           \/ \E p \in Procs : /\ pc[p] = "hook" /\ hooks' = hooks \cup {p}
                               /\ Goto(p, "loop") /\ accepted' = accepted
<1> DEFINE Goal == \/ hooks' \subseteq hooks
                   \/ \E p \in Procs : /\ pc[p] = "hook" /\ hooks' = hooks \cup {p}
                                       /\ Goto(p, "loop") /\ accepted' = accepted
<1>dll. ASSUME NEW p, NEW l, Attach(p, l) \/ DetachWrite(p) \/ Uncount(p, l)
        PROVE  hooks' \subseteq hooks
  BY <1>dll DEF Attach, DetachWrite, Uncount
<1>die. ASSUME NEW p, Die(p) PROVE hooks' \subseteq hooks
  BY <1>die DEF Die
<1>hook. ASSUME NEW p \in Procs, SetHooks(p) PROVE Goal
  BY <1>hook DEF SetHooks, At
<1>1. ASSUME NEW s \in Shells, Load(s) \/ Shell(s) \/ RemoveHooks(s) PROVE Goal
  <2>1. CASE SetHooks(s)
    BY <2>1, <1>hook, KindsOfProcs
  <2>2. CASE Load(s) \/ FreeLibrary(s)
    BY <2>2, <1>dll DEF Load, FreeLibrary
  <2>3. CASE Terminate(s) \/ Exit(s)
    BY <2>3, <1>die DEF Terminate, Exit
  <2>4. CASE Check(s) \/ Create(s) \/ Reset(s) \/ launch_helper(s)
    BY <2>4 DEF Check, Create, Reset, launch_helper
  <2>5. CASE Abort(s) \/ Ask(s) \/ Wait(s) \/ GiveUp(s) \/ RemoveHooks(s)
    BY <2>5 DEF Abort, Ask, Wait, GiveUp, RemoveHooks
  <2> QED BY <1>1, <2>1, <2>2, <2>3, <2>4, <2>5 DEF Shell
<1>2. ASSUME NEW h \in Helpers, Helper(h) PROVE Goal
  <2>1. CASE SetHooks(h)
    BY <2>1, <1>hook, KindsOfProcs
  <2>2. CASE Attach(h, "hook") \/ FreeLibrary(h)
    BY <2>2, <1>dll DEF FreeLibrary
  <2>3. CASE Exit(h)
    BY <2>3, <1>die DEF Exit
  <2>4. CASE Close(h)
    BY <2>4 DEF Close
  <2> QED BY <1>2, <2>1, <2>2, <2>3, <2>4 DEF Helper
<1>3. ASSUME NEW a \in Apps, App(a) PROVE Goal
  <2>1. CASE Inject(a)
    BY <2>1, <1>dll DEF Inject
  <2>2. CASE Left(a)
    BY <2>2, <1>dll, <1>die DEF Left, Exit
  <2>3. CASE Report(a) \/ Leave(a)
    BY <2>3 DEF Report, Leave
  <2>4. CASE Quit(a)
    BY <2>4, <1>die DEF Quit
  <2> QED BY <1>3, <2>1, <2>2, <2>3, <2>4 DEF App
<1>4. ASSUME NEW p \in Killable, Kill(p) PROVE Goal
  BY <1>4, <1>die DEF Kill
<1>5. CASE UNCHANGED vars
  BY <1>5 DEF vars
<1> QED BY <1>1, <1>2, <1>3, <1>4, <1>5 DEF Next

\* The end of a process is the end of its hooks.
LEMMA EndUnhooks ==
    ASSUME TypeOK, [Next]_vars, NEW h \in Helpers, pc[h] \notin {"off", "dead"}, h \in hooks'
    PROVE  pc'[h] \notin {"off", "dead"}
<1>0. pc \in [Procs -> Labels] /\ h \in Procs
  BY KindsOfProcs DEF TypeOK, Labels
<1>1. CASE UNCHANGED countVars
  BY <1>1 DEF countVars
<1>2. ASSUME NEW p \in Procs, Enters(p) \/ Leaves(p) PROVE pc'[h] \notin {"off", "dead"}
  BY <1>0, <1>2 DEF Enters, Attach, Leaves, Uncount, Goto
<1>3. ASSUME NEW p \in Procs, Ends(p) PROVE pc'[h] \notin {"off", "dead"}
  BY <1>0, <1>3 DEF Ends, Die, Goto
<1>4. ASSUME NEW p \in Procs, Walks(p) PROVE pc'[h] \notin {"off", "dead"}
  BY <1>0, <1>4 DEF Walks, InDll
<1>5. ASSUME NEW s \in Shells, Check(s) \/ launch_helper(s)
      PROVE  pc'[h] \notin {"off", "dead"}
  BY <1>0, <1>5, KindsOfProcs DEF Check, launch_helper, launch_app, Goto
<1> QED BY <1>1, <1>2, <1>3, <1>4, <1>5, StepKinds

\* Who has passed the check remains one of those who have.
LEMMA AcceptedGrows ==
    ASSUME TypeOK, [Next]_vars
    PROVE  accepted \subseteq accepted'
<1>1. ASSUME NEW p \in Procs, Enters(p) \/ Leaves(p) \/ Ends(p) \/ Walks(p)
      PROVE  accepted' = accepted
  BY <1>1 DEF Enters, Attach, Leaves, Uncount, Ends, Walks
<1>2. ASSUME NEW s \in Shells, Check(s) \/ launch_helper(s)
      PROVE  accepted \subseteq accepted'
  BY <1>2 DEF Check, launch_helper
<1> QED BY <1>1, <1>2, StepKinds DEF countVars

\* A shell does not start again.
LEMMA EarlyIsOver ==
    ASSUME TypeOK, [Next]_vars, NEW s \in Shells, pc[s] \notin Early
    PROVE  pc'[s] \notin Early
<1>0. pc \in [Procs -> Labels] /\ s \in Procs
  BY KindsOfProcs DEF TypeOK, Labels
<1>1. CASE UNCHANGED countVars
  BY <1>1 DEF countVars
<1>2. ASSUME NEW p \in Procs, Enters(p) \/ Leaves(p) \/ Ends(p) PROVE pc'[s] \notin Early
  BY <1>0, <1>2, KindsOfProcs DEF Enters, Attach, Leaves, Uncount, Ends, Die, Goto, Early
<1>3. ASSUME NEW p \in Procs, Walks(p) PROVE pc'[s] \notin Early
  <2>1. PICK l \in InDll, m \in InDll : <<l, m>> \in Moves /\ pc[p] = l
                                          /\ pc' = [pc EXCEPT ![p] = m]
    BY <1>3 DEF Walks
  <2>2. m \in Early => l \in Early
    BY <2>1 DEF Moves, Early
  <2> QED BY <1>0, <2>1, <2>2
<1>4. ASSUME NEW t \in Shells, Check(t) \/ launch_helper(t) PROVE pc'[s] \notin Early
  BY <1>0, <1>4, KindsOfProcs DEF Check, launch_helper, launch_app, At, Goto, Early
<1> QED BY <1>1, <1>2, <1>3, <1>4, StepKinds

\* Hooks are set behind the check, and by helpers that run.
LEMMA HooksStep ==
    ASSUME TypeOK, Passed, HooksOK, [Next]_vars
    PROVE  HooksOK'
<1>1. CASE hooks' \subseteq hooks
  BY <1>1, AcceptedGrows, EndUnhooks, EarlyIsOver DEF HooksOK
<1>2. ASSUME NEW p \in Procs, pc[p] = "hook", hooks' = hooks \cup {p},
             Goto(p, "loop"), accepted' = accepted
      PROVE  HooksOK'
  <2>1. ASSUME NEW s \in Shells, s \in hooks' PROVE s \in accepted' /\ pc'[s] \notin Early
    BY <1>2, <2>1, EarlyIsOver DEF HooksOK, Passed, PastCheck, Early
  <2>2. ASSUME NEW h \in Helpers, h \in hooks' PROVE pc'[h] \notin {"off", "dead"}
    BY <1>2, <2>2, EndUnhooks DEF HooksOK
  <2> QED BY <2>1, <2>2 DEF HooksOK
<1> QED BY <1>1, <1>2, HooksChange

-----------------------------------------------------------------------------
(* The theorems.                                                           *)

\* The invariant is inductive.
LEMMA InitIInv == Init => IInv
<1> SUFFICES ASSUME Init PROVE IInv
  OBVIOUS
<1>1. TypeOK /\ Uncounted /\ Passed /\ AtMostOneShell /\ Started /\ HooksOK
  BY KindsOfProcs
     DEF Init, TypeOK, ShellPcs, HelperPcs, AppPcs, Uncounted, InDll, Passed, PastCheck,
         Running, AtMostOneShell, Started, HooksOK
<1>2. Counted
  BY FS_EmptySet DEF Init, Counted
<1> QED BY <1>1, <1>2 DEF IInv

\* Every step preserves each of its parts.
LEMMA StepIInv == IInv /\ [Next]_vars => IInv'
<1> SUFFICES ASSUME IInv, [Next]_vars PROVE IInv'
  OBVIOUS
<1> USE DEF IInv
<1>1. Counted' /\ Uncounted'
  BY CountedStep, UncountedStep
<1>2. PcOK' /\ SetsOK'
  BY PcStep, SetsStep
<1>3. count' \in Nat
  <2>1. (mapped \cup stale)' \in SUBSET Procs
    BY <1>2 DEF SetsOK
  <2> QED BY <1>1, <2>1, ProcsAssumption, FS_Subset, FS_CardinalityType DEF Counted
<1>4. TypeOK'
  BY <1>2, <1>3 DEF TypeOK, PcOK, SetsOK, Labels
<1>5. Passed' /\ AtMostOneShell'
  BY PassedStep, OneShellStep
<1>6. Started' /\ HooksOK'
  BY StartedStep, HooksStep
<1> QED BY <1>1, <1>4, <1>5, <1>6

\* The invariant, at any time.
THEOREM IInvHolds == Spec => []IInv
BY InitIInv, StepIInv, PTL DEF Spec

\* Types.
THEOREM TypeCorrect == Spec => []TypeOK
<1>1. IInv => TypeOK
  BY DEF IInv
<1> QED BY <1>1, IInvHolds, PTL

\* The count is the number of processes that have the DLL or were terminated in
\* it, however many there are and whatever fails (hookdll.c lines 817, 837).
THEOREM CountStaysExact == Spec => []CountIsExact
<1>1. IInv => CountIsExact
  BY DEF IInv, Counted, CountIsExact
<1> QED BY <1>1, IInvHolds, PTL

\* No two shells pass the check (main.c lines 711-722).
THEOREM NeverTwoShells == Spec => []AtMostOneShell
<1>1. IInv => AtMostOneShell
  BY DEF IInv
<1> QED BY <1>1, IInvHolds, PTL

\* Who runs besides a shell that is about to reset the ring is a leftover.
LEMMA OthersAreLeftovers ==
    ASSUME IInv, NEW s \in Shells, pc[s] \in {"create", "reset"}
    PROVE  /\ \A t \in accepted : t # s => Ended(t)
           /\ \A h \in Helpers : pc[h] \notin {"off", "dead"} => Leftovers # {}
           /\ hooks # {} => Leftovers # {}
<1> USE DEF IInv
<1>1. s \in accepted /\ Running(s) /\ pc[HelperOf[s]] = "off"
  BY DEF Passed, PastCheck, Running, Started, Early
<1>2. ASSUME NEW t \in accepted, t # s PROVE Ended(t)
  BY <1>1, <1>2 DEF TypeOK, AtMostOneShell, Running, Ended
<1>3. ASSUME NEW h \in Helpers, pc[h] \notin {"off", "dead"} PROVE Leftovers # {}
  <2>1. PICK t \in Shells : HelperOf[t] = h /\ t \in accepted
    BY <1>3 DEF Started
  <2>2. Ended(t)
    BY <1>1, <1>2, <1>3, <2>1
  <2> QED BY <1>3, <2>1, <2>2 DEF Leftovers
<1>4. ASSUME NEW q \in hooks PROVE Leftovers # {}
  <2>1. CASE q \in Shells
    <3>1. q \in accepted /\ q # s
      BY <2>1 DEF HooksOK, Early
    <3> QED BY <1>2, <2>1, <3>1 DEF Leftovers
  <2>2. CASE q \in Helpers
    BY <1>3, <2>2 DEF HooksOK
  <2> QED BY <2>1, <2>2 DEF TypeOK
<1> QED BY <1>2, <1>3, <1>4

\* What begins to write, apart from shells, has just got the DLL.
LEMMA WritersEnter ==
    ASSUME TypeOK, [Next]_vars, NEW p \in Helpers \cup Apps, ~ Writes(p), Writes(p)'
    PROVE  Enters(p)
<1>0. pc \in [Procs -> Labels] /\ p \in Procs /\ p \notin Shells
  BY KindsOfProcs DEF TypeOK, Labels
<1> USE DEF Writes
<1>1. CASE UNCHANGED countVars
  BY <1>1 DEF countVars
<1>2. ASSUME NEW q \in Procs, Enters(q) PROVE Enters(p)
  BY <1>0, <1>2 DEF Enters, Attach, Goto
<1>3. ASSUME NEW q \in Procs, Leaves(q) \/ Ends(q) PROVE Enters(p)
  BY <1>0, <1>3 DEF Leaves, Uncount, Ends, Die, Goto
<1>4. ASSUME NEW q \in Procs, Walks(q) PROVE Enters(p)
  <2>1. PICK l \in InDll, m \in InDll : <<l, m>> \in Moves /\ pc[q] = l
                                          /\ pc' = [pc EXCEPT ![q] = m]
    BY <1>4 DEF Walks
  <2>2. q = p /\ m \in {"in", "hook", "loop", "write"}
    BY <1>0, <2>1
  <2>3. l = "wait"
    BY <2>1, <2>2 DEF Moves
  <2> QED BY <2>1, <2>2, <2>3 DEF TypeOK, HelperPcs, AppPcs
<1>5. ASSUME NEW t \in Shells, Check(t) \/ launch_helper(t) PROVE Enters(p)
  BY <1>0, <1>5, KindsOfProcs DEF Check, launch_helper, launch_app, Goto
<1> QED BY <1>1, <1>2, <1>3, <1>4, <1>5, StepKinds

\* Who goes from the check to the channel has been the only one counted.
LEMMA CheckPasses ==
    ASSUME TypeOK, [Next]_vars, NEW s \in Shells, At(s, "check"), pc'[s] = "create"
    PROVE  GetInstanceCount(s) = 1
<1>0. pc \in [Procs -> Labels] /\ s \in Procs
  BY KindsOfProcs DEF TypeOK, Labels
<1> USE DEF At
<1>1. CASE UNCHANGED countVars
  BY <1>1 DEF countVars
<1>2. ASSUME NEW q \in Procs, Enters(q) \/ Leaves(q) \/ Ends(q) PROVE FALSE
  BY <1>0, <1>2 DEF Enters, Attach, Leaves, Uncount, Ends, Die, Goto
<1>3. ASSUME NEW q \in Procs, Walks(q) PROVE FALSE
  <2>1. PICK l \in InDll, m \in InDll : <<l, m>> \in Moves /\ pc[q] = l
                                          /\ pc' = [pc EXCEPT ![q] = m]
    BY <1>3 DEF Walks
  <2> QED BY <1>0, <2>1 DEF Moves
<1>4. ASSUME NEW t \in Shells, Check(t) \/ launch_helper(t) PROVE GetInstanceCount(s) = 1
  BY <1>0, <1>4, KindsOfProcs DEF Check, launch_helper, launch_app, Goto
<1> QED BY <1>1, <1>2, <1>3, <1>4, StepKinds

\* A shell that begins to write then is at the check.
LEMMA ShellsTurnedAway ==
    ASSUME IInv, [Next]_vars, NEW s \in Shells, pc[s] \in {"create", "reset"},
           NEW p \in Shells, ~ Writes(p), Writes(p)'
    PROVE  At(p, "check")
<1>0. pc \in [Procs -> Labels] /\ TypeOK /\ p \in Procs
  BY KindsOfProcs DEF IInv, TypeOK, Labels
<1>1. p # s => p \notin accepted \/ Ended(p)
  BY OthersAreLeftovers
<1>2. pc[p] \in PastCheck \ {"create", "reset"} => FALSE
  BY <1>1 DEF IInv, Passed, PastCheck, Ended
<1> USE DEF Writes
<1>3. CASE UNCHANGED countVars
  BY <1>3 DEF countVars
<1>4. ASSUME NEW q \in Procs, Enters(q) \/ Leaves(q) \/ Ends(q) PROVE FALSE
  BY <1>0, <1>4, KindsOfProcs DEF Enters, Attach, Leaves, Uncount, Ends, Die, Goto
<1>5. ASSUME NEW q \in Procs, Walks(q) PROVE FALSE
  <2>1. PICK l \in InDll, m \in InDll : <<l, m>> \in Moves /\ pc[q] = l
                                          /\ pc' = [pc EXCEPT ![q] = m]
    BY <1>5 DEF Walks
  <2>2. q = p /\ m \in {"in", "hook", "loop", "write"}
    BY <1>0, <2>1
  <2>3. l = "wait"
    BY <2>1, <2>2 DEF Moves
  <2> QED BY <1>2, <2>1, <2>2, <2>3 DEF PastCheck
<1>6. ASSUME NEW t \in Shells, Check(t) PROVE At(p, "check")
  BY <1>0, <1>6, KindsOfProcs DEF Check, At, Goto
<1>7. ASSUME NEW t \in Shells, launch_helper(t) PROVE FALSE
  <2>1. t # p
    BY <1>2, <1>7 DEF launch_helper, At, PastCheck
  <2> QED BY <1>0, <1>7, <2>1, KindsOfProcs DEF launch_helper, launch_app, Goto
<1> QED BY <1>0, <1>3, <1>4, <1>5, <1>6, <1>7, StepKinds

\* Nobody writes to the ring when a shell is let through to its reset (vchannel.c
\* line 161), but those that failed to attach; and before the reset nobody
\* begins, but what a shell has left behind and a second one turned away.
THEOREM WritersAtResetAreKnown == Spec => WritersAtReset
<1> DEFINE Known == \A s \in Shells, p \in Procs :
              /\ (At(s, "check") /\ pc'[s] = "create") => (Writes(p) => p \in failed)
              /\ (pc[s] \in {"create", "reset"} /\ ~ Writes(p) /\ Writes(p)')
                     => Leftovers # {} \/ (p \in Shells /\ At(p, "check"))
<1>1. IInv /\ [Next]_vars => Known
  <2> SUFFICES ASSUME IInv, [Next]_vars, NEW s \in Shells, NEW p \in Procs
               PROVE  /\ (At(s, "check") /\ pc'[s] = "create") => (Writes(p) => p \in failed)
                      /\ (pc[s] \in {"create", "reset"} /\ ~ Writes(p) /\ Writes(p)')
                             => Leftovers # {} \/ (p \in Shells /\ At(p, "check"))
    OBVIOUS
  <2>1. ASSUME At(s, "check"), pc'[s] = "create", Writes(p) PROVE p \in failed
    <3>1. mapped \cup stale = {s}
      BY <2>1, CheckPasses, CheckSeesOnlyItself DEF IInv
    <3>2. p # s /\ pc[p] \in InDll
      BY <2>1 DEF Writes, InDll, At
    <3> QED BY <3>1, <3>2 DEF IInv, Uncounted
  <2>2. ASSUME pc[s] \in {"create", "reset"}, ~ Writes(p), Writes(p)'
        PROVE  Leftovers # {} \/ (p \in Shells /\ At(p, "check"))
    <3>1. CASE p \in Shells
      BY <2>2, <3>1, ShellsTurnedAway
    <3>2. CASE p \in Helpers
      <4>1. Enters(p)
        BY <2>2, <3>2, WritersEnter DEF IInv
      <4> QED BY <2>2, <3>2, <4>1, KindsOfProcs, OthersAreLeftovers DEF Enters
    <3>3. CASE p \in Apps
      <4>1. Enters(p)
        BY <2>2, <3>3, WritersEnter DEF IInv
      <4> QED BY <2>2, <3>3, <4>1, KindsOfProcs, OthersAreLeftovers DEF Enters, Hooked
    <3> QED BY <3>1, <3>2, <3>3, KindsOfProcs
  <2> QED BY <2>1, <2>2
<1> QED BY <1>1, IInvHolds, PTL DEF Spec, WritersAtReset
=============================================================================
