----------------------------- MODULE MCVChannel -----------------------------
(* Instances of VChannel for TLC.                                          *)
EXTENDS VChannel

CONSTANTS a1, a2, a3

ThreeApps == {a1, a2, a3}

\* Messages of one application fill the ring, those of the others do not.
MCWeight == [c \in Copies |-> IF c = a1 THEN 2 ELSE 1]

None == {}
OneApp == {a1}
TwoApps == {a1, a2}
AllApps == Apps
AppOneAndDll == {a1, ShellDll}
OnlyDll == {ShellDll}
AllThreads == Threads
=============================================================================
