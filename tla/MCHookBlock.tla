---------------------------- MODULE MCHookBlock ----------------------------
(* Instances of HookBlock for TLC.                                         *)
EXTENDS HookBlock

CONSTANTS w1, w2

OneWindow == {w1}
TwoWindows == {w1, w2}
None == {}
OnlySecond == {w2}

AllKinds == {"POSITION", "STATE", "FOCUS", "DESTROY"}
OnlyPosition == {"POSITION"}

TwoPlaces == {0, 1}
TwoStates == {0, 1}
=============================================================================
