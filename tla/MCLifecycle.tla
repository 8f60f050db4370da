---------------------------- MODULE MCLifecycle -----------------------------
(* An instance of Lifecycle for TLC: two shells are started, at the same   *)
(* time or one after the other, with an application of each kind.          *)
EXTENDS Lifecycle

MCShells == {"s1", "s2"}
MCHelpers == {"h1", "h2"}
MCHelperOf == [s \in MCShells |-> IF s = "s1" THEN "h1" ELSE "h2"]
=============================================================================
