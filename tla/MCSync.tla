------------------------------- MODULE MCSync -------------------------------
(* An instance of Sync for TLC: a window with a popup.                     *)
EXTENDS Sync

MCOwner == [w \in {"top", "popup"} |-> IF w = "top" THEN NoWindow ELSE "top"]
MCTitles == {<<"a">>, <<"a", ",">>}
=============================================================================
