------------------------------ MODULE MCZOrder ------------------------------
(* An instance of ZOrder for TLC: five windows, of which one is always on  *)
(* top and one is not visible.                                             *)
EXTENDS ZOrder

CONSTANTS top, a, b, c, hid

MCWindows == {top, a, b, c, hid}
MCTopmost == {top}
MCHidden == {hid}
MCFirstOrder == <<top, a, hid, b, c>>
=============================================================================
