------------------------------ MODULE WindowMap ------------------------------
(***************************************************************************)
(* What the client DLL is for, without messages, hash table or regions: it *)
(* knows the server's windows by their ids, and what is shown of the       *)
(* server's desktop is what they cover.                                    *)
(***************************************************************************)
CONSTANTS Ids, Absent,
          Rects,          \* where windows can be
          Screen,         \* the pixels of the desktop
          Cover(_),       \* the pixels a window at this place covers
          ALWAYS_CLIP     \* is nothing shown if there are no windows?

VARIABLES windows, shown

Shown(w) ==
    LET known == {id \in Ids : w[id] # Absent} IN
    IF known = {} /\ ~ ALWAYS_CLIP THEN Screen ELSE UNION {Cover(w[id]) : id \in known}

MapInit == windows = [id \in Ids |-> Absent] /\ shown = Shown(windows)

\* One window appears, moves or goes away, at most.
Change ==
    /\ windows' \in [Ids -> Rects \cup {Absent}]
    /\ \E id \in Ids : \A other \in Ids \ {id} : windows'[other] = windows[other]
    /\ shown' = Shown(windows')

MapSpec == MapInit /\ [][Change]_<<windows, shown>>
=============================================================================
