------------------------------- MODULE ZOrder --------------------------------
(***************************************************************************)
(* Which window is in front of which (ServerExe/hookdll.c): SafeZChange    *)
(* carries out the client's wish, update_zorder reports from the window's  *)
(* own thread behind which window it is now.  Such a report says something *)
(* of two windows, and the reports of several threads may cross.           *)
(*                                                                         *)
(* The windows have no owners and are not minimised.  A bracket of         *)
(* vchannel_block is one step: the order is looked at once, and what the   *)
(* ring and its mutex do to a writer is the subject of VChannel and        *)
(* HookBlock.                                                              *)
(***************************************************************************)
EXTENDS Integers, SequencesExt

CONSTANTS
    Windows,        \* top-level windows, each with a thread of its own
    NoWindow,
    Topmost,        \* those that are always on top
    Hidden,         \* those that are not visible
    FirstOrder,     \* how they stand when the client connects
    MaxRequests,    \* bound: requests of the client
    MaxActs         \* bound: changes by applications

\* A sequence of all elements of S, each once.
Lists(s, S) ==
    /\ s \in Seq(S) /\ Len(s) = Cardinality(S)
    /\ \A v \in S : \E i \in 1 .. Len(s) : s[i] = v
    /\ \A i, j \in 1 .. Len(s) : s[i] = s[j] => i = j

\* What is always on top is in front of everything else.
InLayers(o) == \A i \in 1 .. Len(o) : o[i] \in Topmost <=> i <= Cardinality(Topmost)

ASSUME ZOrderAssumption ==
    /\ IsFiniteSet(Windows) /\ NoWindow \notin Windows
    /\ Topmost \subseteq Windows /\ Hidden \subseteq Windows
    /\ Lists(FirstOrder, Windows) /\ InLayers(FirstOrder)
    /\ MaxRequests \in Nat /\ MaxActs \in Nat

VARIABLES
    order,      \* all windows, the front one first
    zchange,    \* blocked_zchange and its serial in g_shdata
    pc,         \* where each window's thread is with update_zorder
    block,      \* its copy of zchange
    shell,      \* where the shell is in SafeZChange
    requests,   \* so far; the index is the serial
    acts,
    mirror,     \* the visible windows in the order the client has been told
    \* History:
    acks,       \* serials acknowledged
    crossed,    \* has a report named a window whose own was outstanding?
    fate        \* of the request: nothing has moved yet, its window has, or
                \* others have too

threadVars == <<pc, block>>
clientVars == <<mirror, acks, crossed>>
vars == <<order, zchange, threadVars, shell, requests, acts, clientVars, fate>>

Shown == Windows \ Hidden
serial == Len(requests)
request == requests[serial]
Requests ==
    {r \in [win : Shown, behind : Shown \cup {NoWindow}] : r.win # r.behind}

NoBlock == [win |-> NoWindow, behind |-> NoWindow, serial |-> 0]

\* v stands before w in s.
Precedes(s, v, w) == \E i, j \in 1 .. Len(s) : i < j /\ s[i] = v /\ s[j] = w

Init ==
    /\ order = FirstOrder
    /\ zchange = NoBlock
    /\ pc = [w \in Windows |-> "idle"] /\ block = [w \in Windows |-> NoBlock]
    /\ shell = "idle" /\ requests = <<>> /\ acts = 0
    /\ mirror \in {m \in [1 .. Cardinality(Shown) -> Shown] :
                     \A v, w \in Shown : Precedes(m, v, w) <=> Precedes(order, v, w)}
    /\ acks = <<>> /\ crossed = FALSE /\ fate = "quiet"

-----------------------------------------------------------------------------
PlaceOf(o, w) == SelectInSeq(o, LAMBDA v : v = w)     \* 0 if it is not there
Others(o, w) == RemoveAt(o, PlaceOf(o, w))
Behind(o, w, p) == InsertAt(Others(o, w), PlaceOf(Others(o, w), p) + 1, w)

\* SetWindowPos: HWND_TOP (NoWindow) is the top of the window's own layer.
Placed(w, p) ==
    IF p # NoWindow \/ w \in Topmost THEN Behind(order, w, p)
    ELSE InsertAt(Others(order, w), Cardinality(Topmost) + 1, w)

\* The window's thread gets WM_WINDOWPOSCHANGED, without SWP_NOZORDER only if
\* its place has changed, and reports it if the window is visible.
Move(w, o) ==
    /\ order' = o
    /\ pc' = IF o # order /\ w \in Shown THEN [pc EXCEPT ![w] = "read"] ELSE pc

\* An application moves its window within the layer.
AppMove(w) ==
    /\ pc[w] = "idle" /\ acts < MaxActs /\ acts' = acts + 1
    /\ \E p \in {v \in Windows \ {w} : v \in Topmost <=> w \in Topmost} \cup {NoWindow} :
          Placed(w, p) # order /\ Move(w, Placed(w, p))
    /\ fate' = "disturbed"
    /\ UNCHANGED <<zchange, block, shell, requests, clientVars>>

-----------------------------------------------------------------------------
(* update_zorder.                                                          *)

ReadBlock(w) ==
    /\ pc[w] = "read"
    /\ pc' = [pc EXCEPT ![w] = "report"] /\ block' = [block EXCEPT ![w] = zchange]
    /\ UNCHANGED <<order, zchange, shell, requests, acts, clientVars, fate>>

\* The next window in front, visible or not.
InFront_(w) == IF order[1] = w THEN NoWindow ELSE order[PlaceOf(order, w) - 1]
\* GetNextWindow(GW_HWNDPREV), until one is visible.
InFront(w) ==
    LET n == SelectLastInSubSeq(order, 1, PlaceOf(order, w) - 1, LAMBDA v : v \in Shown)
    IN  IF n = 0 THEN NoWindow ELSE order[n]

IsBlocked(w, behind) == block[w].win = w /\ block[w].behind = behind

\* An ACK tells the client that the window is where it wanted it, a ZCHANGE
\* where it is.
Report(w) ==
    LET behind == InFront(w) IN
    /\ pc[w] = "report"
    /\ IF IsBlocked(w, behind)
       THEN /\ acks' = Append(acks, block[w].serial)
            /\ mirror' = Behind(mirror, w, requests[block[w].serial].behind)
       ELSE /\ mirror' = Behind(mirror, w, behind) /\ UNCHANGED acks
    /\ crossed' = (crossed \/ (behind # NoWindow /\ pc[behind] # "idle"))
    /\ pc' = [pc EXCEPT ![w] = "idle"] /\ block' = [block EXCEPT ![w] = NoBlock]
    /\ UNCHANGED <<order, zchange, shell, requests, acts, fate>>

-----------------------------------------------------------------------------
(* The shell.                                                              *)

Receive(r) ==
    /\ shell = "idle" /\ serial < MaxRequests
    /\ requests' = Append(requests, r)
    /\ shell' = "block"
    /\ fate' = IF \A w \in Windows : pc[w] = "idle" THEN "quiet" ELSE "disturbed"
    /\ UNCHANGED <<order, zchange, threadVars, acts, clientVars>>

\* blocked_zchange[1] is forgotten.
Block_ ==
    /\ shell = "block" /\ shell' = "set"
    /\ zchange' = [zchange EXCEPT !.win = request.win, !.serial = serial]
    /\ UNCHANGED <<order, threadVars, requests, acts, clientVars, fate>>
Block ==
    /\ shell = "block" /\ shell' = "set"
    /\ zchange' = [win |-> request.win, behind |-> request.behind, serial |-> serial]
    /\ UNCHANGED <<order, threadVars, requests, acts, clientVars, fate>>

\* A window of the other layer is not referred to.
SameLayer(r) == r.behind # NoWindow /\ (r.win \in Topmost <=> r.behind \in Topmost)

\* SetWindowPos returns when the window's thread has attended to it.
SetPos ==
    /\ shell = "set" /\ pc[request.win] = "idle"
    /\ Move(request.win,
            Placed(request.win, IF SameLayer(request) THEN request.behind ELSE NoWindow))
    /\ shell' = "wait"
    /\ fate' = IF fate = "quiet" /\ order' # order THEN "moved" ELSE fate
    /\ UNCHANGED <<zchange, block, requests, acts, clientVars>>

\* The serial stays.
Unblock ==
    /\ shell = "wait" /\ pc[request.win] = "idle"
    /\ zchange' = [zchange EXCEPT !.win = NoWindow, !.behind = NoWindow]
    /\ shell' = "idle"
    /\ UNCHANGED <<order, threadVars, requests, acts, clientVars, fate>>

SafeZChange == Block \/ SetPos \/ Unblock

Next ==
    \/ \E w \in Windows : AppMove(w) \/ ReadBlock(w) \/ Report(w)
    \/ (\E r \in Requests : Receive(r)) \/ SafeZChange

Spec == Init /\ [][Next]_vars

-----------------------------------------------------------------------------
(* Properties.                                                             *)

\* The client has the windows whose threads have nothing left to report in the
\* order they stand in, although a report names just one neighbour, the block may
\* make an ACK of it, and other windows move between the change and its report -
\* unless a report named a window whose own report was still to come (lines
\* 206-236 send no more than that one pair).
Told(w) == w \in Shown /\ pc[w] = "idle"
OrderMirrored ==
    ~ crossed =>
        \A v, w \in Windows :
            Told(v) /\ Told(w) => (Precedes(mirror, v, w) <=> Precedes(order, v, w))

\* A request that has moved its window while nothing else moved is acknowledged
\* once, by its own serial, if the window is to be behind one of its own layer or
\* in front with nothing always on top of it.  No other is acknowledged twice;
\* one for the front that stays below what is on top, or that changes nothing,
\* not at all (lines 684-706).
Reachable(r) ==
    SameLayer(r) \/ (r.behind = NoWindow /\ (r.win \in Topmost \/ Topmost \subseteq Hidden))
AckedIfMoved ==
    [][shell = "wait" /\ shell' = "idle" /\ fate # "disturbed" =>
          LET n == Cardinality({i \in DOMAIN acks : acks[i] = serial})
          IN  IF fate = "moved" /\ Reachable(request) THEN n = 1 ELSE n <= 1
      ]_vars
=============================================================================
