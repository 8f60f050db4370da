-------------------------------- MODULE Sync --------------------------------
(***************************************************************************)
(* How a client that has just come learns what windows there are: the      *)
(* shell's do_sync and enum_cb (ServerExe/main.c) list them one by one     *)
(* while the hooks in the windows' own threads (ServerExe/hookdll.c) go on *)
(* to report what changes.  Neither locks the other out.                   *)
(*                                                                         *)
(* The ring and the channel keep the messages in order (VChannel), so what *)
(* the client will know is kept up to date as they are written.            *)
(***************************************************************************)
EXTENDS SequencesExt

CONSTANTS
    Windows,        \* top-level windows
    NoWindow,
    Popups,         \* those with WS_POPUP
    Owner,          \* the owner of a window, or NoWindow
    ToolWindows,    \* those with WS_EX_TOOLWINDOW
    OfficeTooltips, \* those of this class, whose owner is wrong
    NoTaskbar,      \* (HWND)-1, for a window without owner and taskbar icon
    Places,         \* where a window may be
    Titles,         \* the titles a window may have, sequences of characters
    Unknown,        \* what the client has not been told yet
    MaxChanges,     \* bound: changes of windows
    MaxSyncs        \* bound: SYNC commands

ASSUME SyncAssumption ==
    /\ IsFiniteSet(Windows)
    /\ NoWindow \notin Windows /\ NoTaskbar \notin Windows /\ NoTaskbar # NoWindow
    /\ (Popups \cup ToolWindows \cup OfficeTooltips) \subseteq Windows
    /\ Owner \in [Windows -> Windows \cup {NoWindow}]
    /\ Titles \subseteq Seq({"a", "b", ",", "_"}) /\ {} \notin {Titles, Places}
    /\ MaxChanges \in Nat /\ MaxSyncs \in Nat
\* A window's owner is there before it, so that no chain of owners is a circle.
ASSUME OwnersAssumption ==
    \A S \in SUBSET Windows : S # {} => \E w \in S : Owner[w] \notin S

VARIABLES
    window,         \* each window's status, place, title and state
    consoles,       \* those of the class of the windows of cmd.exe
    todo,           \* what the hooks have still to write for it, and the
                    \* changes in between
    stack,          \* the calls of EnumWindows the shell is in, the innermost
                    \* first: the windows still to come and the parent
    at,             \* how far enum_cb is with a window,
    current,        \* which one that is,
    seen,           \* and what it has read of it
    mirror,         \* the windows the client knows
    own,            \* the shell's own messages in the ring, or Uncounted
    changes, syncs,
    changed,        \* history: windows that have changed since SYNCBEGIN,
    listed,         \* that have been listed since then,
    raced           \* and that changed while they were being listed

windowVars == <<window, consoles, todo, changes>>
enumVars == <<stack, at, current, seen, syncs>>
historyVars == <<changed, listed, raced>>
vars == <<windowVars, enumVars, mirror, own, historyVars>>

Init ==
    /\ window \in [Windows -> [status : {"hidden", "shown"}, place : Places,
                               title : Titles, state : {0}]]
    /\ \A w \in Windows : /\ window[w].place = (CHOOSE p \in Places : TRUE)
                          /\ window[w].title = (CHOOSE t \in Titles : TRUE)
    /\ consoles \in SUBSET Windows /\ todo = [w \in Windows |-> <<>>]
    /\ stack = <<>> /\ at = "idle" /\ current = NoWindow /\ seen = <<>>
    /\ mirror = [w \in Windows |-> NoWindow]
    /\ own = 0 /\ changes = 0 /\ syncs = 0
    /\ changed = {} /\ listed = {} /\ raced = {}

-----------------------------------------------------------------------------
(* Messages and what the client makes of them.                             *)

\* vchannel_strfilter: a title must not look like two fields.
vchannel_strfilter_(text) == text
vchannel_strfilter(text) == [i \in DOMAIN text |-> IF text[i] = "," THEN "_" ELSE text[i]]

\* A field ends at a comma.
Field(text) ==
    LET n == SelectInSeq(text, LAMBDA c : c = ",") IN IF n = 0 THEN text ELSE SubSeq(text, 1, n - 1)

\* What the client may know of a window, which is not NoWindow.
Entries ==
    [parent : Windows \cup {NoWindow, NoTaskbar}, place : Places \cup {Unknown},
     title : {vchannel_strfilter(t) : t \in Titles} \cup {Unknown}, state : {0, 1, Unknown}]
ASSUME EntriesAssumption == NoWindow \notin Entries

New(parent) == [parent |-> parent, place |-> Unknown, title |-> Unknown, state |-> Unknown]
Create(m, w, parent) == [m EXCEPT ![w] = IF @ = NoWindow THEN New(parent) ELSE @]
Destroy(m, w) == [m EXCEPT ![w] = NoWindow]
Known(m, w) == m[w] # NoWindow
Place(m, w, p) == IF Known(m, w) THEN [m EXCEPT ![w].place = p] ELSE m
Title(m, w, t) == IF Known(m, w) THEN [m EXCEPT ![w].title = Field(vchannel_strfilter(t))] ELSE m
State(m, w, s) == IF Known(m, w) THEN [m EXCEPT ![w].state = s] ELSE m

-----------------------------------------------------------------------------
(* The windows' threads.                                                   *)

\* get_parent: for the hooks a window has its owner for a parent, or one that
\* stands for "no taskbar icon".
get_parent(w) ==
    IF Owner[w] # NoWindow /\ w \notin OfficeTooltips THEN Owner[w]
    ELSE IF Owner[w] # NoWindow \/ w \in ToolWindows THEN NoTaskbar ELSE NoWindow

\* What the hooks do around a change, in order: a pair for a write, a triple
\* for the change of a window's field itself.
Show == << <<"set", "status", "shown">>, <<"CREATE">>, <<"TITLE">>, <<"POSITION">>, <<"STATE">> >>
Hide == << <<"set", "status", "hidden">>, <<"DESTROY">> >>
Close == Hide \o << <<"set", "status", "gone">> >>
Move(p) == << <<"set", "place", p>>, <<"POSITION">> >>
SetText(t) == << <<"set", "title", t>>, <<"TITLE">> >>
\* cbt_hook_proc reports the state before the window has it.
MinMax(s) == << <<"STATE", s>>, <<"set", "state", s>> >>

\* What a window of this status may do.  Of a hidden one nothing is reported,
\* and a minimised one's place is not.
Changes(w) ==
    LET v == window[w] IN
    CASE v.status = "gone" -> {}
      [] v.status = "hidden" ->
            {Show, << <<"set", "status", "gone">> >>}
            \cup {<<Move(p)[1]>> : p \in Places \ {v.place}}
            \cup {<<SetText(t)[1]>> : t \in Titles \ {v.title}}
      [] OTHER ->
            {Hide, Close} \cup {MinMax(1 - v.state)}
            \cup {SetText(t) : t \in Titles \ {v.title}}
            \cup {Move(p) : p \in IF v.state = 0 THEN Places \ {v.place} ELSE {}}

Change(w) ==
    /\ todo[w] = <<>> /\ changes < MaxChanges
    /\ \E c \in Changes(w) : todo' = [todo EXCEPT ![w] = c]
    /\ changes' = changes + 1
    /\ changed' = changed \cup {w}
    /\ UNCHANGED <<window, consoles, enumVars, mirror, own, listed, raced>>

\* wndproc_hook_proc leaves consoles alone; what the other hooks write of one means
\* nothing to a client that does not know it.
Announce(w) == IF w \in consoles THEN mirror ELSE Create(mirror, w, get_parent(w))

\* The next step of what a window's thread is at.
Step(w) ==
    /\ todo[w] # <<>>
    /\ LET s == Head(todo[w])
           v == window[w]
       IN  /\ window' = IF s[1] = "set" THEN [window EXCEPT ![w][s[2]] = s[3]] ELSE window
           /\ mirror' = CASE s[1] = "CREATE" -> Announce(w)
                          [] s[1] = "DESTROY" -> Destroy(mirror, w)
                          [] s[1] = "TITLE" -> Title(mirror, w, v.title)
                          [] s[1] = "POSITION" -> Place(mirror, w, v.place)
                          [] s[1] = "STATE" ->
                                State(mirror, w, IF Len(s) = 2 THEN s[2] ELSE v.state)
                          [] OTHER -> mirror
    /\ todo' = [todo EXCEPT ![w] = Tail(@)]
    /\ raced' = IF w = current THEN raced \cup {w} ELSE raced
    /\ UNCHANGED <<consoles, changes, enumVars, own, changed, listed>>

-----------------------------------------------------------------------------
(* The shell.                                                              *)

\* GetWindowLong(GWLP_HWNDPARENT) of a popup is its owner; for enum_cb no other
\* window has a parent.
Parent(w) == IF w \in Popups THEN Owner[w] ELSE NoWindow
Existing == {w \in Windows : window[w].status # "gone"}
EnumWindows(parent) == <<[rest |-> Existing, parent |-> parent]>>
\* EnumWindows has made its list before the first callback; GetNextWindow would
\* look at the windows as they are now.
Remaining_(rest, w) == Existing \ {w}
Remaining(rest, w) == rest \ {w}

\* A message of its own; they are counted until a write to the channel fails.
Uncounted == -1
Put == own' = IF own = Uncounted THEN own ELSE own + 1

do_sync ==
    /\ at = "idle" /\ syncs < MaxSyncs
    /\ syncs' = syncs + 1
    /\ mirror' = [w \in Windows |-> NoWindow] /\ Put
    /\ stack' = EnumWindows(NoWindow) /\ at' = "enum"
    /\ changed' = {w \in Windows : todo[w] # <<>>} /\ listed' = {} /\ raced' = {}
    /\ UNCHANGED <<windowVars, current, seen>>

\* The callback returns at once for a window that is gone or not visible, for a
\* console, and for those of another level.
Skipped_(w, parent) == window[w].status # "shown" \/ w \in consoles
Skipped(w, parent) == window[w].status # "shown" \/ w \in consoles \/ Parent(w) # parent

NextWindow ==
    /\ at = "enum" /\ stack # <<>>
    /\ \E w \in Head(stack).rest :
          /\ stack' = [stack EXCEPT ![1].rest = Remaining(@, w)]
          /\ \/ Skipped(w, Head(stack).parent) /\ UNCHANGED <<at, current, seen, raced>>
             \/ /\ ~ Skipped(w, Head(stack).parent)
                /\ at' = "CREATE" /\ current' = w /\ seen' = [state |-> window[w].state]
                /\ raced' = IF todo[w] # <<>> THEN raced \cup {w} ELSE raced
    /\ UNCHANGED <<windowVars, syncs, mirror, own, changed, listed>>

Write(m, next) ==
    /\ mirror' = m /\ Put /\ at' = next
    /\ UNCHANGED <<windowVars, stack, syncs, changed, raced>>

WriteCreate ==
    /\ at = "CREATE" /\ Write(Create(mirror, current, Parent(current)), "rect")
    /\ listed' = listed \cup {current} /\ UNCHANGED <<current, seen>>

\* GetWindowRect fails for a window that is gone; then its children are left out.
GetWindowRect ==
    /\ at = "rect"
    /\ \/ /\ window[current].status # "gone"
          /\ seen' = [state |-> seen.state, place |-> window[current].place]
          /\ at' = "POSITION" /\ UNCHANGED <<current, own>>
       \/ /\ window[current].status = "gone"
          /\ Put           \* vchannel_debug
          /\ at' = "enum" /\ current' = NoWindow /\ seen' = <<>>
    /\ UNCHANGED <<windowVars, stack, syncs, mirror, historyVars>>

WritePosition ==
    /\ at = "POSITION" /\ Write(Place(mirror, current, seen.place), "text")
    /\ UNCHANGED <<current, seen, listed>>

GetWindowText ==
    /\ at = "text"
    /\ seen' = [state |-> seen.state, title |-> window[current].title]
    /\ at' = "TITLE"
    /\ UNCHANGED <<windowVars, stack, current, syncs, mirror, own, historyVars>>

WriteTitle ==
    /\ at = "TITLE" /\ Write(Title(mirror, current, seen.title), "STATE")
    /\ UNCHANGED <<current, seen, listed>>

\* The state is the one that was read first of all.
WriteState ==
    /\ at = "STATE" /\ Write(State(mirror, current, seen.state), "process")
    /\ UNCHANGED <<current, seen, listed>>

\* vchannel_process empties the ring, but leaves it at the first message that
\* cannot be written to the channel; some of its own may then be left.
NotProcessed_ == UNCHANGED own
vchannel_process == own' \in {IF own = Uncounted THEN own ELSE 0, Uncounted}

\* It is called in the callback; then the children are listed.
Recurse ==
    /\ at = "process" /\ vchannel_process
    /\ stack' = EnumWindows(current) \o stack
    /\ at' = "enum" /\ current' = NoWindow /\ seen' = <<>>
    /\ UNCHANGED <<windowVars, syncs, mirror, historyVars>>

Return ==
    /\ at = "enum" /\ stack # <<>> /\ Head(stack).rest = {}
    /\ stack' = Tail(stack)
    /\ IF Len(stack) = 1 THEN at' = "idle" /\ Put   \* SYNCEND
       ELSE UNCHANGED <<at, own>>
    /\ UNCHANGED <<windowVars, current, seen, syncs, mirror, historyVars>>

\* And in the main loop.
Process ==
    /\ at = "idle" /\ own > 0 /\ vchannel_process
    /\ UNCHANGED <<windowVars, enumVars, mirror, historyVars>>

enum_cb ==
    \/ NextWindow \/ WriteCreate \/ GetWindowRect \/ WritePosition
    \/ GetWindowText \/ WriteTitle \/ WriteState \/ Recurse

Next ==
    \/ \E w \in Windows : Change(w) \/ Step(w)
    \/ do_sync \/ enum_cb \/ Return \/ Process

\* The shell's thread goes on; so do the windows' with what they have begun.
Fairness == WF_vars(enum_cb \/ Return) /\ \A w \in Windows : WF_vars(Step(w))

Spec == Init /\ [][Next]_vars /\ Fairness

-----------------------------------------------------------------------------
(* Properties.                                                             *)

\* The owners of a popup, and theirs: what is in every set that has them.
Owners(w) ==
    LET Closed(S) == \A v \in S \cup {w} : Parent(v) \in S \cup {NoWindow}
    IN  {o \in Windows : \A S \in SUBSET Windows : Closed(S) => o \in S}

\* Do the hooks and enum_cb have the same opinion of the parent?
SameParent(w) == get_parent(w) = Parent(w)
RightOf(w) ==
    [parent |-> IF SameParent(w) THEN Parent(w) ELSE mirror[w].parent,
     place |-> window[w].place, title |-> vchannel_strfilter(window[w].title),
     state |-> window[w].state]
Quiet == at = "idle" /\ syncs > 0 /\ own # Uncounted /\ \A w \in Windows : todo[w] = <<>>

\* After a SYNC the client, if it is still there, knows every window as it is,
\* whatever the windows have been doing meanwhile, with these exceptions: one
\* that changed while enum_cb was at it (main.c lines 175-228 take no lock); a
\* console, which it never knows of (lines 182-186, hookdll.c lines 295-298);
\* and a popup whose owners were not all visible, or not all of them known since
\* one is a console (line 195).  The parent of an owned window that is no popup,
\* and of a tool window, depends on who has told the client of it (lines
\* 188-191, hookdll.c lines 118-140).
MirrorIsRight ==
    Quiet => \A w \in Windows \ raced :
        IF window[w].status # "shown" \/ w \in consoles THEN mirror[w] = NoWindow
        ELSE \/ mirror[w] = RightOf(w)
             \/ mirror[w] = NoWindow
                /\ \E o \in Owners(w) : o \in changed \cup consoles \/ window[o].status # "shown"

\* "we send parent windows before their children" (main.c lines 193-194), and
\* none of them twice.
ParentsFirst ==
    [][at = "CREATE" /\ at' = "rect" =>
          /\ current \notin listed
          /\ Parent(current) # NoWindow =>
                /\ Parent(current) \in listed
                /\ Known(mirror, Parent(current)) \/ Parent(current) \in changed
      ]_vars

\* "we need to process in this callback so we dont fill up the buffer" (main.c
\* line 230): the shell, which is the one to empty the ring, puts at most one
\* window's messages into it before it does so, and what begins and ends each
\* SYNC; but two for every window that is gone at line 207, where enum_cb
\* returns without processing.  That is so until a write to the channel fails
\* (vchannel.c lines 490-493): once the client is gone in the middle of a SYNC,
\* each window can leave the ring fuller than it was.
OwnMessagesFit ==
    own # Uncounted =>
        own <= 3 + 2 * syncs + 2 * Cardinality({w \in Windows : window[w].status = "gone"})

\* A SYNC ends although the windows go on changing.
SyncEnds == at # "idle" ~> at = "idle"
=============================================================================
