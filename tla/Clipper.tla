------------------------------- MODULE Clipper -------------------------------
(***************************************************************************)
(* The client DLL (ClientDLL/clipper.cpp, windowdata.cpp): it is told of   *)
(* the server's windows by text messages, keeps them in the hash table and *)
(* clips the desktop's window to what they cover.  A message is a sequence *)
(* of symbols: names, delimiters and values.                               *)
(*                                                                         *)
(* The server, and Windows' part, are modelled by how this code uses them. *)
(***************************************************************************)
EXTENDS HashTable, Tokenizer

CONSTANTS
    Ids,            \* ids of windows, as in messages
    Titles,         \* their titles, sequences of symbols
    Places,         \* where they are: four coordinates, as in messages
    Atoi(_),        \* the value of a coordinate
    Width, Height,  \* of the desktop
    ALWAYS_CLIP,
    MaxMessages,    \* bound: messages of the server
    MaxFailures     \* bound: failing calls of malloc and CreateWindow

ASSUME ClipperAssumption ==
    /\ Null \notin Int \cup Places /\ \A id \in Ids : HashOf(id) \in Nat
    /\ \A at \in Places : \A i \in 1 .. 4 : Atoi(at[i]) \in Int
    /\ Width \in Nat /\ Height \in Nat /\ ALWAYS_CLIP \in BOOLEAN
    /\ MaxMessages \in Nat /\ MaxFailures \in Nat

\* strcmp puts the ids in an order.
ASSUME OrderAssumption ==
    \A a, b \in Ids :
        /\ a # b <=> Less(a, b) \/ Less(b, a)
        /\ \A c \in Ids : Less(a, b) /\ Less(b, c) => Less(a, c)

VARIABLES
    state,      \* of the DLL and its channel
    m_ht,       \* the hash table; its data are addresses in the heap
    heap,       \* the CWindowData objects, by address
    bars,       \* the taskbar windows that exist
    m_mainWindow,  \* has the desktop's window been found?
    region,     \* what of it is not clipped
    server,     \* where the server's windows are
    sent,       \* messages it has sent
    failures,
    lost        \* history: a message or a window got lost on the way

tableVars == <<m_ht, heap, bars>>
clipVars == <<m_mainWindow, region>>
vars == <<state, tableVars, clipVars, server, sent, failures, lost>>

Screen == (0 .. Width - 1) \X (0 .. Height - 1)
Box(x1, y1, x2, y2) == {p \in Screen : x1 <= p[1] /\ p[1] < x2 /\ y1 <= p[2] /\ p[2] < y2}

Init ==
    /\ state = "new"
    /\ m_ht = hash_construct_table(0) /\ heap = <<>> /\ bars = {}
    /\ m_mainWindow = FALSE /\ region = Screen
    /\ server = [id \in Ids |-> Null] /\ sent = 0
    /\ failures = 0 /\ lost = FALSE

-----------------------------------------------------------------------------
(* The region.                                                             *)

\* CreateRegionFromWindowData, for each window of the table.
Region(table, objects) ==
    LET all == hash_enumerate(table)
        rect(i) == LET d == objects[all[i].data].pos IN Box(d[1], d[2], d[3], d[4])
    IN  IF all = <<>> /\ ~ ALWAYS_CLIP THEN Screen ELSE UNION {rect(i) : i \in DOMAIN all}

\* The process's window with a system menu is looked for until it is found.
FindProcessMainWindow == m_mainWindow' \in {m_mainWindow, TRUE}

\* The region is not computed when a window is gone.
DoClipping_ ==
    /\ FindProcessMainWindow
    /\ region' = IF m_mainWindow' /\ (m_ht'.count >= m_ht.count)
                 THEN Region(m_ht', heap') ELSE region

DoClipping ==
    /\ FindProcessMainWindow
    /\ region' = IF m_mainWindow' THEN Region(m_ht', heap') ELSE region

-----------------------------------------------------------------------------
(* The life of the DLL.                                                    *)

VirtualChannelEntry ==
    /\ state = "new"
    /\ state' \in {"initialized", "failed"}
    /\ m_ht' = hash_construct_table(10)
    /\ UNCHANGED <<heap, bars>>
    /\ IF ALWAYS_CLIP /\ state' # "failed" THEN DoClipping ELSE UNCHANGED clipVars
    /\ UNCHANGED <<server, sent, failures, lost>>

\* CHANNEL_EVENT_CONNECTED; the channel may not open.
Connected ==
    /\ state = "initialized" /\ state' = "open"
    /\ UNCHANGED <<tableVars, clipVars, server, sent, failures, lost>>

\* Nothing is forgotten.
Disconnected ==
    /\ state = "open" /\ state' = "initialized"
    /\ UNCHANGED <<tableVars, clipVars, server, sent, failures, lost>>

Terminated ==
    /\ state = "initialized" /\ state' = "terminated"
    /\ UNCHANGED <<tableVars, clipVars, server, sent, failures, lost>>

-----------------------------------------------------------------------------
(* Messages.                                                               *)

\* What the server writes.
Text(m) == <<"MSG", "=", m.type, ";", "ID", "=", m.id, ";", "TITLE", "=">> \o m.title
           \o <<";", "POS", "=", m.at[1], "~", m.at[2], "~", m.at[3], "~", m.at[4], ";",
                "TYPE", "=", "0">>

\* A token with a '-' in it counts as zero.
Coordinate(token) ==
    IF token = <<>> THEN 0 ELSE IF Atoi(token[1]) < 0 THEN 0 ELSE Atoi(token[1])

\* The i-th token, empty if there is none.
Token(tokens, i) == IF i \in DOMAIN tokens THEN tokens[i] ELSE <<>>

\* One field of the message: a name and what follows the first "=".
Field(wid, field) ==
    LET tokens == Tokens(field, {"="})
        name == Token(tokens, 1)
        value == Token(tokens, 2)
        pos == Tokens(value, {"~"})
    IN  CASE name = <<"MSG">> -> [wid EXCEPT !.type = value]
          [] name = <<"ID">> -> [wid EXCEPT !.id = value]
          [] name = <<"POS">> -> [wid EXCEPT !.pos = [i \in 1 .. 4 |-> Coordinate(Token(pos, i))]]
          [] OTHER -> wid

Parsed(text) ==
    FoldLeft(Field, [type |-> <<>>, id |-> <<>>, pos |-> <<0, 0, 0, 0>>], Tokens(text, {";"}))

\* What the client makes of a place.
Rect(at) == [i \in 1 .. 4 |-> Coordinate(<<at[i]>>)]

\* A window's title is up to its program.  Titles is for those that hold nothing
\* which the client would take for another of these fields.
ASSUME TitlesAssumption ==
    /\ \A at \in Places : Rect(at) # Null
    /\ \A type \in {"HSHELL_WINDOWCREATED", "HSHELL_WINDOWDESTROYED", "HCBT_MINMAX",
                    "HCBT_MOVESIZE", "CALLWNDPROC_WM_MOVING"},
          id \in Ids, title \in Titles \cup {<<>>}, at \in Places :
          Parsed(Text([type |-> type, id |-> id, title |-> title, at |-> at]))
              = [type |-> <<type>>, id |-> <<id>>, pos |-> Rect(at)]

New(set) == CHOOSE n \in 1 .. MaxMessages + 1 : n \notin set /\ \A k \in 1 .. n - 1 : k \in set
Key(wid) == Token(wid.id, 1)
With(objects, address, wd) ==
    [a \in DOMAIN objects \cup {address} |-> IF a = address THEN wd ELSE objects[a]]
Without(objects, address) == [a \in DOMAIN objects \ {address} |-> objects[a]]

\* The handle of the new taskbar window, NULL if there is none.
CreateAndShowWindow(fails) == IF fails THEN 0 ELSE New(bars)

DestroyTaskbarWindow(wd) == bars' = bars \ {wd.bar}

\* The object, and the taskbar window, of an earlier window of this id are
\* not looked at again.
HandleCreated(wid) ==
    \E mallocFails, createFails \in BOOLEAN :
    LET address == New(DOMAIN heap)
        bar == CreateAndShowWindow(createFails)
        insert == hash_insert(Key(wid), address, m_ht, mallocFails)
    IN  /\ failures' = failures + (IF mallocFails THEN 1 ELSE 0) + (IF createFails THEN 1 ELSE 0)
        /\ failures' <= MaxFailures
        /\ m_ht' = insert.table
        /\ heap' = With(heap, address, [pos |-> wid.pos, bar |-> bar])
        /\ bars' = bars \cup ({bar} \ {0})
        /\ lost' = (lost \/ mallocFails)
        /\ DoClipping /\ UNCHANGED state

\* DestroyTaskbarWindow is not called.
HandleDestroyed_(wid) ==
    LET del == hash_del(Key(wid), m_ht) IN
    /\ m_ht' = del.table
    /\ heap' = Without(heap, del.result)
    /\ DoClipping
    /\ UNCHANGED <<bars, state, failures, lost>>

\* An id that is not in the table: its data, NULL, is dereferenced.  The object
\* made for the message itself is never deleted.
HandleDestroyed(wid) ==
    LET del == hash_del(Key(wid), m_ht)
        leaked == With(heap, New(DOMAIN heap), [pos |-> wid.pos, bar |-> 0])
    IN  /\ m_ht' = del.table
        /\ IF del.result = Null
           THEN state' = "crashed" /\ UNCHANGED <<heap, bars, clipVars>>
           ELSE /\ DestroyTaskbarWindow(heap[del.result])
                /\ heap' = Without(leaked, del.result)
                /\ DoClipping /\ UNCHANGED state
        /\ UNCHANGED <<failures, lost>>

HandleMoved(wid) ==
    LET data == hash_lookup(Key(wid), m_ht) IN
    /\ UNCHANGED <<m_ht, bars, state, failures, lost>>
    /\ IF data = Null THEN UNCHANGED <<heap, clipVars>>
       ELSE heap' = [heap EXCEPT ![data].pos = wid.pos] /\ DoClipping

\* The object made for the message is never deleted.
HandleOther(wid) ==
    /\ heap' = With(heap, New(DOMAIN heap), [pos |-> wid.pos, bar |-> 0])
    /\ UNCHANGED <<m_ht, bars, clipVars, state, failures, lost>>

Moving == {<<"HCBT_MOVESIZE">>, <<"CALLWNDPROC_WM_MOVING">>}

\* VirtualChannelOpenEvent, for a message that comes in one piece.
VirtualChannelOpenEvent(text) ==
    LET wid == Parsed(text) IN
    CASE wid.type = <<"HSHELL_WINDOWCREATED">> -> HandleCreated(wid)
      [] wid.type = <<"HSHELL_WINDOWDESTROYED">> -> HandleDestroyed(wid)
      [] wid.type \in Moving -> HandleMoved(wid)
      [] OTHER -> HandleOther(wid)

\* A message that comes in pieces is dropped; one may also find no client.
Lose(concerns) ==
    /\ lost' = (lost \/ concerns)
    /\ UNCHANGED <<state, tableVars, clipVars, failures>>

Send(m) ==
    /\ sent < MaxMessages /\ sent' = sent + 1
    /\ state # "crashed"
    /\ \/ state = "open" /\ VirtualChannelOpenEvent(Text(m))
       \/ Lose(m.type # "HCBT_MINMAX")

\* The server's windows come, move and go.
ServerCreates(id, title, at) ==
    /\ server[id] = Null
    /\ Send([type |-> "HSHELL_WINDOWCREATED", id |-> id, title |-> title, at |-> at])
    /\ server' = [server EXCEPT ![id] = at]
ServerMoves(type, id, at) ==
    /\ server[id] # Null
    /\ Send([type |-> type, id |-> id, title |-> <<>>, at |-> at])
    /\ server' = [server EXCEPT ![id] = at]
ServerMinMax(id) ==
    /\ server[id] # Null
    /\ Send([type |-> "HCBT_MINMAX", id |-> id, title |-> <<>>, at |-> server[id]])
    /\ UNCHANGED server
ServerDestroys(id) ==
    /\ server[id] # Null
    /\ Send([type |-> "HSHELL_WINDOWDESTROYED", id |-> id, title |-> <<>>, at |-> server[id]])
    /\ server' = [server EXCEPT ![id] = Null]

Next ==
    \/ VirtualChannelEntry \/ Connected \/ Disconnected \/ Terminated
    \/ \E id \in Ids :
          \/ \E at \in Places, title \in Titles : ServerCreates(id, title, at)
          \/ \E at \in Places, type \in {t[1] : t \in Moving} : ServerMoves(type, id, at)
          \/ ServerMinMax(id) \/ ServerDestroys(id)

Spec == Init /\ [][Next]_vars

-----------------------------------------------------------------------------
(* Properties.                                                             *)

Entries == hash_enumerate(m_ht)
OnScreen(at) == Box(Atoi(at[1]), Atoi(at[2]), Atoi(at[3]), Atoi(at[4]))

\* As long as nothing was lost, what is shown is what the server's windows
\* cover of the desktop, also of those that are partly off it: the comment at
\* clipper.cpp:93 that negative coordinates do not matter is right.
ShowsTheWindows ==
    ~ lost /\ m_mainWindow /\ state # "crashed" =>
        LET there == {id \in Ids : server[id] # Null} IN
        region = IF there = {} /\ ~ ALWAYS_CLIP THEN Screen
                 ELSE UNION {OnScreen(server[id]) : id \in there}

\* As long as nothing was lost there is one taskbar window for each window in
\* the table, unless CreateWindow failed, and no other.
TaskbarMatches ==
    ~ lost =>
        /\ bars = {heap[Entries[i].data].bar : i \in DOMAIN Entries} \ {0}
        /\ Cardinality(bars) + failures >= Len(Entries)

\* What the user sees of the server is what there is.
ScreenMatches == ShowsTheWindows /\ TaskbarMatches

\* The client falls over a HSHELL_WINDOWDESTROYED only if it missed something:
\* a message that came in pieces or while it was away, or a failed malloc.
CrashOnlyAfterLoss == state = "crashed" => lost

\* On every table that occurs, in which keys share a chain: its data are objects
\* that exist, count is right, hash_sorted_enum passes every bucket once, in
\* order, and hash_free_table, which deletes each bucket while it enumerates
\* them, deletes all and gives each one's data to its function (hash.cpp lines
\* 239-275, 342-394).
TableFunctionsAgree ==
    /\ \A i \in DOMAIN Entries : Entries[i].data \in DOMAIN heap
    /\ m_ht.count = Len(Entries)
    /\ LET sorted == hash_sorted_enum(m_ht) IN
          /\ Len(sorted) = Len(Entries) /\ ToSet(sorted) = ToSet(Entries)
          /\ \A i \in 1 .. Len(sorted) - 1 : Less(sorted[i].key, sorted[i + 1].key)
    /\ LET emptied == hash_free_table(m_ht) IN
          /\ emptied.left = 0
          /\ emptied.freed = [i \in DOMAIN Entries |-> Entries[i].data]

\* What the table and the heap say of the windows, and what is seen of them.
Data(table, id) == IF table.size = 0 THEN Null ELSE hash_lookup(id, table)
Windows(table, objects) ==
    [id \in Ids |->
        IF Data(table, id) = Null THEN Null ELSE objects[Data(table, id)].pos]
Shows == IF m_mainWindow THEN region ELSE Region(m_ht, heap)

\* The table and the region implement the map of windows that the DLL is for:
\* each message changes one window, and what is shown follows.
Map == INSTANCE WindowMap WITH
    Absent <- Null,
    Rects <- {Rect(at) : at \in Places},
    Cover <- LAMBDA r : Box(r[1], r[2], r[3], r[4]),
    windows <- Windows(m_ht, heap),
    shown <- Shows

ImplementsMap == Map!MapSpec
=============================================================================
