------------------------------ MODULE SyncProofs ------------------------------
(***************************************************************************)
(* Proofs about Sync, for any windows, owners, places and titles, however  *)
(* often the windows change and the client asks for a SYNC.                *)
(***************************************************************************)
EXTENDS Sync, FiniteSetTheorems, SequenceTheorems, TLAPS

-----------------------------------------------------------------------------
(* What is left of a window's change.                                      *)

Shown == << <<"CREATE">>, <<"TITLE">>, <<"POSITION">>, <<"STATE">> >>
Created == << <<"TITLE">>, <<"POSITION">>, <<"STATE">> >>
Titled == << <<"POSITION">>, <<"STATE">> >>
Placed == << <<"STATE">> >>
Hidden == << <<"DESTROY">> >>
Closed == << <<"DESTROY">>, <<"set", "status", "gone">> >>
Destroyed == << <<"set", "status", "gone">> >>
Texted == << <<"TITLE">> >>
Moved == << <<"POSITION">> >>
Minimised(s) == << <<"set", "state", s>> >>

\* Of one that is hidden, and of one that is shown.
Unseen == {<<Move(p)[1]>> : p \in Places} \cup {<<SetText(t)[1]>> : t \in Titles}
HiddenTodos == {<<>>, Show, Hidden, Closed, Destroyed} \cup Unseen
Begun == {Hide, Close} \cup {Move(p) : p \in Places} \cup {SetText(t) : t \in Titles}
         \cup {MinMax(s) : s \in {0, 1}}
ShownTodos ==
    {<<>>, Shown, Created, Titled, Placed, Texted, Moved} \cup Begun
    \cup {Minimised(s) : s \in {0, 1}}
TodoOK(w) ==
    /\ todo[w] \in HiddenTodos \cup ShownTodos
    /\ window[w].status = "hidden" => todo[w] \in HiddenTodos
    /\ window[w].status = "shown" => todo[w] \in ShownTodos
    /\ window[w].status = "gone" => todo[w] = <<>>

\* A function on 1 .. n is a sequence.
LEMMA FunctionIsSeq ==
    ASSUME NEW C, NEW n \in Nat, NEW f \in [1 .. n -> C]
    PROVE  f \in Seq(C) /\ Len(f) = n
<1>1. f \in Seq(C)
  OBVIOUS
<1> QED BY <1>1

\* Two steps and one.
LEMMA ThreeSteps ==
    ASSUME NEW T, NEW h \in Seq(T), NEW c \in Seq(T), Len(h) = 2, Len(c) = 1
    PROVE  /\ h \o c \in Seq(T) /\ Len(h \o c) = 3
           /\ (h \o c)[1] = h[1] /\ (h \o c)[2] = h[2] /\ (h \o c)[3] = c[1]
<1>1. h \o c \in Seq(T) /\ Len(h \o c) = Len(h) + Len(c)
  BY ConcatProperties
<1>2. Len(h \o c) = 3
  BY <1>1
<1>3. \A i \in 1 .. Len(h) + Len(c) : (h \o c)[i] = IF i <= Len(h) THEN h[i] ELSE c[i - Len(h)]
  BY ConcatProperties, Zenon
<1> QED BY <1>1, <1>2, <1>3

\* The parts of a change, in order.
LEMMA CloseIs == Close = << <<"set", "status", "hidden">>, <<"DESTROY">>, <<"set", "status", "gone">> >>
<1>. DEFINE T == {<<"set", "status", "hidden">>, <<"DESTROY">>, <<"set", "status", "gone">>}
            c == << <<"set", "status", "gone">> >>
            d == << <<"set", "status", "hidden">>, <<"DESTROY">>, <<"set", "status", "gone">> >>
<1>1. Hide \in Seq(T) /\ c \in Seq(T) /\ Len(Hide) = 2 /\ Len(c) = 1
  BY DEF Hide
<1>2. Hide[1] = d[1] /\ Hide[2] = d[2] /\ c[1] = d[3] /\ d \in Seq(T) /\ Len(d) = 3
  BY DEF Hide
<1>3. Close = Hide \o c
  BY DEF Close
<1>. HIDE DEF T, c, d
<1>4. Hide \o c = d
  <2>1. /\ Hide \o c \in Seq(T) /\ Len(Hide \o c) = 3
        /\ (Hide \o c)[1] = d[1] /\ (Hide \o c)[2] = d[2] /\ (Hide \o c)[3] = d[3]
    BY <1>1, <1>2, ThreeSteps
  <2>2. \A i \in 1 .. 3 : i = 1 \/ i = 2 \/ i = 3
    OBVIOUS
  <2> QED BY <2>1, <2>2, <1>2, SeqEqual
<1> QED BY <1>3, <1>4 DEF d

\* Of a title there is just what the hooks write in its field.
LEMMA Filtered ==
    ASSUME NEW t \in Titles
    PROVE  Field(vchannel_strfilter(t)) = vchannel_strfilter(t)
<1>. DEFINE C == {"a", "b", ",", "_"}
            s == vchannel_strfilter(t)
            I == {i \in 1 .. Len(s) : s[i] = ","}
<1>0. t \in Seq(C)
  BY SyncAssumption
<1>1. DOMAIN t = 1 .. Len(t) /\ Len(t) \in Nat
  BY <1>0, LenProperties
<1>2. t \in [1 .. Len(t) -> C]
  BY <1>0, LenProperties
<1>3. s = [i \in 1 .. Len(t) |-> IF t[i] = "," THEN "_" ELSE t[i]]
  BY <1>1 DEF vchannel_strfilter
<1>4. s \in [1 .. Len(t) -> C]
  BY <1>2, <1>3
<1>5. Len(s) = Len(t)
  BY <1>1, <1>4, FunctionIsSeq
<1>6. I = {}
  BY <1>3, <1>5
<1>7. SelectInSeq(s, LAMBDA c : c = ",") = 0
  BY <1>6 DEF SelectInSeq
<1>. HIDE DEF s
<1> QED BY <1>7 DEF Field, s

-----------------------------------------------------------------------------
(* The steps of a window's thread.                                         *)

\* What comes first, and what is left then.
LEMMA FirstOfShow ==
    /\ Head(Show) = <<"set", "status", "shown">> /\ Tail(Show) = Shown
    /\ Head(Shown) = <<"CREATE">> /\ Tail(Shown) = Created
    /\ Head(Created) = <<"TITLE">> /\ Tail(Created) = Titled
    /\ Head(Titled) = <<"POSITION">> /\ Tail(Titled) = Placed
    /\ Head(Placed) = <<"STATE">> /\ Tail(Placed) = <<>>
  BY DEF Show, Shown, Created, Titled, Placed
\* Of a window that is hidden, closed or destroyed.
LEMMA FirstOfHide ==
    /\ Head(Hide) = <<"set", "status", "hidden">> /\ Tail(Hide) = Hidden
    /\ Head(Close) = <<"set", "status", "hidden">> /\ Tail(Close) = Closed
    /\ Head(Hidden) = <<"DESTROY">> /\ Tail(Hidden) = <<>>
    /\ Head(Closed) = <<"DESTROY">> /\ Tail(Closed) = Destroyed
    /\ Head(Destroyed) = <<"set", "status", "gone">> /\ Tail(Destroyed) = <<>>
  BY CloseIs DEF Hide, Hidden, Closed, Destroyed
\* Of one that is moved, visible or not.
LEMMA FirstOfMove ==
    ASSUME NEW p
    PROVE  /\ Head(Move(p)) = <<"set", "place", p>> /\ Tail(Move(p)) = Moved
           /\ Head(<<Move(p)[1]>>) = <<"set", "place", p>> /\ Tail(<<Move(p)[1]>>) = <<>>
           /\ Head(Moved) = <<"POSITION">> /\ Tail(Moved) = <<>>
  BY DEF Move, Moved
\* Of one that gets another title, visible or not.
LEMMA FirstOfSetText ==
    ASSUME NEW t
    PROVE  /\ Head(SetText(t)) = <<"set", "title", t>> /\ Tail(SetText(t)) = Texted
           /\ Head(<<SetText(t)[1]>>) = <<"set", "title", t>> /\ Tail(<<SetText(t)[1]>>) = <<>>
           /\ Head(Texted) = <<"TITLE">> /\ Tail(Texted) = <<>>
  BY DEF SetText, Texted
\* Of one that is minimised or restored: the report comes first.
LEMMA FirstOfMinMax ==
    ASSUME NEW s
    PROVE  /\ Head(MinMax(s)) = <<"STATE", s>> /\ Tail(MinMax(s)) = Minimised(s)
           /\ Head(Minimised(s)) = <<"set", "state", s>> /\ Tail(Minimised(s)) = <<>>
  BY DEF MinMax, Minimised

Sets(w, f, x) == window' = [window EXCEPT ![w][f] = x] /\ mirror' = mirror
Writes(m) == window' = window /\ mirror' = m
Leaves(w, rest) == todo' = [todo EXCEPT ![w] = rest]

\* A step that changes a field, and no message.
LEMMA SetStep ==
    ASSUME NEW w, Step(w), NEW f, NEW x, NEW rest,
           Head(todo[w]) = <<"set", f, x>>, Tail(todo[w]) = rest
    PROVE  Sets(w, f, x) /\ Leaves(w, rest)
<1>1. <<"set", f, x>>[1] = "set" /\ <<"set", f, x>>[2] = f /\ <<"set", f, x>>[3] = x
  OBVIOUS
<1> QED BY <1>1 DEF Step, Sets, Leaves

\* A step that writes a message, and changes no field.
LEMMA WriteStep ==
    ASSUME NEW w, Step(w), NEW rest, Tail(todo[w]) = rest
    PROVE  /\ Leaves(w, rest)
           /\ Head(todo[w]) = <<"CREATE">> => Writes(Announce(w))
           /\ Head(todo[w]) = <<"DESTROY">> => Writes(Destroy(mirror, w))
           /\ Head(todo[w]) = <<"TITLE">> => Writes(Title(mirror, w, window[w].title))
           /\ Head(todo[w]) = <<"POSITION">> => Writes(Place(mirror, w, window[w].place))
           /\ Head(todo[w]) = <<"STATE">> => Writes(State(mirror, w, window[w].state))
           /\ \A s : Head(todo[w]) = <<"STATE", s>> => Writes(State(mirror, w, s))
<1>1. /\ <<"CREATE">>[1] = "CREATE" /\ <<"DESTROY">>[1] = "DESTROY" /\ <<"TITLE">>[1] = "TITLE"
      /\ <<"POSITION">>[1] = "POSITION" /\ <<"STATE">>[1] = "STATE" /\ Len(<<"STATE">>) = 1
      /\ \A s : <<"STATE", s>>[1] = "STATE" /\ <<"STATE", s>>[2] = s /\ Len(<<"STATE", s>>) = 2
  OBVIOUS
<1>2. Leaves(w, rest)
  BY DEF Step, Leaves
<1>3. Head(todo[w]) = <<"CREATE">> => Writes(Announce(w))
  BY <1>1 DEF Step, Writes
<1>4. Head(todo[w]) = <<"DESTROY">> => Writes(Destroy(mirror, w))
  BY <1>1 DEF Step, Writes
<1>5. Head(todo[w]) = <<"TITLE">> => Writes(Title(mirror, w, window[w].title))
  BY <1>1 DEF Step, Writes
<1>6. Head(todo[w]) = <<"POSITION">> => Writes(Place(mirror, w, window[w].place))
  BY <1>1 DEF Step, Writes
<1>7. Head(todo[w]) = <<"STATE">> => Writes(State(mirror, w, window[w].state))
  BY <1>1 DEF Step, Writes
<1>8. ASSUME NEW s, Head(todo[w]) = <<"STATE", s>> PROVE Writes(State(mirror, w, s))
  BY <1>1, <1>8 DEF Step, Writes
<1> QED BY <1>2, <1>3, <1>4, <1>5, <1>6, <1>7, <1>8

\* Every step of a window's thread is one of these: of one that becomes visible,
\* that is hidden or closed, that is moved, gets a text, is minimised or restored.
ShowStep(w) ==
    \/ todo[w] = Show /\ Sets(w, "status", "shown") /\ Leaves(w, Shown)
    \/ todo[w] = Shown /\ Writes(Announce(w)) /\ Leaves(w, Created)
    \/ todo[w] = Created /\ Writes(Title(mirror, w, window[w].title)) /\ Leaves(w, Titled)
    \/ todo[w] = Titled /\ Writes(Place(mirror, w, window[w].place)) /\ Leaves(w, Placed)
    \/ todo[w] = Placed /\ Writes(State(mirror, w, window[w].state)) /\ Leaves(w, <<>>)
HideStep(w) ==
    \/ todo[w] = Hide /\ Sets(w, "status", "hidden") /\ Leaves(w, Hidden)
    \/ todo[w] = Close /\ Sets(w, "status", "hidden") /\ Leaves(w, Closed)
    \/ todo[w] = Hidden /\ Writes(Destroy(mirror, w)) /\ Leaves(w, <<>>)
    \/ todo[w] = Closed /\ Writes(Destroy(mirror, w)) /\ Leaves(w, Destroyed)
    \/ todo[w] = Destroyed /\ Sets(w, "status", "gone") /\ Leaves(w, <<>>)
MoveStep(w) ==
    \/ \E p \in Places : /\ todo[w] = Move(p) /\ Sets(w, "place", p) /\ Leaves(w, Moved)
    \/ \E p \in Places : /\ todo[w] = <<Move(p)[1]>> /\ Sets(w, "place", p) /\ Leaves(w, <<>>)
    \/ todo[w] = Moved /\ Writes(Place(mirror, w, window[w].place)) /\ Leaves(w, <<>>)
TextStep(w) ==
    \/ \E t \in Titles : todo[w] = SetText(t) /\ Sets(w, "title", t) /\ Leaves(w, Texted)
    \/ \E t \in Titles : todo[w] = <<SetText(t)[1]>> /\ Sets(w, "title", t) /\ Leaves(w, <<>>)
    \/ todo[w] = Texted /\ Writes(Title(mirror, w, window[w].title)) /\ Leaves(w, <<>>)
MinMaxStep(w) ==
    \E s \in {0, 1} :
       \/ todo[w] = MinMax(s) /\ Writes(State(mirror, w, s)) /\ Leaves(w, Minimised(s))
       \/ todo[w] = Minimised(s) /\ Sets(w, "state", s) /\ Leaves(w, <<>>)

\* The kinds of steps are all there are.
LEMMA StepKinds ==
    ASSUME NEW w \in Windows, TodoOK(w), Step(w)
    PROVE  ShowStep(w) \/ HideStep(w) \/ MoveStep(w) \/ TextStep(w) \/ MinMaxStep(w)
<1>1. \/ todo[w] \in {Show, Shown, Created, Titled, Placed}
      \/ todo[w] \in {Hide, Close, Hidden, Closed, Destroyed}
      \/ \E p \in Places : todo[w] \in {Move(p), <<Move(p)[1]>>, Moved}
      \/ todo[w] = Moved \/ todo[w] = Texted
      \/ \E t \in Titles : todo[w] \in {SetText(t), <<SetText(t)[1]>>, Texted}
      \/ \E s \in {0, 1} : todo[w] \in {MinMax(s), Minimised(s)}
  BY DEF TodoOK, HiddenTodos, ShownTodos, Begun, Unseen, Step
<1>2. CASE todo[w] \in {Show, Shown, Created, Titled, Placed}
  <2>1. CASE todo[w] = Show
    BY <2>1, FirstOfShow, SetStep DEF ShowStep
  <2>2. CASE todo[w] \in {Shown, Created, Titled, Placed}
    BY <2>2, FirstOfShow, WriteStep DEF ShowStep
  <2> QED BY <1>2, <2>1, <2>2
<1>3. CASE todo[w] \in {Hide, Close, Hidden, Closed, Destroyed}
  <2>1. CASE todo[w] \in {Hide, Close, Destroyed}
    BY <2>1, FirstOfHide, SetStep DEF HideStep
  <2>2. CASE todo[w] \in {Hidden, Closed}
    BY <2>2, FirstOfHide, WriteStep DEF HideStep
  <2> QED BY <1>3, <2>1, <2>2
<1>4. ASSUME NEW p \in Places, todo[w] \in {Move(p), <<Move(p)[1]>>} PROVE MoveStep(w)
  BY <1>4, FirstOfMove, SetStep DEF MoveStep
<1>5. CASE todo[w] = Moved
  BY <1>5, FirstOfMove, WriteStep DEF MoveStep
<1>6. ASSUME NEW t \in Titles, todo[w] \in {SetText(t), <<SetText(t)[1]>>} PROVE TextStep(w)
  BY <1>6, FirstOfSetText, SetStep DEF TextStep
<1>7. CASE todo[w] = Texted
  BY <1>7, FirstOfSetText, WriteStep DEF TextStep
<1>8. ASSUME NEW s \in {0, 1}, todo[w] = MinMax(s) PROVE MinMaxStep(w)
  <2>1. Head(todo[w]) = <<"STATE", s>> /\ Tail(todo[w]) = Minimised(s)
    BY <1>8, FirstOfMinMax
  <2>2. Writes(State(mirror, w, s)) /\ Leaves(w, Minimised(s))
    BY <2>1, WriteStep
  <2> QED BY <1>8, <2>2 DEF MinMaxStep
<1>9. ASSUME NEW s \in {0, 1}, todo[w] = Minimised(s) PROVE MinMaxStep(w)
  <2>1. Head(todo[w]) = <<"set", "state", s>> /\ Tail(todo[w]) = <<>>
    BY <1>9, FirstOfMinMax
  <2>2. Sets(w, "state", s) /\ Leaves(w, <<>>)
    BY <2>1, SetStep
  <2> QED BY <1>9, <2>2 DEF MinMaxStep
<1> QED BY <1>1, <1>2, <1>3, <1>4, <1>5, <1>6, <1>7, <1>8, <1>9

\* The changes with a place, a title or a state.
Moves == {Move(p) : p \in Places} \cup {<<Move(p)[1]>> : p \in Places}
Texts == {SetText(t) : t \in Titles} \cup {<<SetText(t)[1]>> : t \in Titles}
MinMaxes == {MinMax(s) : s \in {0, 1}}
Minimiseds == {Minimised(s) : s \in {0, 1}}
\* The changes without a place, a title or a state differ ...
LEMMA Different ==
    /\ {Show, Shown, Created, Titled, Placed} \cap {Hide, Close, Hidden, Closed, Destroyed} = {}
    /\ {Moved, Texted, <<>>} \cap {Show, Shown, Created, Titled, Placed} = {}
    /\ {Moved, Texted, <<>>} \cap {Hide, Close, Hidden, Closed, Destroyed} = {}
    /\ Moved # Texted /\ Moved # <<>> /\ Texted # <<>>
    /\ Show # Shown /\ Show # Created /\ Show # Titled /\ Show # Placed /\ Shown # Created
    /\ Shown # Titled /\ Shown # Placed /\ Created # Titled /\ Created # Placed /\ Titled # Placed
    /\ Hidden # Hide /\ Hidden # Close /\ Hidden # Closed /\ Hidden # Destroyed /\ Hide # Close
    /\ Hide # Closed /\ Hide # Destroyed /\ Close # Closed /\ Close # Destroyed /\ Closed # Destroyed
  BY CloseIs DEF Show, Shown, Created, Titled, Placed, Hide, Hidden, Closed, Destroyed, Moved, Texted
\* ... from those with one ...
LEMMA DifferentToo ==
    ASSUME NEW x \in Moves \cup Texts \cup MinMaxes \cup Minimiseds
    PROVE  x \notin {Show, Shown, Created, Titled, Placed, Hide, Close, Hidden, Closed, Destroyed,
                     Moved, Texted, <<>>}
<1>. DEFINE S == {Show, Shown, Created, Titled, Placed, Hide, Close, Hidden, Closed, Destroyed,
                     Moved, Texted, <<>>}
<1>1. ASSUME NEW p PROVE Move(p) \notin S /\ <<Move(p)[1]>> \notin S
  BY CloseIs DEF Show, Shown, Created, Titled, Placed, Hide, Hidden, Closed, Destroyed, Moved,
     Texted, Move
<1>2. ASSUME NEW t PROVE SetText(t) \notin S /\ <<SetText(t)[1]>> \notin S
  BY CloseIs DEF Show, Shown, Created, Titled, Placed, Hide, Hidden, Closed, Destroyed, Moved,
     Texted, SetText
<1>3. ASSUME NEW s PROVE MinMax(s) \notin S /\ Minimised(s) \notin S
  BY CloseIs DEF Show, Shown, Created, Titled, Placed, Hide, Hidden, Closed, Destroyed, Moved,
     Texted, MinMax, Minimised
<1>. HIDE DEF S
<1>4. x \notin S
  BY <1>1, <1>2, <1>3 DEF Moves, Texts, MinMaxes, Minimiseds
<1> QED BY <1>4 DEF S
\* ... and the second half of a minimising from all others.
LEMMA MinimisedAlone ==
    /\ Minimiseds \cap (Moves \cup Texts \cup MinMaxes) = {}
    /\ \A r, s : Minimised(r) = Minimised(s) => r = s
<1>1. ASSUME NEW s, NEW p PROVE Minimised(s) # Move(p) /\ Minimised(s) # <<Move(p)[1]>>
  BY DEF Minimised, Move
<1>2. ASSUME NEW s, NEW t PROVE Minimised(s) # SetText(t) /\ Minimised(s) # <<SetText(t)[1]>>
  BY DEF Minimised, SetText
<1>3. ASSUME NEW s, NEW r PROVE Minimised(s) # MinMax(r)
  BY DEF Minimised, MinMax
<1>4. ASSUME NEW r, NEW s, Minimised(r) = Minimised(s) PROVE r = s
  <2>1. Minimised(r)[1][3] = r /\ Minimised(s)[1][3] = s
    BY DEF Minimised
  <2> QED BY <2>1, <1>4
<1> QED BY <1>1, <1>2, <1>3, <1>4 DEF Minimiseds, Moves, Texts, MinMaxes

-----------------------------------------------------------------------------
(* Types.                                                                  *)

InProgress == {"CREATE", "rect", "POSITION", "text", "TITLE", "STATE", "process"}
WindowStates == [status : {"hidden", "shown", "gone"}, place : Places, title : Titles,
                 state : {0, 1}]
Mirrors == [Windows -> Entries \cup {NoWindow}]
Frames == [rest : SUBSET Windows, parent : Windows \cup {NoWindow}]

WindowsOK ==
    /\ window \in [Windows -> WindowStates]
    /\ todo \in [Windows -> HiddenTodos \cup ShownTodos]
    /\ \A w \in Windows : TodoOK(w)
ShellOK ==
    /\ stack \in Seq(Frames)
    /\ at \in {"idle", "enum"} \cup InProgress
    /\ IF at \in InProgress THEN current \in Windows ELSE current = NoWindow
    /\ at \in InProgress \ {"process"} => seen.state \in {0, 1}
    /\ at = "POSITION" => seen.place \in Places
    /\ at = "TITLE" => seen.title \in Titles
CountersOK == own \in Nat \cup {Uncounted} /\ syncs \in Nat /\ changes \in Nat
HistoryOK == changed \subseteq Windows /\ listed \subseteq Windows /\ raced \subseteq Windows
TypeOK == WindowsOK /\ ShellOK /\ mirror \in Mirrors /\ CountersOK /\ HistoryOK

\* A message for one window leaves the others alone.
Alters(m, n, w) == n \in Mirrors /\ \A v \in Windows : v # w => n[v] = m[v]

\* Both opinions of the parent are windows or stand for there being none.
LEMMA Parents ==
    ASSUME NEW w \in Windows
    PROVE  /\ Parent(w) \in Windows \cup {NoWindow}
           /\ get_parent(w) \in Windows \cup {NoWindow, NoTaskbar}
  BY SyncAssumption DEF Parent, get_parent

\* CREATE makes a window known; for one that is known it does nothing.
LEMMA CreateIs ==
    ASSUME NEW m \in Mirrors, NEW w \in Windows, NEW p \in Windows \cup {NoWindow, NoTaskbar}
    PROVE  /\ Alters(m, Create(m, w, p), w)
           /\ Known(Create(m, w, p), w)
           /\ Known(m, w) => Create(m, w, p) = m
           /\ ~ Known(m, w) => Create(m, w, p)[w].parent = p
<1>1. New(p) \in Entries /\ New(p).parent = p
  BY DEF New, Entries
<1>2. New(p) # NoWindow
  BY <1>1, EntriesAssumption
<1>3. Create(m, w, p) \in Mirrors
  BY <1>1 DEF Create, Mirrors
<1> QED BY <1>1, <1>2, <1>3 DEF Create, Known, Alters, Mirrors

\* DESTROY makes it unknown.
LEMMA DestroyIs ==
    ASSUME NEW m \in Mirrors, NEW w \in Windows
    PROVE  Alters(m, Destroy(m, w), w) /\ ~ Known(Destroy(m, w), w)
  BY DEF Destroy, Known, Alters, Mirrors

\* POSITION tells the place of a known window and nothing else.
LEMMA PlaceIs ==
    ASSUME NEW m \in Mirrors, NEW w \in Windows, NEW p \in Places
    PROVE  /\ Alters(m, Place(m, w, p), w)
           /\ Known(Place(m, w, p), w) <=> Known(m, w)
           /\ Known(m, w) => /\ Place(m, w, p)[w].place = p
                             /\ Place(m, w, p)[w].parent = m[w].parent
                             /\ Place(m, w, p)[w].title = m[w].title
                             /\ Place(m, w, p)[w].state = m[w].state
<1>. DEFINE e == [m[w] EXCEPT !.place = p]
<1>1. CASE ~ Known(m, w)
  BY <1>1 DEF Place, Alters
<1>2. CASE Known(m, w)
  <2>1. m[w] \in Entries
    BY <1>2 DEF Known, Mirrors
  <2>2. e \in Entries /\ e.place = p /\ e.parent = m[w].parent /\ e.title = m[w].title
        /\ e.state = m[w].state
    BY <2>1 DEF Entries
  <2>3. Place(m, w, p) = [m EXCEPT ![w] = e]
    BY <1>2 DEF Place
  <2>4. e # NoWindow
    BY <2>2, EntriesAssumption
  <2>. HIDE DEF e
  <2> QED BY <1>2, <2>2, <2>3, <2>4 DEF Alters, Known, Mirrors
<1> QED BY <1>1, <1>2

\* TITLE tells its title, as the hooks write it.
LEMMA TitleIs ==
    ASSUME NEW m \in Mirrors, NEW w \in Windows, NEW t \in Titles
    PROVE  /\ Alters(m, Title(m, w, t), w)
           /\ Known(Title(m, w, t), w) <=> Known(m, w)
           /\ Known(m, w) => /\ Title(m, w, t)[w].title = vchannel_strfilter(t)
                             /\ Title(m, w, t)[w].parent = m[w].parent
                             /\ Title(m, w, t)[w].place = m[w].place
                             /\ Title(m, w, t)[w].state = m[w].state
<1>. DEFINE e == [m[w] EXCEPT !.title = vchannel_strfilter(t)]
<1>1. CASE ~ Known(m, w)
  BY <1>1 DEF Title, Alters
<1>2. CASE Known(m, w)
  <2>1. m[w] \in Entries
    BY <1>2 DEF Known, Mirrors
  <2>2. e \in Entries /\ e.title = vchannel_strfilter(t) /\ e.parent = m[w].parent
        /\ e.place = m[w].place /\ e.state = m[w].state
    BY <2>1 DEF Entries
  <2>3. Title(m, w, t) = [m EXCEPT ![w] = e]
    BY <1>2, Filtered DEF Title
  <2>4. e # NoWindow
    BY <2>2, EntriesAssumption
  <2>. HIDE DEF e
  <2> QED BY <1>2, <2>2, <2>3, <2>4 DEF Alters, Known, Mirrors
<1> QED BY <1>1, <1>2

\* STATE tells its state.
LEMMA StateIs ==
    ASSUME NEW m \in Mirrors, NEW w \in Windows, NEW s \in {0, 1}
    PROVE  /\ Alters(m, State(m, w, s), w)
           /\ Known(State(m, w, s), w) <=> Known(m, w)
           /\ Known(m, w) => /\ State(m, w, s)[w].state = s
                             /\ State(m, w, s)[w].parent = m[w].parent
                             /\ State(m, w, s)[w].place = m[w].place
                             /\ State(m, w, s)[w].title = m[w].title
<1>. DEFINE e == [m[w] EXCEPT !.state = s]
<1>1. CASE ~ Known(m, w)
  BY <1>1 DEF State, Alters
<1>2. CASE Known(m, w)
  <2>1. m[w] \in Entries
    BY <1>2 DEF Known, Mirrors
  <2>2. e \in Entries /\ e.state = s /\ e.parent = m[w].parent /\ e.title = m[w].title
        /\ e.place = m[w].place
    BY <2>1 DEF Entries
  <2>3. State(m, w, s) = [m EXCEPT ![w] = e]
    BY <1>2 DEF State
  <2>4. e # NoWindow
    BY <2>2, EntriesAssumption
  <2>. HIDE DEF e
  <2> QED BY <1>2, <2>2, <2>3, <2>4 DEF Alters, Known, Mirrors
<1> QED BY <1>1, <1>2

\* What becomes of the calls of EnumWindows when one ends.
LEMMA Popped ==
    ASSUME NEW l \in Seq(Frames), l # <<>>
    PROVE  /\ Tail(l) \in Seq(Frames) /\ Len(Tail(l)) = Len(l) - 1
           /\ \A i \in 1 .. Len(Tail(l)) : i + 1 \in 1 .. Len(l) /\ Tail(l)[i] = l[i + 1]
           /\ Head(l) = l[1] /\ l[1] \in Frames /\ Len(l) \in Nat /\ Len(l) > 0
           /\ Tail(l) = <<>> <=> Len(l) = 1
<1>1. Tail(l) \in Seq(Frames) /\ Len(Tail(l)) = Len(l) - 1 /\ Len(l) > 0 /\ Len(l) \in Nat
  OBVIOUS
<1>2. \A i \in 1 .. Len(Tail(l)) : i + 1 \in 1 .. Len(l) /\ Tail(l)[i] = l[i + 1]
  BY <1>1
<1>3. Head(l) = l[1] /\ l[1] \in Frames
  BY <1>1
<1>4. Tail(l) = <<>> <=> Len(l) = 1
  <2>1. \A q \in Seq(Frames) : q = <<>> <=> Len(q) = 0
    BY EmptySeq
  <2> QED BY <1>1, <2>1
<1> QED BY <1>1, <1>2, <1>3, <1>4
\* One begins within another.
LEMMA Pushed ==
    ASSUME NEW l \in Seq(Frames), NEW f \in Frames
    PROVE  /\ <<f>> \o l \in Seq(Frames) /\ Len(<<f>> \o l) = Len(l) + 1 /\ <<f>> \o l # <<>>
           /\ (<<f>> \o l)[1] = f
           /\ \A i \in 2 .. Len(l) + 1 : i - 1 \in 1 .. Len(l) /\ (<<f>> \o l)[i] = l[i - 1]
           /\ \A i \in 1 .. Len(l) : i + 1 \in 1 .. Len(l) + 1 /\ (<<f>> \o l)[i + 1] = l[i]
<1>. DEFINE h == <<f>>
<1>1. h \in Seq(Frames) /\ Len(h) = 1 /\ h[1] = f /\ Len(l) \in Nat
  BY LenProperties
<1>. HIDE DEF h
<1>2. h \o l \in Seq(Frames) /\ Len(h \o l) = Len(h) + Len(l)
  BY <1>1, ConcatProperties
<1>3. \A i \in 1 .. Len(h) + Len(l) : (h \o l)[i] = IF i <= Len(h) THEN h[i] ELSE l[i - Len(h)]
  BY <1>1, ConcatProperties, Zenon
<1>4. Len(h \o l) = Len(l) + 1 /\ (h \o l)[1] = f /\ h \o l # <<>>
  BY <1>1, <1>2, <1>3, EmptySeq
<1>5. ASSUME NEW i \in 2 .. Len(l) + 1 PROVE i - 1 \in 1 .. Len(l) /\ (h \o l)[i] = l[i - 1]
  <2>1. i \in 1 .. Len(h) + Len(l) /\ ~ i <= Len(h) /\ i - Len(h) = i - 1
    BY <1>1
  <2>2. (h \o l)[i] = l[i - 1]
    BY <2>1, <1>3, Zenon
  <2> QED BY <1>1, <2>2
<1>6. ASSUME NEW i \in 1 .. Len(l) PROVE i + 1 \in 1 .. Len(l) + 1 /\ (h \o l)[i + 1] = l[i]
  <2>1. PICK j : j = i + 1
    OBVIOUS
  <2>2. j \in 2 .. Len(l) + 1 /\ j - 1 = i
    BY <1>1, <2>1
  <2>3. (h \o l)[j] = l[i]
    BY <2>2, <1>5, Zenon
  <2> QED BY <1>1, <2>1, <2>3
<1> QED BY <1>2, <1>4, <1>5, <1>6 DEF h
\* One goes on: its list changes, and nothing else.
LEMMA Taken ==
    ASSUME NEW l \in Seq(Frames), l # <<>>, NEW R \in SUBSET Windows
    PROVE  LET n == [l EXCEPT ![1].rest = R] IN
           /\ n \in Seq(Frames) /\ Len(n) = Len(l) /\ n # <<>>
           /\ n[1].rest = R /\ \A i \in 1 .. Len(l) : n[i].parent = l[i].parent
           /\ \A i \in 1 .. Len(l) : i # 1 => n[i].rest = l[i].rest
<1>. DEFINE f == [l[1] EXCEPT !.rest = R]
            n == [l EXCEPT ![1] = f]
<1>1. Len(l) \in Nat /\ 1 \in 1 .. Len(l) /\ l[1] \in Frames
  BY Popped
<1>2. f \in Frames /\ f.rest = R /\ f.parent = l[1].parent
  BY <1>1 DEF Frames
<1>. HIDE DEF f
<1>3. n \in Seq(Frames) /\ Len(n) = Len(l) /\ \A i \in 1 .. Len(l) : n[i] = IF i = 1 THEN f ELSE l[i]
  BY <1>1, <1>2, ExceptSeq
<1>4. n # <<>>
  BY <1>1, <1>3, EmptySeq
<1>5. [l EXCEPT ![1].rest = R] = n
  BY DEF f
<1> HIDE DEF n
<1> QED BY <1>1, <1>2, <1>3, <1>4, <1>5

\* What a window may do leaves it such steps.
LEMMA ChangesTyped ==
    ASSUME NEW w \in Windows, window[w] \in WindowStates, NEW c \in Changes(w)
    PROVE  /\ window[w].status # "gone"
           /\ window[w].status = "hidden" => c \in {Show, Destroyed} \cup Unseen
           /\ window[w].status = "shown" => c \in Begun
<1>1. CASE window[w].status = "gone"
  BY <1>1 DEF Changes
<1>2. CASE window[w].status = "hidden"
  BY <1>2 DEF Changes, Destroyed, Unseen
<1>3. CASE window[w].status = "shown"
  <2>1. 1 - window[w].state \in {0, 1}
    BY DEF WindowStates
  <2> QED BY <1>3, <2>1 DEF Changes, Begun
<1> QED BY <1>1, <1>2, <1>3 DEF WindowStates

\* Nor does what is left for a hidden window look like what is left for one that
\* is shown.
LEMMA UnseenAlone == Unseen \cap (Begun \cup Minimiseds) = {}
<1>1. ASSUME NEW s, NEW p PROVE <<Move(p)[1]>> # Minimised(s) /\ <<Move(p)[1]>> # MinMax(s)
  BY DEF Minimised, Move, MinMax
<1>2. ASSUME NEW s, NEW t PROVE <<SetText(t)[1]>> # Minimised(s) /\ <<SetText(t)[1]>> # MinMax(s)
  BY DEF Minimised, SetText, MinMax
<1>3. ASSUME NEW p, NEW q, NEW t
      PROVE  /\ <<Move(p)[1]>> # Move(q) /\ <<Move(p)[1]>> # SetText(t)
             /\ <<SetText(t)[1]>> # Move(q)
  BY DEF SetText, Move
<1>4. ASSUME NEW t, NEW r PROVE <<SetText(t)[1]>> # SetText(r)
  BY DEF SetText
<1>5. Unseen \cap {Hide, Close} = {}
  BY DifferentToo DEF Unseen, Moves, Texts
<1> QED BY <1>1, <1>2, <1>3, <1>4, <1>5 DEF Unseen, Begun, Minimiseds
\* So what is left tells whether the window is shown.
LEMMA StatusOf ==
    ASSUME NEW w, TodoOK(w), window[w].status \in {"hidden", "shown", "gone"}
    PROVE  /\ todo[w] \in {Show, Hidden, Closed, Destroyed} \cup Unseen
                 => window[w].status = "hidden"
           /\ todo[w] \in {Shown, Created, Titled, Placed, Moved, Texted} \cup Begun \cup Minimiseds
                 => window[w].status = "shown"
<1>. DEFINE H == {Show, Hidden, Closed, Destroyed} \cup Unseen
            S == {Shown, Created, Titled, Placed, Moved, Texted} \cup Begun \cup Minimiseds
<1>1. <<>> \notin H \cup S
  BY Different, DifferentToo DEF Unseen, Begun, Moves, Texts, MinMaxes
<1>2. {Show, Hidden, Closed, Destroyed}
         \cap {Shown, Created, Titled, Placed, Moved, Texted, Hide, Close} = {}
  BY Different
<1>3. Unseen \cap {Shown, Created, Titled, Placed, Moved, Texted} = {}
  BY DifferentToo DEF Unseen, Moves, Texts
<1>4. \A x \in Begun \ {Hide, Close} : x \in Moves \cup Texts \cup MinMaxes
  BY DEF Begun, Moves, Texts, MinMaxes
<1>5. {Show, Hidden, Closed, Destroyed} \cap (Begun \cup Minimiseds) = {}
  BY <1>2, <1>4, DifferentToo
<1>6. H \cap S = {}
  BY <1>2, <1>3, <1>5, UnseenAlone
<1>7. HiddenTodos = H \cup {<<>>} /\ ShownTodos = S \cup {<<>>}
  BY DEF HiddenTodos, ShownTodos, Minimiseds
<1>. HIDE DEF H, S
<1>8. todo[w] \in H => window[w].status = "hidden"
  BY <1>1, <1>6, <1>7 DEF TodoOK
<1>9. todo[w] \in S => window[w].status = "shown"
  BY <1>1, <1>6, <1>7 DEF TodoOK
<1> QED BY <1>8, <1>9 DEF H, S

\* A window's thread stays within what may be left of a change.
LEMMA WindowsInvariance ==
    ASSUME TypeOK, [Next]_vars
    PROVE  WindowsOK'
<1>. USE DEF TypeOK
<1>1. CASE UNCHANGED <<window, todo>>
  BY <1>1 DEF WindowsOK, TodoOK
<1>2. ASSUME NEW w \in Windows, Change(w) PROVE WindowsOK'
  <2>1. PICK c \in Changes(w) : todo' = [todo EXCEPT ![w] = c]
    BY <1>2 DEF Change
  <2>2. window' = window /\ window[w] \in WindowStates
    BY <1>2 DEF Change, WindowsOK
  <2>3. /\ window[w].status # "gone"
        /\ window[w].status = "hidden" => c \in HiddenTodos
        /\ window[w].status = "shown" => c \in ShownTodos
    BY <2>2, ChangesTyped DEF HiddenTodos, ShownTodos
  <2>4. window[w].status \in {"hidden", "shown", "gone"}
    BY <2>2 DEF WindowStates
  <2> QED BY <2>1, <2>2, <2>3, <2>4 DEF WindowsOK, TodoOK
<1>3. ASSUME NEW w \in Windows, Step(w) PROVE WindowsOK'
  <2>. DEFINE Fits(v, r) ==
                /\ v \in WindowStates /\ r \in HiddenTodos \cup ShownTodos
                /\ v.status = "hidden" => r \in HiddenTodos
                /\ v.status = "shown" => r \in ShownTodos
                /\ v.status = "gone" => r = <<>>
  <2>1. ASSUME NEW v, NEW r, Fits(v, r), window' = [window EXCEPT ![w] = v], Leaves(w, r)
        PROVE  WindowsOK'
    BY <2>1 DEF WindowsOK, TodoOK, Leaves
  <2>2. /\ TodoOK(w) /\ window[w] \in WindowStates /\ window = [window EXCEPT ![w] = window[w]]
        /\ window[w].status \in {"hidden", "shown", "gone"}
    BY DEF WindowsOK, WindowStates
  <2>3. ASSUME NEW f, NEW x, Sets(w, f, x)
        PROVE  window' = [window EXCEPT ![w] = [window[w] EXCEPT ![f] = x]]
    BY <2>3 DEF Sets
  <2>4. /\ Shown \in ShownTodos /\ Created \in ShownTodos /\ Titled \in ShownTodos
        /\ Placed \in ShownTodos /\ Moved \in ShownTodos /\ Texted \in ShownTodos
        /\ <<>> \in ShownTodos /\ <<>> \in HiddenTodos
        /\ Hidden \in HiddenTodos /\ Closed \in HiddenTodos /\ Destroyed \in HiddenTodos
        /\ \A s \in {0, 1} : Minimised(s) \in ShownTodos
    BY DEF HiddenTodos, ShownTodos
  <2>5. CASE ShowStep(w)
    <3>1. todo[w] = Show => window[w].status = "hidden"
      BY <2>2, StatusOf
    <3>2. todo[w] \in {Shown, Created, Titled, Placed} => window[w].status = "shown"
      BY <2>2, StatusOf
    <3>3. CASE todo[w] = Show /\ Sets(w, "status", "shown") /\ Leaves(w, Shown)
      <4>. DEFINE v == [window[w] EXCEPT !.status = "shown"]
      <4>1. Fits(v, Shown)
        BY <2>2, <2>4 DEF WindowStates
      <4>. HIDE DEF v, Fits
      <4> QED BY <4>1, <3>3, <2>1, <2>3 DEF v
    <3>. HIDE DEF Fits
    <3>4. ASSUME NEW r \in {Created, Titled, Placed, <<>>}, Leaves(w, r), window' = window,
                 todo[w] \in {Shown, Created, Titled, Placed}
          PROVE  WindowsOK'
      BY <3>4, <3>2, <2>1, <2>2, <2>4 DEF Fits
    <3> QED BY <2>5, <3>3, <3>4 DEF ShowStep, Writes
  <2>6. CASE HideStep(w)
    <3>1. todo[w] \in {Hide, Close} => window[w].status = "shown"
      BY <2>2, StatusOf DEF Begun
    <3>2. todo[w] \in {Hidden, Closed, Destroyed} => window[w].status = "hidden"
      BY <2>2, StatusOf
    <3>3. ASSUME NEW r \in {Hidden, Closed}, Sets(w, "status", "hidden"), Leaves(w, r)
          PROVE  WindowsOK'
      <4>. DEFINE v == [window[w] EXCEPT !.status = "hidden"]
      <4>1. Fits(v, r)
        BY <2>2, <2>4 DEF WindowStates
      <4>. HIDE DEF v, Fits
      <4> QED BY <4>1, <3>3, <2>1, <2>3 DEF v
    <3>4. CASE todo[w] = Destroyed /\ Sets(w, "status", "gone") /\ Leaves(w, <<>>)
      <4>. DEFINE v == [window[w] EXCEPT !.status = "gone"]
      <4>1. Fits(v, <<>>)
        BY <2>2, <2>4 DEF WindowStates
      <4>. HIDE DEF v, Fits
      <4> QED BY <4>1, <3>4, <2>1, <2>3 DEF v
    <3>. HIDE DEF Fits
    <3>5. ASSUME NEW r \in {Destroyed, <<>>}, Leaves(w, r), window' = window,
                 todo[w] \in {Hidden, Closed}
          PROVE  WindowsOK'
      BY <3>5, <3>2, <2>1, <2>2, <2>4 DEF Fits
    <3> QED BY <2>6, <3>3, <3>4, <3>5 DEF HideStep, Writes
  <2>7. ASSUME NEW f \in {"place", "title", "state"}, NEW x, NEW r, Sets(w, f, x), Leaves(w, r),
               f = "place" => x \in Places, f = "title" => x \in Titles,
               f = "state" => x \in {0, 1},
               \/ r \in {Moved, Texted, <<>>} /\ todo[w] \in Begun \cup Minimiseds
               \/ r = <<>> /\ todo[w] \in Unseen
        PROVE  WindowsOK'
    <3>. DEFINE v == [window[w] EXCEPT ![f] = x]
    <3>1. v \in WindowStates /\ v.status = window[w].status
      BY <2>2, <2>7 DEF WindowStates
    <3>2. \/ window[w].status = "shown" /\ r \in ShownTodos
          \/ window[w].status = "hidden" /\ r \in HiddenTodos
      BY <2>2, <2>4, <2>7, StatusOf
    <3>3. window' = [window EXCEPT ![w] = v]
      BY <2>3, <2>7
    <3>. HIDE DEF v
    <3> QED BY <3>1, <3>2, <3>3, <2>1, <2>7
  <2>8. ASSUME NEW r, Leaves(w, r), window' = window,
               \/ todo[w] \in {Moved, Texted} /\ r = <<>>
               \/ todo[w] \in MinMaxes /\ r \in Minimiseds
        PROVE  WindowsOK'
    <3>1. MinMaxes \subseteq Begun /\ Minimiseds \subseteq ShownTodos
      BY DEF MinMaxes, Begun, Minimiseds, ShownTodos
    <3>2. window[w].status = "shown" /\ r \in ShownTodos
      BY <2>2, <2>4, <2>8, <3>1, StatusOf
    <3> QED BY <3>2, <2>1, <2>2, <2>8
  <2>. HIDE DEF Fits
  <2>a. /\ \A p \in Places : Move(p) \in Begun /\ <<Move(p)[1]>> \in Unseen
        /\ \A t \in Titles : SetText(t) \in Begun /\ <<SetText(t)[1]>> \in Unseen
        /\ \A s \in {0, 1} : MinMax(s) \in MinMaxes /\ Minimised(s) \in Minimiseds
    BY DEF Begun, Unseen, MinMaxes, Minimiseds
  <2>9. CASE MoveStep(w)
    BY <2>9, <2>a, <2>7, <2>8 DEF MoveStep, Writes
  <2>10. CASE TextStep(w)
    BY <2>10, <2>a, <2>7, <2>8 DEF TextStep, Writes
  <2>11. CASE MinMaxStep(w)
    BY <2>11, <2>a, <2>7, <2>8 DEF MinMaxStep, Writes
  <2> QED BY <1>3, <2>2, <2>5, <2>6, <2>9, <2>10, <2>11, StepKinds
<1>4. do_sync \/ enum_cb \/ Return \/ Process => UNCHANGED <<window, todo>>
  BY DEF do_sync, enum_cb, NextWindow, WriteCreate, GetWindowRect, WritePosition, GetWindowText,
     WriteTitle, WriteState, Recurse, Return, Process, Write, windowVars
<1> QED BY <1>1, <1>2, <1>3, <1>4 DEF Next, vars, windowVars

\* What the windows' threads and the shell do.
LEMMA Steps ==
    ASSUME [Next]_vars
    PROVE  \/ \E w \in Windows : Change(w) \/ Step(w)
           \/ do_sync \/ NextWindow \/ WriteCreate \/ GetWindowRect \/ WritePosition
           \/ GetWindowText \/ WriteTitle \/ WriteState \/ Recurse \/ Return \/ Process
           \/ UNCHANGED vars
  BY DEF Next, enum_cb

\* The list of EnumWindows.
LEMMA Lists == ASSUME NEW p \in Windows \cup {NoWindow}
               PROVE  [rest |-> Existing, parent |-> p] \in Frames
  BY DEF Existing, Frames

\* The shell stays within its enumerations and its types.
LEMMA ShellInvariance ==
    ASSUME TypeOK, [Next]_vars
    PROVE  ShellOK'
<1>. USE DEF TypeOK
<1>1. CASE UNCHANGED enumVars
  BY <1>1 DEF ShellOK, enumVars
<1>2. CASE do_sync
  <2>1. [rest |-> Existing, parent |-> NoWindow] \in Frames
    BY Lists
  <2> QED BY <1>2, <2>1 DEF do_sync, EnumWindows, ShellOK, InProgress
<1>3. CASE NextWindow
  <2>1. PICK w \in Head(stack).rest :
           /\ stack' = [stack EXCEPT ![1].rest = Remaining(@, w)]
           /\ \/ UNCHANGED <<at, current, seen>>
              \/ at' = "CREATE" /\ current' = w /\ seen' = [state |-> window[w].state]
    BY <1>3 DEF NextWindow
  <2>2. stack # <<>> /\ stack \in Seq(Frames)
    BY <1>3 DEF NextWindow, ShellOK
  <2>3. Head(stack) = stack[1] /\ stack[1].rest \subseteq Windows
    BY <2>2, Popped DEF Frames
  <2>4. stack' \in Seq(Frames)
    <3>1. Remaining(stack[1].rest, w) \in SUBSET Windows
      BY <2>3 DEF Remaining
    <3>2. 1 \in DOMAIN stack
      BY <2>2
    <3>3. stack' = [stack EXCEPT ![1].rest = Remaining(stack[1].rest, w)]
      BY <2>1, <3>2
    <3> QED BY <2>2, <3>1, <3>3, Taken
  <2>5. window[w].state \in {0, 1} /\ w \in Windows
    BY <2>1, <2>3 DEF WindowsOK, WindowStates
  <2> QED BY <2>1, <2>4, <2>5 DEF ShellOK, InProgress
<1>4. CASE WriteCreate \/ WritePosition \/ WriteTitle \/ WriteState
  BY <1>4 DEF WriteCreate, WritePosition, WriteTitle, WriteState, Write, ShellOK, InProgress
<1>5. CASE GetWindowRect \/ GetWindowText
  <2>1. current \in Windows /\ window[current] \in WindowStates
    BY <1>5 DEF GetWindowRect, GetWindowText, ShellOK, InProgress, WindowsOK
  <2> QED BY <1>5, <2>1 DEF GetWindowRect, GetWindowText, ShellOK, InProgress, WindowStates
<1>6. CASE Recurse
  <2>1. stack \in Seq(Frames) /\ [rest |-> Existing, parent |-> current] \in Frames
    BY <1>6, Lists DEF Recurse, ShellOK, InProgress
  <2>2. stack' = <<[rest |-> Existing, parent |-> current]>> \o stack
    BY <1>6 DEF Recurse, EnumWindows
  <2>3. stack' \in Seq(Frames)
    BY <2>1, <2>2, Pushed
  <2> QED BY <1>6, <2>3 DEF Recurse, ShellOK, InProgress
<1>7. CASE Return
  <2>1. stack' \in Seq(Frames)
    BY <1>7, Popped DEF Return, ShellOK
  <2> QED BY <1>7, <2>1 DEF Return, ShellOK, InProgress
<1> QED BY <1>1, <1>2, <1>3, <1>4, <1>5, <1>6, <1>7, Steps DEF Change, Step, Process, vars, enumVars

\* Whoever writes, what the client knows are entries.
LEMMA MirrorInvariance ==
    ASSUME TypeOK, [Next]_vars
    PROVE  mirror' \in Mirrors
<1>. USE DEF TypeOK
<1>1. CASE mirror' = mirror
  BY <1>1
<1>2. ASSUME NEW w \in Windows, Step(w) PROVE mirror' \in Mirrors
  <2>1. window[w].place \in Places /\ window[w].title \in Titles /\ window[w].state \in {0, 1}
        /\ TodoOK(w)
    BY DEF WindowsOK, WindowStates
  <2>2. \A s \in {0, 1} : State(mirror, w, s) \in Mirrors
    BY StateIs DEF Alters
  <2>3. /\ Create(mirror, w, get_parent(w)) \in Mirrors /\ Destroy(mirror, w) \in Mirrors
        /\ Place(mirror, w, window[w].place) \in Mirrors
        /\ Title(mirror, w, window[w].title) \in Mirrors
    BY <2>1, CreateIs, DestroyIs, PlaceIs, TitleIs, Parents DEF Alters
  <2>4. \/ mirror' = mirror \/ mirror' = Create(mirror, w, get_parent(w))
        \/ mirror' = Destroy(mirror, w)
        \/ mirror' = Place(mirror, w, window[w].place)
        \/ mirror' = Title(mirror, w, window[w].title)
        \/ \E s \in {0, 1} : mirror' = State(mirror, w, s)
    BY <1>2, <2>1, StepKinds
       DEF ShowStep, HideStep, MoveStep, TextStep, MinMaxStep, Sets, Writes, Announce
  <2> QED BY <2>2, <2>3, <2>4
<1>3. CASE do_sync
  BY <1>3 DEF do_sync, Mirrors
<1>4. CASE WriteCreate \/ WritePosition \/ WriteTitle \/ WriteState
  <2>1. /\ current \in Windows
        /\ at = "POSITION" => seen.place \in Places
        /\ at = "TITLE" => seen.title \in Titles
        /\ at = "STATE" => seen.state \in {0, 1}
    BY <1>4 DEF WriteCreate, WritePosition, WriteTitle, WriteState, ShellOK, InProgress
  <2>2. CASE WriteCreate
    BY <2>1, <2>2, CreateIs, Parents DEF WriteCreate, Write, Alters
  <2>3. CASE WritePosition
    BY <2>1, <2>3, PlaceIs DEF WritePosition, Write, Alters
  <2>4. CASE WriteTitle
    BY <2>1, <2>4, TitleIs DEF WriteTitle, Write, Alters
  <2>5. CASE WriteState
    BY <2>1, <2>5, StateIs DEF WriteState, Write, Alters
  <2> QED BY <1>4, <2>2, <2>3, <2>4, <2>5
<1> QED BY <1>1, <1>2, <1>3, <1>4, Steps
        DEF Change, NextWindow, GetWindowRect, GetWindowText, Recurse, Return, Process, vars

\* The messages counted, and the histories.
LEMMA CountersInvariance ==
    ASSUME TypeOK, [Next]_vars
    PROVE  CountersOK' /\ HistoryOK'
<1>. USE DEF TypeOK, CountersOK, HistoryOK, Put, Uncounted
<1>1. ASSUME NEW w \in Windows, Change(w) \/ Step(w) PROVE CountersOK' /\ HistoryOK'
  BY <1>1 DEF Change, Step, enumVars
<1>2. CASE do_sync
  BY <1>2 DEF do_sync, windowVars
<1>3. CASE NextWindow
  <2>1. Head(stack).rest \subseteq Windows
    BY <1>3, Popped DEF NextWindow, ShellOK, Frames
  <2> QED BY <1>3, <2>1 DEF NextWindow, windowVars
<1>4. CASE WriteCreate
  <2>1. current \in Windows
    BY <1>4 DEF WriteCreate, ShellOK, InProgress
  <2> QED BY <1>4, <2>1 DEF WriteCreate, Write, windowVars
<1>5. CASE GetWindowRect \/ WritePosition \/ GetWindowText \/ WriteTitle \/ WriteState \/ Recurse
           \/ Return \/ Process
  BY <1>5 DEF GetWindowRect, WritePosition, GetWindowText, WriteTitle, WriteState, Recurse, Return,
     Process, Write, windowVars, enumVars, historyVars, vchannel_process
<1> QED BY <1>1, <1>2, <1>3, <1>4, <1>5, Steps DEF vars, windowVars, enumVars, historyVars

\* The windows, what is left of their changes, the shell, the client's mirror and
\* the counters are always within their types.
THEOREM TypeCorrect == Spec => []TypeOK
<1>1. Init => TypeOK
  <2> SUFFICES ASSUME Init PROVE TypeOK
    OBVIOUS
  <2>2. WindowsOK
    <3>1. window \in [Windows -> WindowStates]
      BY DEF Init, WindowStates
    <3>2. <<>> \in HiddenTodos /\ <<>> \in ShownTodos
      BY DEF HiddenTodos, ShownTodos
    <3> QED BY <3>1, <3>2 DEF Init, WindowsOK, TodoOK, WindowStates
  <2>3. ShellOK
    BY DEF Init, ShellOK, InProgress
  <2>4. mirror \in Mirrors /\ CountersOK /\ HistoryOK
    BY DEF Init, Mirrors, CountersOK, HistoryOK
  <2> QED BY <2>2, <2>3, <2>4 DEF TypeOK
<1>2. TypeOK /\ [Next]_vars => TypeOK'
  BY WindowsInvariance, ShellInvariance, MirrorInvariance, CountersInvariance DEF TypeOK
<1> QED BY <1>1, <1>2, PTL DEF Spec

-----------------------------------------------------------------------------
(* Parents before their children.                                          *)

\* The window enum_cb is at is one of the innermost enumeration, and has been
\* listed once its CREATE is written.
EnumOK ==
    /\ (at = "idle") <=> (stack = <<>>)
    /\ at \in InProgress => /\ Parent(current) = stack[1].parent
                            /\ (current \in listed) <=> (at # "CREATE")

\* Those enum_cb is through with.
Done == listed \ {current}

\* The enumerations are of the children of different windows, which have been
\* listed; none of them still has a child to come that has been listed, and of what
\* is listed the parent is.
ParentsDone == \A i \in 1 .. Len(stack) : stack[i].parent \in Done \cup {NoWindow}
OncePerParent ==
    \A i, j \in 1 .. Len(stack) : stack[i].parent = stack[j].parent => i = j
NotTwice ==
    \A i \in 1 .. Len(stack) : \A w \in stack[i].rest :
        Parent(w) = stack[i].parent => w \notin listed \cup {current}
ListedAfterParent ==
    \A w \in Windows : w \in listed \cup {current} => Parent(w) \in Done \cup {NoWindow}
FramesOK == ParentsDone /\ OncePerParent /\ NotTwice /\ ListedAfterParent

\* Steps that leave the enumerations as they are.
LEMMA FramesStay ==
    ASSUME EnumOK, FramesOK, UNCHANGED <<stack, at, current, listed>>
    PROVE  EnumOK' /\ FramesOK'
  BY DEF EnumOK, FramesOK, ParentsDone, OncePerParent, NotTwice, ListedAfterParent, Done

\* The order of the enumerations is kept by every step.
LEMMA FramesInvariance ==
    ASSUME TypeOK, EnumOK, FramesOK, [Next]_vars
    PROVE  EnumOK' /\ FramesOK'
<1>. USE DEF TypeOK, ShellOK
<1>1. CASE UNCHANGED <<stack, at, current, listed>>
  BY <1>1, FramesStay
<1>2. CASE do_sync
  <2>1. /\ stack' = <<[rest |-> Existing, parent |-> NoWindow]>> /\ at' = "enum"
        /\ listed' = {} /\ current' = NoWindow
    BY <1>2 DEF do_sync, EnumWindows, InProgress
  <2>2. stack' # <<>> /\ Len(stack') = 1 /\ stack'[1].parent = NoWindow
        /\ stack'[1].rest = Existing
    BY <2>1
  <2>3. EnumOK'
    BY <2>1, <2>2 DEF EnumOK, InProgress
  <2>4. \A i \in 1 .. Len(stack') : i = 1
    BY <2>2
  <2>5. ParentsDone' /\ OncePerParent'
    BY <2>2, <2>4 DEF ParentsDone, OncePerParent
  <2>6. NotTwice' /\ ListedAfterParent'
    BY <2>1, <2>2, <2>4, SyncAssumption DEF NotTwice, ListedAfterParent, Existing
  <2> QED BY <2>3, <2>5, <2>6 DEF FramesOK
<1>3. CASE NextWindow
  <2>1. PICK w \in Head(stack).rest :
           /\ stack' = [stack EXCEPT ![1].rest = Remaining(@, w)]
           /\ \/ UNCHANGED <<at, current>>
              \/ /\ ~ Skipped(w, Head(stack).parent) /\ at' = "CREATE" /\ current' = w
    BY <1>3 DEF NextWindow
  <2>2. /\ stack # <<>> /\ stack \in Seq(Frames) /\ at = "enum" /\ current = NoWindow
        /\ listed' = listed /\ Done = listed
    BY <1>3, SyncAssumption DEF NextWindow, InProgress, Done, HistoryOK
  <2>3. Head(stack) = stack[1] /\ stack[1].rest \subseteq Windows /\ 1 \in 1 .. Len(stack)
    <3>1. Head(stack) = stack[1] /\ stack[1] \in Frames /\ Len(stack) \in Nat /\ Len(stack) > 0
      BY <2>2, Popped
    <3> QED BY <3>1 DEF Frames
  <2>4. /\ stack' # <<>> /\ Len(stack') = Len(stack)
        /\ stack'[1].rest = stack[1].rest \ {w}
        /\ \A i \in 1 .. Len(stack) : stack'[i].parent = stack[i].parent
        /\ \A i \in 1 .. Len(stack) : i # 1 => stack'[i].rest = stack[i].rest
    <3>1. stack[1].rest \ {w} \in SUBSET Windows
      BY <2>3
    <3>2. stack' = [stack EXCEPT ![1].rest = stack[1].rest \ {w}]
      BY <2>1, <2>2 DEF Remaining
    <3> QED BY <2>2, <3>1, <3>2, Taken
  <2>5. CASE UNCHANGED <<at, current>>
    <3>1. EnumOK'
      BY <2>2, <2>4, <2>5 DEF EnumOK, InProgress
    <3>2. Done' = Done /\ ListedAfterParent'
      BY <2>2, <2>5 DEF Done, ListedAfterParent, FramesOK
    <3>3. ParentsDone' /\ OncePerParent'
      BY <2>4, <3>2 DEF ParentsDone, OncePerParent, FramesOK
    <3>4. \A i \in 1 .. Len(stack) : stack'[i].rest \subseteq stack[i].rest
      BY <2>4
    <3>5. NotTwice'
      BY <2>2, <2>4, <2>5, <3>4 DEF NotTwice, FramesOK
    <3> QED BY <3>1, <3>2, <3>3, <3>5 DEF FramesOK
  <2>6. CASE ~ Skipped(w, Head(stack).parent) /\ at' = "CREATE" /\ current' = w
    <3>1. w \in Windows /\ Parent(w) = stack[1].parent /\ w \in stack[1].rest
      BY <2>1, <2>3, <2>6 DEF Skipped
    <3>2. w \notin listed
      BY <2>3, <3>1 DEF FramesOK, NotTwice
    <3>3. EnumOK'
      BY <2>2, <2>3, <2>4, <2>6, <3>1, <3>2 DEF EnumOK
    <3>4. Done' = Done
      BY <2>2, <2>6, <3>2 DEF Done
    <3>5. ParentsDone' /\ OncePerParent'
      BY <2>4, <3>4 DEF ParentsDone, OncePerParent, FramesOK
    <3>6. ListedAfterParent'
      <4>1. Parent(w) \in Done \cup {NoWindow}
        BY <2>3, <3>1 DEF FramesOK, ParentsDone
      <4> QED BY <2>2, <2>6, <3>4, <4>1 DEF FramesOK, ListedAfterParent
    <3>7. ASSUME NEW i \in 1 .. Len(stack), NEW v \in stack'[i].rest,
                 Parent(v) = stack[i].parent
          PROVE  v \notin listed /\ v # w
      <4>1. v \in stack[i].rest
        BY <2>4, <3>7
      <4>2. v \notin listed
        BY <3>7, <4>1 DEF FramesOK, NotTwice
      <4>3. CASE i = 1
        BY <2>4, <3>7, <4>2, <4>3
      <4>4. CASE i # 1
        <5>1. Parent(v) # Parent(w)
          BY <2>3, <3>1, <3>7, <4>4 DEF FramesOK, OncePerParent
        <5> QED BY <4>2, <5>1
      <4> QED BY <4>3, <4>4
    <3>8. NotTwice'
      BY <2>2, <2>4, <2>6, <3>7 DEF NotTwice
    <3> QED BY <3>3, <3>5, <3>6, <3>8 DEF FramesOK
  <2> QED BY <2>1, <2>5, <2>6
<1>4. CASE WriteCreate
  <2>1. /\ at = "CREATE" /\ at' = "rect" /\ stack' = stack /\ current' = current
        /\ listed' = listed \cup {current} /\ current \in Windows
    BY <1>4 DEF WriteCreate, Write, InProgress
  <2>2. Done' = Done /\ (listed \cup {current})' = listed \cup {current}
    BY <2>1 DEF Done
  <2>3. EnumOK'
    BY <2>1 DEF EnumOK, InProgress
  <2> QED BY <2>1, <2>2, <2>3 DEF FramesOK, ParentsDone, OncePerParent, NotTwice, ListedAfterParent
<1>5. CASE /\ at \in InProgress \ {"CREATE"} /\ at' \in InProgress \ {"CREATE"}
           /\ UNCHANGED <<stack, current, listed>>
  BY <1>5 DEF EnumOK, FramesOK, ParentsDone, OncePerParent, NotTwice, ListedAfterParent, Done,
     InProgress
<1>6. CASE /\ at \in InProgress \ {"CREATE"} /\ at' = "enum" /\ current' = NoWindow
           /\ UNCHANGED <<stack, listed>>
  <2>a. \A i \in 1 .. Len(stack) : stack[i] \in Frames
    BY ElementOfSeq
  <2>1. current \in listed /\ current \in Windows /\ stack # <<>>
    BY <1>6 DEF EnumOK, InProgress
  <2>2. Done \subseteq Done' /\ (listed \cup {current})' = listed \cup {current} \cup {NoWindow}
    BY <1>6, <2>1, SyncAssumption DEF Done, HistoryOK
  <2>3. EnumOK'
    BY <1>6, <2>1 DEF EnumOK, InProgress
  <2>4. ParentsDone' /\ OncePerParent'
    BY <1>6, <2>2 DEF FramesOK, ParentsDone, OncePerParent
  <2>5. \A i \in 1 .. Len(stack) : stack[i].rest \subseteq Windows
    BY <2>a DEF Frames
  <2>6. NotTwice' /\ ListedAfterParent'
    BY ZenonT(40), <1>6, <2>1, <2>2, <2>5, SyncAssumption DEF FramesOK, NotTwice, ListedAfterParent
  <2> QED BY <2>3, <2>4, <2>6 DEF FramesOK
<1>7. CASE Recurse
  <2>1. /\ at = "process" /\ at' = "enum" /\ current' = NoWindow /\ listed' = listed
        /\ stack' = <<[rest |-> Existing, parent |-> current]>> \o stack
    BY <1>7 DEF Recurse, EnumWindows, historyVars
  <2>2. current \in listed /\ current \in Windows /\ current \notin Done
    BY <2>1 DEF EnumOK, InProgress, Done
  <2>3. [rest |-> Existing, parent |-> current] \in Frames
    BY <2>2, Lists
  <2>4. /\ stack' # <<>> /\ Len(stack') = Len(stack) + 1
        /\ stack'[1].parent = current /\ stack'[1].rest = Existing
        /\ \A i \in 2 .. Len(stack) + 1 : i - 1 \in 1 .. Len(stack) /\ stack'[i] = stack[i - 1]
        /\ Len(stack) \in Nat
    BY <2>1, <2>3, Pushed
  <2>5. Done' = listed /\ Done = listed \ {current} /\ NoWindow \notin listed
    BY <2>1, SyncAssumption DEF Done, HistoryOK
  <2>6. EnumOK'
    BY <2>1, <2>4 DEF EnumOK, InProgress
  <2>7. \A i \in 1 .. Len(stack) + 1 : i = 1 \/ i \in 2 .. Len(stack) + 1
    BY <2>4
  <2>8. ParentsDone'
    BY <2>2, <2>4, <2>5, <2>7 DEF FramesOK, ParentsDone
  <2>9. \A i \in 2 .. Len(stack) + 1 : stack'[i].parent # current
    <3>1. \A i \in 1 .. Len(stack) : stack[i].parent # current
      BY <2>2, SyncAssumption DEF FramesOK, ParentsDone
    <3> QED BY <2>4, <3>1
  <2>10. OncePerParent'
    <3>. SUFFICES ASSUME NEW i \in 1 .. Len(stack) + 1, NEW j \in 1 .. Len(stack) + 1,
                         stack'[i].parent = stack'[j].parent
                  PROVE  i = j
      BY <2>4 DEF OncePerParent
    <3>1. CASE i = 1 \/ j = 1
      BY <2>4, <2>7, <2>9, <3>1
    <3>2. CASE i # 1 /\ j # 1
      <4>1. i - 1 \in 1 .. Len(stack) /\ j - 1 \in 1 .. Len(stack)
            /\ stack[i - 1].parent = stack[j - 1].parent
        BY <2>4, <2>7, <3>2
      <4>2. i - 1 = j - 1
        BY <4>1 DEF FramesOK, OncePerParent
      <4> QED BY <4>2
    <3> QED BY <3>1, <3>2
  <2>11. ListedAfterParent'
    BY <2>1, <2>5, SyncAssumption DEF FramesOK, ListedAfterParent
  <2>12. NotTwice'
    <3>. SUFFICES ASSUME NEW i \in 1 .. Len(stack) + 1, NEW w \in stack'[i].rest,
                         Parent(w) = stack'[i].parent
                  PROVE  w \notin listed \cup {NoWindow}
      BY <2>1, <2>4 DEF NotTwice
    <3>1. CASE i = 1
      <4>1. w \in Windows /\ Parent(w) = current
        BY <2>4, <3>1 DEF Existing
      <4> QED BY <2>2, <4>1, SyncAssumption DEF FramesOK, ListedAfterParent
    <3>2. CASE i # 1
      <4>1. PICK j \in 1 .. Len(stack) : stack'[i] = stack[j]
        BY <2>4, <2>7, <3>2
      <4>2. stack[j] \in Frames
        BY ElementOfSeq
      <4>3. w \in stack[j].rest /\ Parent(w) = stack[j].parent /\ w \in Windows
        BY <4>1, <4>2 DEF Frames
      <4>4. w \notin listed
        BY <4>3 DEF FramesOK, NotTwice
      <4> QED BY <4>3, <4>4, SyncAssumption
    <3> QED BY <3>1, <3>2
  <2> QED BY <2>6, <2>8, <2>10, <2>11, <2>12 DEF FramesOK
<1>8. CASE Return
  <2>1. /\ at = "enum" /\ stack # <<>> /\ stack' = Tail(stack) /\ current' = current
        /\ listed' = listed /\ current = NoWindow
        /\ IF Len(stack) = 1 THEN at' = "idle" ELSE at' = at
    BY <1>8 DEF Return, historyVars, InProgress
  <2>2. /\ Len(stack') = Len(stack) - 1 /\ Len(stack) \in Nat
        /\ \A i \in 1 .. Len(stack') : i + 1 \in 1 .. Len(stack) /\ stack'[i] = stack[i + 1]
        /\ stack' = <<>> <=> Len(stack) = 1
    BY <2>1, Popped
  <2>3. EnumOK'
    BY <2>1, <2>2 DEF EnumOK, InProgress
  <2>4. ParentsDone' /\ NotTwice'
    BY <2>1, <2>2 DEF FramesOK, ParentsDone, NotTwice, Done
  <2>5. OncePerParent'
    <3>. SUFFICES ASSUME NEW i \in 1 .. Len(stack'), NEW j \in 1 .. Len(stack'),
                         stack'[i].parent = stack'[j].parent
                  PROVE  i = j
      BY DEF OncePerParent
    <3>1. i + 1 = j + 1
      BY <2>2 DEF FramesOK, OncePerParent
    <3> QED BY <3>1, <2>2
  <2>6. ListedAfterParent'
    BY <2>1 DEF FramesOK, ListedAfterParent, Done
  <2> QED BY <2>3, <2>4, <2>5, <2>6 DEF FramesOK
<1>9. \A w \in Windows : Change(w) \/ Step(w) => UNCHANGED <<stack, at, current, listed>>
  BY DEF Change, Step, enumVars
<1>10. GetWindowRect \/ WritePosition \/ GetWindowText \/ WriteTitle \/ WriteState =>
         \/ /\ at \in InProgress \ {"CREATE"} /\ at' \in InProgress \ {"CREATE"}
            /\ UNCHANGED <<stack, current, listed>>
         \/ /\ at \in InProgress \ {"CREATE"} /\ at' = "enum" /\ current' = NoWindow
            /\ UNCHANGED <<stack, listed>>
  BY DEF GetWindowRect, WritePosition, GetWindowText, WriteTitle, WriteState, Write, historyVars,
     InProgress
<1>11. Process \/ UNCHANGED vars => UNCHANGED <<stack, at, current, listed>>
  BY DEF Process, vars, enumVars, historyVars
<1> QED BY <1>1, <1>2, <1>3, <1>4, <1>5, <1>6, <1>7, <1>8, <1>9, <1>10, <1>11, Steps

\* Of a window that has not changed since SYNCBEGIN the client knows just if the
\* shell has listed it.
Untouched ==
    \A w \in Windows \ changed : todo[w] = <<>> /\ ((w \in listed) <=> Known(mirror, w))

\* What a window's step does to the mirror is its own matter.
LEMMA StepAlters ==
    ASSUME TypeOK, NEW w \in Windows, Step(w)
    PROVE  Alters(mirror, mirror', w)
<1>. USE DEF TypeOK
<1>1. /\ window[w].place \in Places /\ window[w].title \in Titles /\ window[w].state \in {0, 1}
      /\ TodoOK(w)
  BY DEF WindowsOK, WindowStates
<1>2. \A s \in {0, 1} : Alters(mirror, State(mirror, w, s), w)
  BY StateIs
<1>3. /\ Alters(mirror, Create(mirror, w, get_parent(w)), w)
      /\ Alters(mirror, Destroy(mirror, w), w)
      /\ Alters(mirror, Place(mirror, w, window[w].place), w)
      /\ Alters(mirror, Title(mirror, w, window[w].title), w)
      /\ Alters(mirror, mirror, w)
  <2>1. get_parent(w) \in Windows \cup {NoWindow, NoTaskbar}
    BY Parents
  <2>2. Alters(mirror, Create(mirror, w, get_parent(w)), w)
    BY <2>1, CreateIs
  <2>3. Alters(mirror, Destroy(mirror, w), w) /\ Alters(mirror, mirror, w)
    BY DestroyIs DEF Alters
  <2>4. Alters(mirror, Place(mirror, w, window[w].place), w)
    BY <1>1, PlaceIs
  <2>5. Alters(mirror, Title(mirror, w, window[w].title), w)
    BY <1>1, TitleIs
  <2> QED BY <2>2, <2>3, <2>4, <2>5
<1>4. \/ mirror' = mirror \/ mirror' = Create(mirror, w, get_parent(w))
      \/ mirror' = Destroy(mirror, w)
      \/ mirror' = Place(mirror, w, window[w].place)
      \/ mirror' = Title(mirror, w, window[w].title)
      \/ \E s \in {0, 1} : mirror' = State(mirror, w, s)
  BY <1>1, StepKinds DEF ShowStep, HideStep, MoveStep, TextStep, MinMaxStep, Sets, Writes, Announce
<1> QED BY <1>2, <1>3, <1>4

\* The shell's own messages are of the window it is at.
LEMMA ShellAlters ==
    ASSUME TypeOK, WriteCreate \/ WritePosition \/ WriteTitle \/ WriteState
    PROVE  /\ current \in Windows /\ Alters(mirror, mirror', current)
           /\ IF WriteCreate THEN Known(mirror', current)
              ELSE Known(mirror', current) <=> Known(mirror, current)
<1>. USE DEF TypeOK
<1>1. /\ current \in Windows
      /\ at = "POSITION" => seen.place \in Places
      /\ at = "TITLE" => seen.title \in Titles
      /\ at = "STATE" => seen.state \in {0, 1}
  BY DEF WriteCreate, WritePosition, WriteTitle, WriteState, ShellOK, InProgress
<1>2. CASE WriteCreate
  BY <1>1, <1>2, CreateIs, Parents DEF WriteCreate, Write
<1>3. CASE WritePosition
  BY <1>1, <1>3, PlaceIs DEF WritePosition, Write, WriteCreate
<1>4. CASE WriteTitle
  BY <1>1, <1>4, TitleIs DEF WriteTitle, Write, WriteCreate
<1>5. CASE WriteState
  BY <1>1, <1>5, StateIs DEF WriteState, Write, WriteCreate
<1> QED BY <1>2, <1>3, <1>4, <1>5

\* A window that has not changed is known when enum_cb has listed it.
LEMMA UntouchedInvariance ==
    ASSUME TypeOK, Untouched, [Next]_vars
    PROVE  Untouched'
<1>. USE DEF TypeOK
<1>1. CASE UNCHANGED <<todo, changed, listed, mirror>>
  BY <1>1 DEF Untouched, Known
<1>2. ASSUME NEW v \in Windows, Change(v) PROVE Untouched'
  <2>1. /\ changed' = changed \cup {v} /\ listed' = listed /\ mirror' = mirror
        /\ \A w \in Windows : w # v => todo'[w] = todo[w]
    BY <1>2 DEF Change, WindowsOK
  <2> QED BY <2>1 DEF Untouched, Known
<1>3. ASSUME NEW v \in Windows, Step(v) PROVE Untouched'
  <2>1. /\ changed' = changed /\ listed' = listed /\ todo[v] # <<>>
        /\ \A w \in Windows : w # v => todo'[w] = todo[w]
    BY <1>3 DEF Step, WindowsOK
  <2>2. \A w \in Windows : w # v => mirror'[w] = mirror[w]
    BY <1>3, StepAlters DEF Alters
  <2> QED BY <2>1, <2>2 DEF Untouched, Known
<1>4. CASE do_sync
  BY <1>4 DEF do_sync, windowVars, Untouched, Known
<1>5. CASE WriteCreate \/ WritePosition \/ WriteTitle \/ WriteState
  <2>1. /\ \A w \in Windows : w # current => mirror'[w] = mirror[w]
        /\ IF WriteCreate THEN Known(mirror', current)
           ELSE Known(mirror', current) <=> Known(mirror, current)
    BY <1>5, ShellAlters DEF Alters
  <2>2. /\ todo' = todo /\ changed' = changed
        /\ listed' = IF WriteCreate THEN listed \cup {current} ELSE listed
    BY <1>5 DEF WriteCreate, WritePosition, WriteTitle, WriteState, Write, windowVars
  <2> QED BY <2>1, <2>2 DEF Untouched, Known
<1>6. NextWindow \/ GetWindowRect \/ GetWindowText \/ Recurse \/ Return \/ Process \/ UNCHANGED vars
         => UNCHANGED <<todo, changed, listed, mirror>>
  BY DEF NextWindow, GetWindowRect, GetWindowText, Recurse, Return, Process, vars, windowVars,
     historyVars
<1> QED BY <1>1, <1>2, <1>3, <1>4, <1>5, <1>6, Steps

\* At first nothing is listed.
LEMMA FramesInit ==
    ASSUME Init
    PROVE  EnumOK /\ FramesOK /\ Untouched
<1>1. EnumOK
  BY DEF Init, EnumOK, InProgress
<1>2. 1 .. Len(stack) = {}
  BY DEF Init
<1>3. listed \cup {current} = {NoWindow}
  BY DEF Init
<1>4. FramesOK
  BY <1>2, <1>3, SyncAssumption
     DEF FramesOK, ParentsDone, OncePerParent, NotTwice, ListedAfterParent
<1>5. Untouched
  BY DEF Init, Untouched, Known
<1> QED BY <1>1, <1>4, <1>5

\* The client is told of a popup after its owner, if the owner is listed at all, and
\* of no window twice, however the windows change in between.
THEOREM ParentsBeforeChildren == Spec => ParentsFirst
<1>1. Init => EnumOK /\ FramesOK /\ Untouched
  BY FramesInit
<1>2. TypeOK /\ EnumOK /\ FramesOK /\ Untouched /\ [Next]_vars => (EnumOK /\ FramesOK /\ Untouched)'
  BY FramesInvariance, UntouchedInvariance
<1>3. TypeOK /\ EnumOK /\ FramesOK /\ Untouched /\ [Next]_vars =>
        [at = "CREATE" /\ at' = "rect" =>
            /\ current \notin listed
            /\ Parent(current) # NoWindow =>
                  /\ Parent(current) \in listed
                  /\ Known(mirror, Parent(current)) \/ Parent(current) \in changed]_vars
  <2> SUFFICES ASSUME TypeOK, EnumOK, FramesOK, Untouched, at = "CREATE"
               PROVE  /\ current \notin listed
                      /\ Parent(current) # NoWindow =>
                            /\ Parent(current) \in listed
                            /\ Known(mirror, Parent(current)) \/ Parent(current) \in changed
    OBVIOUS
  <2>1. current \in Windows /\ current \notin listed /\ Parent(current) = stack[1].parent
        /\ stack # <<>>
    BY DEF TypeOK, ShellOK, EnumOK, InProgress
  <2>2. 1 \in 1 .. Len(stack)
    BY <2>1, Popped DEF TypeOK, ShellOK
  <2>3. Parent(current) # NoWindow => Parent(current) \in listed
    BY <2>1, <2>2 DEF FramesOK, ParentsDone, Done
  <2>4. Parent(current) \in Windows \cup {NoWindow}
    BY <2>1, Parents
  <2> QED BY <2>1, <2>3, <2>4 DEF Untouched
<1> QED BY <1>1, <1>2, <1>3, TypeCorrect, PTL DEF Spec, ParentsFirst

-----------------------------------------------------------------------------
(* The shell's own messages.                                               *)

Lost == {w \in Windows : window[w].status = "gone"} \ {current}

\* How many messages there are in the ring of the window that enum_cb is at, less
\* the SYNCEND to come.
OfThisWindow ==
    CASE at = "idle" -> 0
      [] at \in {"enum", "CREATE"} -> -1
      [] at \in {"rect", "POSITION"} -> 0
      [] at \in {"text", "TITLE"} -> 1
      [] at = "STATE" -> 2
      [] at = "process" -> 3

\* Beyond these there are two for each SYNC and two for each window that enum_cb has
\* found gone.
OwnOK ==
    /\ own <= 2 * syncs + 2 * Cardinality(Lost) + OfThisWindow
    /\ at # "idle" => syncs > 0

\* There are finitely many windows that can go.
LEMMA LostType == IsFiniteSet(Lost) /\ Cardinality(Lost) \in Nat
<1>1. Lost \subseteq Windows
  BY DEF Lost
<1> QED BY <1>1, SyncAssumption, FS_Subset, FS_CardinalityType

\* A window that has gone stays away.
LEMMA LostGrows ==
    ASSUME TypeOK, [Next]_vars
    PROVE  \A w \in Windows : window[w].status = "gone" => window'[w].status = "gone"
<1>. USE DEF TypeOK
<1>1. CASE window' = window
  BY <1>1
<1>2. ASSUME NEW v \in Windows, Step(v)
      PROVE  \A w \in Windows : window[w].status = "gone" => window'[w].status = "gone"
  <2>1. window[v].status # "gone"
    BY <1>2 DEF Step, WindowsOK, TodoOK
  <2>2. \A w \in Windows : w # v => window'[w] = window[w]
    BY <1>2 DEF Step, WindowsOK
  <2> QED BY <2>1, <2>2
<1>3. \/ window' = window \/ \E v \in Windows : Step(v)
  BY Steps DEF Change, do_sync, NextWindow, WriteCreate, GetWindowRect, WritePosition, GetWindowText,
     WriteTitle, WriteState, Recurse, Return, Process, Write, vars, windowVars
<1> QED BY <1>1, <1>2, <1>3

\* No step puts in more than is allowed for.
LEMMA OwnInvariance ==
    ASSUME TypeOK, OwnOK, [Next]_vars
    PROVE  OwnOK'
<1>. USE DEF TypeOK, CountersOK, Put, Uncounted
<1>. DEFINE c == Cardinality(Lost)
            d == Cardinality(Lost')
<1>1. c \in Nat /\ d \in Nat
  <2>1. IsFiniteSet(Lost') /\ Cardinality(Lost') \in Nat
    <3>1. Lost' \subseteq Windows
      BY DEF Lost
    <3> QED BY <3>1, SyncAssumption, FS_Subset, FS_CardinalityType
  <2> QED BY <2>1, LostType
<1>2. own' \in Int /\ syncs' \in Nat
  BY CountersInvariance
<1>3. current' \in {current, NoWindow} => c <= d
  <2>. SUFFICES ASSUME current' \in {current, NoWindow} PROVE c <= d
    OBVIOUS
  <2>1. Lost \subseteq Lost'
    BY LostGrows, SyncAssumption DEF Lost
  <2>2. Lost' \subseteq Windows
    BY DEF Lost
  <2> QED BY <2>1, <2>2, SyncAssumption, FS_Subset
<1>4. NextWindow => c <= d
  <2>. SUFFICES ASSUME NextWindow, current' # current PROVE c <= d
    BY <1>3
  <2>1. PICK w \in Head(stack).rest : current' = w /\ ~ Skipped(w, Head(stack).parent)
    BY DEF NextWindow
  <2>2. window' = window /\ window[w].status = "shown" /\ current = NoWindow
    BY <2>1 DEF NextWindow, windowVars, Skipped, ShellOK, InProgress
  <2>3. Lost \subseteq Lost'
    BY <2>1, <2>2 DEF Lost
  <2>4. Lost' \subseteq Windows
    BY DEF Lost
  <2> QED BY <2>3, <2>4, SyncAssumption, FS_Subset
<1>5. at = "rect" /\ at' = "enum" /\ GetWindowRect => d = c + 1
  <2>. SUFFICES ASSUME at = "rect", at' = "enum", GetWindowRect PROVE d = c + 1
    OBVIOUS
  <2>1. /\ current \in Windows /\ current' = NoWindow /\ window' = window
        /\ window[current].status = "gone"
    BY DEF GetWindowRect, ShellOK, InProgress, windowVars
  <2>2. Lost' = Lost \cup {current} /\ current \notin Lost
    BY <2>1, SyncAssumption DEF Lost
  <2> QED BY <2>2, LostType, FS_AddElement
<1>. HIDE DEF c, d
<1>6. own <= 2 * syncs + 2 * c + OfThisWindow /\ (at # "idle" => syncs > 0)
  BY DEF OwnOK, c
<1>7. SUFFICES own' <= 2 * syncs' + 2 * d + OfThisWindow' /\ (at' # "idle" => syncs' > 0)
  BY DEF OwnOK, d
<1>8. CASE UNCHANGED <<own, at, syncs, current>>
  <2>1. OfThisWindow' = OfThisWindow /\ OfThisWindow \in Int
    BY <1>8 DEF OfThisWindow, ShellOK, InProgress
  <2> QED BY <1>1, <1>3, <1>6, <1>8, <2>1
<1>9. CASE do_sync
  <2>1. OfThisWindow = 0 /\ OfThisWindow' = -1 /\ c <= d /\ own' <= own + 1 /\ syncs' = syncs + 1
    BY <1>3, <1>9 DEF do_sync, OfThisWindow
  <2> QED BY <1>1, <1>2, <1>6, <2>1
<1>10. CASE NextWindow
  <2>1. OfThisWindow = -1 /\ OfThisWindow' = -1 /\ own' = own /\ syncs' = syncs /\ at # "idle"
    BY <1>10 DEF NextWindow, OfThisWindow
  <2> QED BY <1>1, <1>4, <1>6, <1>10, <2>1
<1>11. CASE WriteCreate \/ WritePosition \/ WriteTitle \/ WriteState
  <2>1. /\ own' <= own + 1 /\ syncs' = syncs /\ OfThisWindow' = OfThisWindow + 1 /\ at # "idle"
        /\ OfThisWindow \in Int /\ current' = current
    BY <1>11 DEF WriteCreate, WritePosition, WriteTitle, WriteState, Write, OfThisWindow
  <2> QED BY <1>1, <1>2, <1>3, <1>6, <2>1
<1>12. CASE GetWindowRect
  <2>1. CASE at' = "POSITION"
    <3>1. /\ own' = own /\ syncs' = syncs /\ OfThisWindow' = 0 /\ OfThisWindow = 0 /\ at # "idle"
          /\ current' = current
      BY <1>12, <2>1 DEF GetWindowRect, OfThisWindow
    <3> QED BY <1>1, <1>3, <1>6, <3>1
  <2>2. CASE at' = "enum"
    <3>1. /\ own' <= own + 1 /\ syncs' = syncs /\ OfThisWindow' = -1 /\ OfThisWindow = 0
          /\ at = "rect"
      BY <1>12, <2>2 DEF GetWindowRect, OfThisWindow
    <3> QED BY <1>1, <1>2, <1>5, <1>6, <1>12, <2>2, <3>1
  <2> QED BY <1>12, <2>1, <2>2 DEF GetWindowRect
<1>13. CASE GetWindowText
  <2>1. /\ own' = own /\ syncs' = syncs /\ OfThisWindow' = 1 /\ OfThisWindow = 1 /\ at # "idle"
        /\ current' = current
    BY <1>13 DEF GetWindowText, OfThisWindow
  <2> QED BY <1>1, <1>3, <1>6, <2>1
<1>14. CASE Recurse
  <2>1. own' <= 0 /\ syncs' = syncs /\ OfThisWindow' = -1 /\ at # "idle"
    BY <1>14 DEF Recurse, OfThisWindow, vchannel_process
  <2> QED BY <1>1, <1>2, <1>6, <2>1
<1>15. CASE Return
  <2>1. /\ OfThisWindow = -1 /\ syncs' = syncs /\ at # "idle" /\ current' = current
        /\ \/ own' <= own + 1 /\ OfThisWindow' = 0
           \/ own' = own /\ OfThisWindow' = -1
    BY <1>15 DEF Return, OfThisWindow
  <2> QED BY <1>1, <1>2, <1>3, <1>6, <2>1
<1>16. CASE Process
  <2>1. own' <= 0 /\ OfThisWindow' = 0 /\ syncs' = syncs /\ at' = "idle"
    BY <1>16 DEF Process, OfThisWindow, enumVars, vchannel_process
  <2> QED BY <1>1, <1>2, <2>1
<1>17. (\E w \in Windows : Change(w) \/ Step(w)) \/ UNCHANGED vars
         => UNCHANGED <<own, at, syncs, current>>
  BY DEF Change, Step, vars, enumVars
<1> QED BY <1>8, <1>9, <1>10, <1>11, <1>12, <1>13, <1>14, <1>15, <1>16, <1>17, Steps

\* However many windows there are and whatever they do, the shell's own messages in
\* the ring, which it empties itself, are few as long as no write to the channel
\* fails: those of one window, two for each SYNC and two for each window that has
\* gone.
THEOREM OwnMessagesAreFew == Spec => []OwnMessagesFit
<1>1. Init => OwnOK
  <2> SUFFICES ASSUME Init PROVE OwnOK
    OBVIOUS
  <2>1. own = 0 /\ syncs = 0 /\ OfThisWindow = 0 /\ at = "idle"
    BY DEF Init, OfThisWindow
  <2> QED BY <2>1, LostType DEF OwnOK
<1>2. TypeOK /\ OwnOK => OwnMessagesFit
  <2> SUFFICES ASSUME TypeOK, OwnOK PROVE OwnMessagesFit
    OBVIOUS
  <2>. DEFINE Gone == {w \in Windows : window[w].status = "gone"}
  <2>1. Cardinality(Lost) <= Cardinality(Gone) /\ Cardinality(Lost) \in Nat
        /\ Cardinality(Gone) \in Nat
    <3>1. Lost \subseteq Gone /\ Gone \subseteq Windows
      BY DEF Lost
    <3> HIDE DEF Gone
    <3> QED BY <3>1, SyncAssumption, FS_Subset, FS_CardinalityType
  <2>2. OfThisWindow \in Int /\ OfThisWindow <= 3
    BY DEF OfThisWindow, TypeOK, ShellOK, InProgress
  <2>3. own \in Int /\ syncs \in Nat
    BY DEF TypeOK, CountersOK, Uncounted
  <2>4. own <= 3 + 2 * syncs + 2 * Cardinality(Gone)
    <3> HIDE DEF Gone
    <3> QED BY <2>1, <2>2, <2>3 DEF OwnOK
  <2> QED BY <2>4 DEF OwnMessagesFit
<1>3. TypeOK /\ OwnOK /\ [Next]_vars => OwnOK'
  BY OwnInvariance
<1> QED BY <1>1, <1>2, <1>3, TypeCorrect, PTL DEF Spec

-----------------------------------------------------------------------------
(* The mirror.                                                             *)

\* Consoles are neither listed nor known.
ConsolesOK == \A w \in Windows : w \in consoles => w \notin listed \cup {current} /\ ~ Known(mirror, w)

\* A window that is shown and of which the client will not be told by its own
\* thread is still to be listed, if its parent has been and it is no console.
Awaited(w) ==
    /\ syncs > 0 /\ w \notin listed \cup {current} \cup consoles
    /\ window[w].status = "shown" /\ todo[w] # Shown /\ ~ Known(mirror, w)
    /\ \/ Parent(w) = NoWindow
       \/ Parent(w) \in Done /\ window[Parent(w)].status # "gone"
StillToCome ==
    \A w \in Windows : Awaited(w) =>
        \E i \in 1 .. Len(stack) : stack[i].parent = Parent(w) /\ w \in stack[i].rest

\* What a window's thread, or enum_cb, has still to tell of it.
PlaceOwed(w) ==
    \/ todo[w] \in {Shown, Created, Titled, Moved}
    \/ w = current /\ at \in {"rect", "POSITION"}
TitleOwed(w) ==
    \/ todo[w] \in {Shown, Created, Texted}
    \/ w = current /\ at \in {"rect", "POSITION", "text", "TITLE"}
StateOwed(w) ==
    \/ todo[w] \in {Shown, Created, Titled, Placed}
    \/ w = current /\ at \in {"rect", "POSITION", "text", "TITLE", "STATE"}

\* What the client knows of a window, but for what is owed, and for one that has
\* changed while enum_cb was at it.
RightParent(w) == Known(mirror, w) /\ SameParent(w) => mirror[w].parent = Parent(w)
HiddenUnknown(w) ==
    w \notin raced /\ window[w].status # "shown" /\ Known(mirror, w)
        => todo[w] \in {Hidden, Closed}
ListedKnown(w) ==
    w \notin raced /\ w \in listed /\ window[w].status = "shown"
        => todo[w] = Shown \/ Known(mirror, w)
\* A window's state is reported before it has it.
StateTold(w) ==
    /\ \A s \in {0, 1} : todo[w] = Minimised(s) => mirror[w].state = s
    /\ todo[w] \notin Minimiseds => mirror[w].state = window[w].state
FieldsRight(w) ==
    w \notin raced /\ window[w].status = "shown" /\ Known(mirror, w) =>
        /\ PlaceOwed(w) \/ mirror[w].place = window[w].place
        /\ TitleOwed(w) \/ mirror[w].title = vchannel_strfilter(window[w].title)
        /\ StateOwed(w) \/ StateTold(w)
MirrorOK(w) == RightParent(w) /\ HiddenUnknown(w) /\ ListedKnown(w) /\ FieldsRight(w)

\* enum_cb has read what is so, unless the window has changed.
SeenOK ==
    at \in InProgress /\ current \notin raced =>
        /\ window[current].status = "shown"
        /\ todo[current] \in Begun \cup {<<>>}
        /\ at # "process" => seen.state = window[current].state
        /\ at = "POSITION" => seen.place = window[current].place
        /\ at = "TITLE" => seen.title = window[current].title
MirrorsOK == SeenOK /\ \A w \in Windows : MirrorOK(w)

\* What a step of its thread does to a window's fields.
LEMMA SetsIs ==
    ASSUME WindowsOK, NEW w \in Windows, NEW f \in {"status", "place", "title", "state"}, NEW x,
           Sets(w, f, x)
    PROVE  /\ mirror' = mirror
           /\ f = "status" => /\ window'[w].status = x /\ window'[w].place = window[w].place
                              /\ window'[w].title = window[w].title
                              /\ window'[w].state = window[w].state
           /\ f = "place" => /\ window'[w].status = window[w].status /\ window'[w].place = x
                             /\ window'[w].title = window[w].title
                             /\ window'[w].state = window[w].state
           /\ f = "title" => /\ window'[w].status = window[w].status
                             /\ window'[w].place = window[w].place /\ window'[w].title = x
                             /\ window'[w].state = window[w].state
           /\ f = "state" => /\ window'[w].status = window[w].status
                             /\ window'[w].place = window[w].place
                             /\ window'[w].title = window[w].title /\ window'[w].state = x
  BY DEF WindowsOK, WindowStates, Sets

\* A window stays a console, or none.
LEMMA ConsolesStay == ASSUME [Next]_vars PROVE consoles' = consoles
  BY Steps DEF Change, Step, do_sync, NextWindow, WriteCreate, GetWindowRect, WritePosition,
     GetWindowText, WriteTitle, WriteState, Recurse, Return, Process, Write, vars, windowVars

\* Nobody tells the client of a console.
LEMMA ConsolesInvariance ==
    ASSUME TypeOK, ConsolesOK, [Next]_vars
    PROVE  ConsolesOK'
<1>. USE DEF TypeOK
<1>1. SUFFICES ASSUME NEW w \in Windows, w \in consoles
               PROVE  w \notin listed' \cup {current'} /\ ~ Known(mirror', w)
  BY ConsolesStay DEF ConsolesOK
<1>2. w \notin listed \cup {current} /\ ~ Known(mirror, w) /\ w # NoWindow
  BY <1>1, SyncAssumption DEF ConsolesOK
<1>3. ASSUME mirror'[w] = mirror[w], listed' \subseteq listed \cup {current},
             current' \in {current, NoWindow}
      PROVE  w \notin listed' \cup {current'} /\ ~ Known(mirror', w)
  BY <1>2, <1>3 DEF Known
<1>4. ASSUME NEW v \in Windows, v # w, Change(v) \/ Step(v)
      PROVE  w \notin listed' \cup {current'} /\ ~ Known(mirror', w)
  <2>1. mirror'[w] = mirror[w] /\ listed' = listed /\ current' = current
    BY <1>4, StepAlters DEF Change, Step, Alters, enumVars
  <2> QED BY <1>3, <2>1
<1>5. CASE Change(w)
  BY <1>3, <1>5 DEF Change, enumVars
<1>6. CASE Step(w)
  <2>1. /\ window[w].place \in Places /\ window[w].title \in Titles /\ window[w].state \in {0, 1}
        /\ TodoOK(w)
    BY DEF WindowsOK, WindowStates
  <2>2. \/ mirror' = mirror \/ mirror' = Destroy(mirror, w)
        \/ mirror' = Place(mirror, w, window[w].place)
        \/ mirror' = Title(mirror, w, window[w].title)
        \/ \E s \in {0, 1} : mirror' = State(mirror, w, s)
    BY <1>1, <1>6, <2>1, StepKinds
       DEF ShowStep, HideStep, MoveStep, TextStep, MinMaxStep, Sets, Writes, Announce
  <2>3. ~ Known(mirror', w)
    BY <1>2, <2>1, <2>2, DestroyIs, PlaceIs, TitleIs, StateIs
  <2> QED BY <1>2, <1>6, <2>3 DEF Step, enumVars
<1>7. CASE do_sync
  BY <1>2, <1>7 DEF do_sync, Known
<1>8. CASE NextWindow
  BY <1>1, <1>2, <1>8 DEF NextWindow, Skipped
<1>9. CASE WriteCreate \/ WritePosition \/ WriteTitle \/ WriteState
  <2>1. mirror'[w] = mirror[w]
    BY <1>2, <1>9, ShellAlters DEF Alters
  <2>2. current' = current /\ listed' \subseteq listed \cup {current}
    BY <1>9 DEF WriteCreate, WritePosition, WriteTitle, WriteState, Write
  <2> QED BY <1>3, <2>1, <2>2
<1>10. CASE \/ GetWindowRect \/ GetWindowText \/ Recurse \/ Return \/ Process \/ UNCHANGED vars
  <2>1. mirror' = mirror /\ listed' = listed /\ current' \in {current, NoWindow}
    BY <1>10 DEF GetWindowRect, GetWindowText, Recurse, Return, Process, vars, enumVars, historyVars
  <2> QED BY <1>3, <2>1
<1> QED BY <1>4, <1>5, <1>6, <1>7, <1>8, <1>9, <1>10, Steps

\* A window that is awaited after a step of its thread was so before.
LEMMA StepOfAwaited ==
    ASSUME TypeOK, NEW w \in Windows, Step(w), w \notin consoles,
           window'[w].status = "shown", todo'[w] # Shown, ~ Known(mirror', w)
    PROVE  window[w].status = "shown" /\ todo[w] # Shown /\ ~ Known(mirror, w)
<1>. USE DEF TypeOK
<1>1. /\ window[w].place \in Places /\ window[w].title \in Titles /\ window[w].state \in {0, 1}
      /\ TodoOK(w) /\ window[w].status \in {"hidden", "shown", "gone"}
      /\ \A r : Leaves(w, r) => todo'[w] = r
  BY DEF WindowsOK, WindowStates, Leaves
<1>2. CASE ShowStep(w)
  <2>1. CASE todo[w] = Show /\ Leaves(w, Shown)
    BY <1>1, <2>1
  <2>2. CASE todo[w] = Shown /\ Writes(Announce(w))
    BY <2>2, CreateIs, Parents DEF Writes, Announce
  <2>3. CASE /\ todo[w] \in {Created, Titled, Placed}
             /\ \/ Writes(Title(mirror, w, window[w].title))
                \/ Writes(Place(mirror, w, window[w].place))
                \/ Writes(State(mirror, w, window[w].state))
    BY <1>1, <2>3, Different, TitleIs, PlaceIs, StateIs DEF Writes
  <2> QED BY <1>2, <2>1, <2>2, <2>3 DEF ShowStep
<1>3. CASE HideStep(w)
  <2>1. ASSUME NEW x \in {"hidden", "gone"}, Sets(w, "status", x) PROVE FALSE
    BY <2>1, SetsIs
  <2>2. CASE todo[w] \in {Hidden, Closed} /\ Writes(Destroy(mirror, w))
    BY <1>1, <2>2, StatusOf DEF Writes
  <2> QED BY <1>3, <2>1, <2>2 DEF HideStep
<1>4. \A x \in Moves \cup Texts \cup MinMaxes \cup Minimiseds \cup {Moved, Texted} : x # Shown
  BY Different, DifferentToo
<1>5. ASSUME NEW f \in {"place", "title", "state"}, NEW x, Sets(w, f, x),
             todo[w] \in Moves \cup Texts \cup Minimiseds
      PROVE  window[w].status = "shown" /\ todo[w] # Shown /\ ~ Known(mirror, w)
  BY <1>4, <1>5, SetsIs
<1>6. ASSUME NEW s \in {0, 1}, todo[w] \in MinMaxes \cup {Moved, Texted},
             \/ Writes(Title(mirror, w, window[w].title))
             \/ Writes(Place(mirror, w, window[w].place))
             \/ Writes(State(mirror, w, s))
      PROVE  window[w].status = "shown" /\ todo[w] # Shown /\ ~ Known(mirror, w)
  BY <1>1, <1>4, <1>6, TitleIs, PlaceIs, StateIs DEF Writes
<1>7. CASE MoveStep(w)
  BY <1>5, <1>6, <1>7 DEF MoveStep, Moves
<1>8. CASE TextStep(w)
  BY ZenonT(40), <1>5, <1>6, <1>8 DEF TextStep, Texts
<1>9. CASE MinMaxStep(w)
  BY <1>5, <1>6, <1>9 DEF MinMaxStep, MinMaxes, Minimiseds
<1> QED BY <1>1, <1>2, <1>3, <1>7, <1>8, <1>9, StepKinds

\* No window that is awaited is dropped from the enumerations.
LEMMA AwaitedInvariance ==
    ASSUME TypeOK, EnumOK, StillToCome, [Next]_vars
    PROVE  StillToCome'
<1>. USE DEF TypeOK, ShellOK
<1>0. \A w \in Windows : Parent(w) \in Windows \cup {NoWindow}
  BY Parents
<1>a. \A w \in Windows : window[w].status = "gone" => window'[w].status = "gone"
  BY LostGrows
<1>b. consoles' = consoles
  BY ConsolesStay
<1>1. ASSUME stack' = stack, \A w \in Windows : Awaited(w)' => Awaited(w)
      PROVE  StillToCome'
  BY <1>1 DEF StillToCome
<1>2. ASSUME NEW v \in Windows, Change(v) \/ Step(v) PROVE StillToCome'
  <2>1. /\ stack' = stack /\ syncs' = syncs /\ listed' = listed /\ current' = current
        /\ \A w \in Windows : w # v => todo'[w] = todo[w] /\ window'[w] = window[w]
    BY <1>2 DEF Change, Step, enumVars, WindowsOK
  <2>2. \A w \in Windows : w # v => mirror'[w] = mirror[w]
    BY <1>2, StepAlters DEF Change, Alters
  <2>3. /\ v \notin consoles
        /\ window'[v].status = "shown" /\ todo'[v] # Shown /\ ~ Known(mirror', v)
        => window[v].status = "shown" /\ todo[v] # Shown /\ ~ Known(mirror, v)
    <3>1. CASE Change(v)
      BY <3>1, Different DEF Change
    <3>2. CASE Step(v)
      BY <3>2, StepOfAwaited
    <3> QED BY <1>2, <3>1, <3>2
  <2>4. Done' = Done
    BY <2>1 DEF Done
  <2>5. ASSUME NEW w \in Windows, Awaited(w)' PROVE Awaited(w)
    <3>1. syncs > 0 /\ w \notin listed \cup {current} \cup consoles
      BY <1>b, <2>1, <2>5 DEF Awaited
    <3>2. window[w].status = "shown" /\ todo[w] # Shown /\ ~ Known(mirror, w)
      BY <2>1, <2>2, <2>3, <2>5, <3>1 DEF Awaited, Known
    <3>3. \/ Parent(w) = NoWindow
          \/ Parent(w) \in Done /\ window[Parent(w)].status # "gone"
      BY <1>0, <1>a, <2>4, <2>5 DEF Awaited
    <3> QED BY <3>1, <3>2, <3>3 DEF Awaited
  <2> QED BY <1>1, <2>1, <2>5
<1>3. CASE do_sync
  <2>. SUFFICES ASSUME NEW w \in Windows, Awaited(w)'
                PROVE  \E i \in 1 .. Len(stack') : stack'[i].parent = Parent(w) /\ w \in stack'[i].rest
    BY DEF StillToCome
  <2>1. /\ stack' = <<[rest |-> Existing, parent |-> NoWindow]>> /\ window' = window
        /\ Done' = {}
    BY <1>3 DEF do_sync, EnumWindows, windowVars, Done
  <2>2. Parent(w) = NoWindow /\ w \in Existing
    BY <2>1 DEF Awaited, Existing
  <2>3. 1 \in 1 .. Len(stack') /\ stack'[1].parent = NoWindow /\ stack'[1].rest = Existing
    BY <2>1
  <2> QED BY <2>2, <2>3
<1>4. CASE NextWindow
  <2>1. PICK v \in Head(stack).rest :
           /\ stack' = [stack EXCEPT ![1].rest = Remaining(@, v)]
           /\ \/ Skipped(v, Head(stack).parent) /\ current' = current
              \/ current' = v
    BY <1>4 DEF NextWindow
  <2>2. /\ stack # <<>> /\ stack \in Seq(Frames) /\ current = NoWindow
        /\ listed' = listed /\ Done = listed /\ UNCHANGED <<window, todo, mirror, syncs>>
    BY <1>4, SyncAssumption DEF NextWindow, InProgress, Done, HistoryOK, windowVars
  <2>3. Head(stack) = stack[1] /\ stack[1].rest \subseteq Windows
    <3>1. Head(stack) = stack[1] /\ stack[1] \in Frames
      BY <2>2, Popped
    <3> QED BY <3>1 DEF Frames
  <2>4. /\ Len(stack') = Len(stack)
        /\ stack'[1].rest = stack[1].rest \ {v}
        /\ \A i \in 1 .. Len(stack) : stack'[i].parent = stack[i].parent
        /\ \A i \in 1 .. Len(stack) : i # 1 => stack'[i].rest = stack[i].rest
    <3>1. stack[1].rest \ {v} \in SUBSET Windows
      BY <2>3
    <3>2. stack' = [stack EXCEPT ![1].rest = stack[1].rest \ {v}]
      BY <2>1, <2>2 DEF Remaining
    <3> QED BY <2>2, <3>1, <3>2, Taken
  <2>. SUFFICES ASSUME NEW w \in Windows, Awaited(w)'
                PROVE  \E i \in 1 .. Len(stack') : stack'[i].parent = Parent(w) /\ w \in stack'[i].rest
    BY DEF StillToCome
  <2>5. Awaited(w) /\ w # current'
    BY <1>b, <2>2, SyncAssumption DEF Awaited, Done
  <2>6. PICK i \in 1 .. Len(stack) : stack[i].parent = Parent(w) /\ w \in stack[i].rest
    BY <2>5 DEF StillToCome
  <2>7. ~ (i = 1 /\ w = v)
    BY <2>1, <2>3, <2>5, <2>6 DEF Skipped, Awaited
  <2> QED BY <2>4, <2>6, <2>7
<1>5. CASE WriteCreate \/ WritePosition \/ WriteTitle \/ WriteState
  <2>1. /\ stack' = stack /\ current' = current /\ UNCHANGED <<window, todo, syncs>>
        /\ listed \subseteq listed' /\ Done' = Done
    BY <1>5 DEF WriteCreate, WritePosition, WriteTitle, WriteState, Write, windowVars, Done
  <2>2. \A w \in Windows : w # current => mirror'[w] = mirror[w]
    BY <1>5, ShellAlters DEF Alters
  <2> QED BY <1>1, <1>b, <2>1, <2>2 DEF Awaited, Known
<1>6. CASE GetWindowRect /\ at' = "enum"
  <2>1. /\ UNCHANGED <<stack, window, todo, syncs, mirror, listed>> /\ current' = NoWindow
        /\ at = "rect" /\ window[current].status = "gone" /\ current \in Windows
    BY <1>6 DEF GetWindowRect, windowVars, historyVars, InProgress
  <2>2. current \in listed
    BY <2>1 DEF EnumOK, InProgress
  <2>3. ASSUME NEW w \in Windows, Awaited(w)' PROVE Awaited(w)
    <3>1. syncs > 0 /\ w \notin listed \cup {current} \cup consoles
      BY <1>b, <2>1, <2>2, <2>3 DEF Awaited
    <3>2. window[w].status = "shown" /\ todo[w] # Shown /\ ~ Known(mirror, w)
      BY <2>1, <2>3 DEF Awaited
    <3>3. \/ Parent(w) = NoWindow
          \/ Parent(w) \in Done /\ window[Parent(w)].status # "gone"
      BY <2>1, <2>3 DEF Awaited, Done
    <3> QED BY <3>1, <3>2, <3>3 DEF Awaited
  <2> QED BY <1>1, <2>1, <2>3
<1>7. CASE Recurse
  <2>1. /\ at = "process" /\ current' = NoWindow
        /\ UNCHANGED <<window, todo, syncs, mirror, listed>>
        /\ stack' = <<[rest |-> Existing, parent |-> current]>> \o stack
    BY <1>7 DEF Recurse, EnumWindows, historyVars, windowVars
  <2>2. current \in listed /\ current \in Windows
    BY <2>1 DEF EnumOK, InProgress
  <2>3. [rest |-> Existing, parent |-> current] \in Frames
    BY <2>2, Lists
  <2>4. /\ Len(stack') = Len(stack) + 1 /\ Len(stack) \in Nat
        /\ stack'[1].parent = current /\ stack'[1].rest = Existing
        /\ \A i \in 1 .. Len(stack) : i + 1 \in 1 .. Len(stack) + 1 /\ stack'[i + 1] = stack[i]
    BY <2>1, <2>3, Pushed
  <2>. SUFFICES ASSUME NEW w \in Windows, Awaited(w)'
                PROVE  \E i \in 1 .. Len(stack') : stack'[i].parent = Parent(w) /\ w \in stack'[i].rest
    BY DEF StillToCome
  <2>5. CASE Parent(w) = current
    <3>1. w \in Existing
      BY <2>1 DEF Awaited, Existing
    <3> QED BY <2>4, <2>5, <3>1
  <2>6. CASE Parent(w) # current
    <3>1. Awaited(w)
      BY <1>b, <2>1, <2>2, <2>6 DEF Awaited, Done
    <3>2. PICK i \in 1 .. Len(stack) : stack[i].parent = Parent(w) /\ w \in stack[i].rest
      BY <3>1 DEF StillToCome
    <3> QED BY <2>4, <3>2
  <2> QED BY <2>5, <2>6
<1>8. CASE Return
  <2>1. /\ stack # <<>> /\ stack' = Tail(stack) /\ Head(stack).rest = {}
        /\ UNCHANGED <<window, todo, syncs, mirror, listed, current>>
    BY <1>8 DEF Return, historyVars, windowVars
  <2>2. /\ Len(stack') = Len(stack) - 1 /\ Len(stack) \in Nat /\ Head(stack) = stack[1]
        /\ \A i \in 1 .. Len(stack') : i + 1 \in 1 .. Len(stack) /\ stack'[i] = stack[i + 1]
    BY <2>1, Popped
  <2>. SUFFICES ASSUME NEW w \in Windows, Awaited(w)'
                PROVE  \E i \in 1 .. Len(stack') : stack'[i].parent = Parent(w) /\ w \in stack'[i].rest
    BY DEF StillToCome
  <2>3. Awaited(w)
    BY <1>b, <2>1 DEF Awaited, Done
  <2>4. PICK i \in 1 .. Len(stack) : stack[i].parent = Parent(w) /\ w \in stack[i].rest
    BY <2>3 DEF StillToCome
  <2>5. i # 1
    BY <2>1, <2>2, <2>4
  <2>6. PICK j \in 1 .. Len(stack') : i = j + 1
    <3>1. i - 1 \in 1 .. Len(stack') /\ i = (i - 1) + 1
      BY <2>2, <2>5
    <3> QED BY <3>1
  <2> QED BY <2>2, <2>4, <2>6
<1>9. CASE UNCHANGED <<stack, current, listed, window, todo, syncs, mirror>>
  <2>1. \A w \in Windows : Awaited(w)' => Awaited(w)
    BY <1>9, <1>b DEF Awaited, Done
  <2> QED BY <1>1, <1>9, <2>1
<1>10. (GetWindowRect /\ at' = "POSITION") \/ GetWindowText \/ Process \/ UNCHANGED vars
       => UNCHANGED <<stack, current, listed, window, todo, syncs, mirror>>
  BY DEF GetWindowRect, GetWindowText, Process, vars, windowVars, enumVars, historyVars
<1>11. GetWindowRect => at' \in {"POSITION", "enum"}
  BY DEF GetWindowRect
<1> QED BY <1>2, <1>3, <1>4, <1>5, <1>6, <1>7, <1>8, <1>9, <1>10, <1>11, Steps

\* What enum_cb has read stays so, or the window counts as raced.
LEMMA SeenInvariance ==
    ASSUME TypeOK, SeenOK, [Next]_vars
    PROVE  SeenOK'
<1>. USE DEF TypeOK, ShellOK
<1>1. CASE UNCHANGED <<at, current, seen, window, todo, raced>>
  BY <1>1 DEF SeenOK
<1>2. ASSUME NEW v \in Windows, Change(v) PROVE SeenOK'
  <2>1. PICK c \in Changes(v) : todo' = [todo EXCEPT ![v] = c]
    BY <1>2 DEF Change
  <2>2. UNCHANGED <<at, current, seen, window, raced>> /\ window[v] \in WindowStates
    BY <1>2 DEF Change, enumVars, WindowsOK
  <2>3. window[v].status = "shown" => c \in Begun
    BY <2>2, ChangesTyped
  <2> QED BY <2>1, <2>2, <2>3 DEF SeenOK, WindowsOK
<1>3. ASSUME NEW v \in Windows, Step(v) PROVE SeenOK'
  <2>1. /\ UNCHANGED <<at, current, seen>> /\ raced' = IF v = current THEN raced \cup {v} ELSE raced
        /\ \A w \in Windows : w # v => window'[w] = window[w] /\ todo'[w] = todo[w]
    BY <1>3 DEF Step, enumVars, WindowsOK
  <2> QED BY <2>1 DEF SeenOK
<1>4. CASE NextWindow
  <2>1. UNCHANGED <<window, todo>> /\ at = "enum"
    BY <1>4 DEF NextWindow, windowVars
  <2>2. CASE UNCHANGED <<at, current, seen, raced>>
    BY <1>1, <2>1, <2>2
  <2>3. CASE ~ UNCHANGED <<at, current, seen, raced>>
    <3>1. PICK w \in Head(stack).rest :
             /\ ~ Skipped(w, Head(stack).parent) /\ at' = "CREATE" /\ current' = w
             /\ seen' = [state |-> window[w].state]
             /\ raced' = IF todo[w] # <<>> THEN raced \cup {w} ELSE raced
      BY <1>4, <2>3 DEF NextWindow
    <3> QED BY <2>1, <3>1 DEF SeenOK, Skipped, InProgress
  <2> QED BY <2>2, <2>3
<1>5. CASE WriteCreate \/ WritePosition \/ WriteTitle \/ WriteState
  BY <1>5 DEF WriteCreate, WritePosition, WriteTitle, WriteState, Write, windowVars, SeenOK, InProgress
<1>6. CASE GetWindowRect
  BY <1>6 DEF GetWindowRect, windowVars, historyVars, SeenOK, InProgress
<1>7. CASE GetWindowText
  BY <1>7 DEF GetWindowText, windowVars, historyVars, SeenOK, InProgress
<1>8. CASE at' \in {"idle", "enum"}
  BY <1>8 DEF SeenOK, InProgress
<1>9. do_sync \/ Recurse \/ Return => at' \in {"idle", "enum"}
  BY DEF do_sync, Recurse, Return, InProgress
<1>10. Process \/ UNCHANGED vars => UNCHANGED <<at, current, seen, window, todo, raced>>
  BY DEF Process, vars, windowVars, enumVars, historyVars
<1> QED BY <1>1, <1>2, <1>3, <1>4, <1>5, <1>6, <1>7, <1>8, <1>9, <1>10, Steps

\* What is known of a window stays right as long as nothing is done to it.
LEMMA MirrorStays ==
    ASSUME NEW w \in Windows, MirrorOK(w),
           window'[w] = window[w], todo'[w] = todo[w], mirror'[w] = mirror[w],
           w \notin raced' => /\ w \notin raced
                              /\ w \in listed' => w \in listed
                              /\ PlaceOwed(w) => PlaceOwed(w)'
                              /\ TitleOwed(w) => TitleOwed(w)'
                              /\ StateOwed(w) => StateOwed(w)'
    PROVE  MirrorOK(w)'
<1>1. Known(mirror', w) <=> Known(mirror, w)
  BY DEF Known
<1>2. RightParent(w)'
  BY <1>1 DEF MirrorOK, RightParent, SameParent, get_parent, Parent
<1>3. HiddenUnknown(w)' /\ ListedKnown(w)'
  BY <1>1 DEF MirrorOK, HiddenUnknown, ListedKnown
<1>4. FieldsRight(w)'
  BY <1>1 DEF MirrorOK, FieldsRight, StateTold
<1> QED BY <1>2, <1>3, <1>4 DEF MirrorOK

\* The parent is the one that the two ways of telling it agree on.
LEMMA ParentStaysRight ==
    ASSUME TypeOK, NEW w \in Windows, RightParent(w),
           \/ mirror' = mirror
           \/ mirror' = Create(mirror, w, get_parent(w))
           \/ mirror' = Create(mirror, w, Parent(w))
           \/ mirror' = Destroy(mirror, w)
           \/ \E p \in Places : mirror' = Place(mirror, w, p)
           \/ \E t \in Titles : mirror' = Title(mirror, w, t)
           \/ \E s \in {0, 1} : mirror' = State(mirror, w, s)
    PROVE  RightParent(w)'
<1>. USE DEF TypeOK
<1>1. CASE mirror' = mirror
  BY <1>1 DEF RightParent, SameParent, get_parent, Parent
<1>2. ASSUME NEW p \in Windows \cup {NoWindow, NoTaskbar}, SameParent(w) => p = Parent(w),
             mirror' = Create(mirror, w, p)
      PROVE  RightParent(w)'
  <2>1. SameParent(w)' <=> SameParent(w)
    BY DEF SameParent, get_parent, Parent
  <2>2. Known(mirror, w) => mirror' = mirror
    BY <1>2, CreateIs
  <2>3. ~ Known(mirror, w) => mirror'[w].parent = p
    BY <1>2, CreateIs
  <2> QED BY <1>2, <2>1, <2>2, <2>3 DEF RightParent
<1>3. CASE mirror' = Destroy(mirror, w)
  BY <1>3, DestroyIs DEF RightParent
<1>4. ASSUME Known(mirror', w) <=> Known(mirror, w),
             Known(mirror, w) => mirror'[w].parent = mirror[w].parent
      PROVE  RightParent(w)'
  BY <1>4 DEF RightParent, SameParent, get_parent, Parent
<1>5. ASSUME NEW p \in Places, mirror' = Place(mirror, w, p) PROVE RightParent(w)'
  BY <1>4, <1>5, PlaceIs
<1>6. ASSUME NEW t \in Titles, mirror' = Title(mirror, w, t) PROVE RightParent(w)'
  BY <1>4, <1>6, TitleIs
<1>7. ASSUME NEW s \in {0, 1}, mirror' = State(mirror, w, s) PROVE RightParent(w)'
  BY <1>4, <1>7, StateIs
<1>8. SameParent(w) => get_parent(w) = Parent(w)
  BY DEF SameParent
<1>9. Parent(w) \in Windows \cup {NoWindow, NoTaskbar}
      /\ get_parent(w) \in Windows \cup {NoWindow, NoTaskbar}
  BY Parents
<1> QED BY <1>1, <1>2, <1>3, <1>5, <1>6, <1>7, <1>8, <1>9

\* A window's thread tells the client of it, if enum_cb is not at it.
LEMMA ThreadTells ==
    ASSUME TypeOK, ConsolesOK, NEW w \in Windows, MirrorOK(w), Step(w), w \notin raced, w # current
    PROVE  HiddenUnknown(w)' /\ ListedKnown(w)' /\ FieldsRight(w)'
<1>. USE DEF TypeOK
<1>1. /\ window[w].place \in Places /\ window[w].title \in Titles /\ window[w].state \in {0, 1}
      /\ TodoOK(w) /\ window[w].status \in {"hidden", "shown", "gone"}
      /\ \A r : Leaves(w, r) => todo'[w] = r
  BY DEF WindowsOK, WindowStates, Leaves
<1>2. listed' = listed /\ raced' = raced /\ current' = current
  BY DEF Step, enumVars
<1>. DEFINE Shows == window[w].status = "shown"
            Knows == Known(mirror, w)
            PlaceIn == {Shown, Created, Titled, Moved}
            TitleIn == {Shown, Created, Texted}
            StateIn == {Shown, Created, Titled, Placed}
            PlaceEq == mirror[w].place = window[w].place
            TitleEq == mirror[w].title = vchannel_strfilter(window[w].title)
<1>3. /\ ~ Shows /\ Knows => todo[w] \in {Hidden, Closed}
      /\ w \in listed /\ Shows => todo[w] = Shown \/ Knows
      /\ Shows /\ Knows => /\ todo[w] \in PlaceIn \/ PlaceEq
                           /\ todo[w] \in TitleIn \/ TitleEq
                           /\ todo[w] \in StateIn \/ StateTold(w)
  BY DEF MirrorOK, HiddenUnknown, ListedKnown, FieldsRight, PlaceOwed, TitleOwed, StateOwed
<1>4. SUFFICES /\ ~ Shows' /\ Knows' => todo'[w] \in {Hidden, Closed}
               /\ w \in listed /\ Shows' => todo'[w] = Shown \/ Knows'
               /\ Shows' /\ Knows' => /\ todo'[w] \in PlaceIn \/ PlaceEq'
                                      /\ todo'[w] \in TitleIn \/ TitleEq'
                                      /\ todo'[w] \in StateIn \/ StateTold(w)'
  BY <1>2 DEF HiddenUnknown, ListedKnown, FieldsRight, PlaceOwed, TitleOwed, StateOwed
<1>. DEFINE Goal == /\ ~ Shows' /\ Knows' => todo'[w] \in {Hidden, Closed}
                    /\ w \in listed /\ Shows' => todo'[w] = Shown \/ Knows'
                    /\ Shows' /\ Knows' => /\ todo'[w] \in PlaceIn \/ PlaceEq'
                                           /\ todo'[w] \in TitleIn \/ TitleEq'
                                           /\ todo'[w] \in StateIn \/ StateTold(w)'
<1>5. /\ \A x : x \notin Minimiseds => \A s \in {0, 1} : x # Minimised(s)
      /\ \A x \in {Show, Shown, Created, Titled, Placed, Hide, Close, Hidden, Closed, Destroyed, Moved,
                   Texted, <<>>} : x \notin Minimiseds
      /\ \A x \in Moves \cup Texts \cup MinMaxes : x \notin Minimiseds
      /\ \A x \in Moves \cup Texts \cup MinMaxes \cup Minimiseds :
            x \notin PlaceIn \cup TitleIn \cup StateIn \cup {Hidden, Closed}
  BY DifferentToo, MinimisedAlone DEF Minimiseds
<1>6. /\ todo[w] \notin Minimiseds => (StateTold(w) <=> mirror[w].state = window[w].state)
      /\ todo'[w] \notin Minimiseds => (StateTold(w)' <=> mirror'[w].state = window'[w].state)
  BY <1>5 DEF StateTold
<1>7. ASSUME ~ Shows, todo[w] \notin {Hidden, Closed}, mirror' = mirror, ~ Shows' PROVE Goal
  BY <1>3, <1>7 DEF Known
<1>8. CASE ShowStep(w)
  <2>1. CASE todo[w] = Show /\ Sets(w, "status", "shown") /\ Leaves(w, Shown)
    <3>1. ~ Shows /\ todo[w] \notin {Hidden, Closed} /\ mirror' = mirror /\ todo'[w] = Shown
      BY <1>1, <2>1, StatusOf, Different DEF Sets
    <3> QED BY <1>3, <3>1 DEF Known
  <2>2. CASE todo[w] = Shown /\ Writes(Announce(w)) /\ Leaves(w, Created)
    <3>1. Shows /\ window' = window /\ todo'[w] = Created
      BY <1>1, <2>2, StatusOf DEF Writes
    <3>2. w \in listed => Knows'
      BY <2>2, CreateIs, Parents DEF Writes, Announce, ConsolesOK
    <3> QED BY <3>1, <3>2
  <2>3. CASE todo[w] = Created /\ Writes(Title(mirror, w, window[w].title)) /\ Leaves(w, Titled)
    <3>1. /\ Shows /\ window' = window /\ todo'[w] = Titled /\ (Knows' <=> Knows) /\ Created # Shown
          /\ Knows => TitleEq'
      BY <1>1, <2>3, StatusOf, TitleIs, Different DEF Writes
    <3> QED BY <1>3, <2>3, <3>1
  <2>4. CASE todo[w] = Titled /\ Writes(Place(mirror, w, window[w].place)) /\ Leaves(w, Placed)
    <3>1. /\ Shows /\ window' = window /\ todo'[w] = Placed /\ (Knows' <=> Knows)
          /\ Titled # Shown /\ Titled # Created /\ Titled # Texted
          /\ Knows => PlaceEq' /\ mirror'[w].title = mirror[w].title
      BY <1>1, <2>4, StatusOf, PlaceIs, Different DEF Writes
    <3> QED BY <1>3, <2>4, <3>1
  <2>5. CASE todo[w] = Placed /\ Writes(State(mirror, w, window[w].state)) /\ Leaves(w, <<>>)
    <3>1. /\ Shows /\ window' = window /\ todo'[w] = <<>> /\ (Knows' <=> Knows)
          /\ Placed \notin PlaceIn \cup TitleIn
          /\ Knows => /\ mirror'[w].state = window[w].state
                      /\ mirror'[w].title = mirror[w].title /\ mirror'[w].place = mirror[w].place
      BY <1>1, <2>5, StatusOf, StateIs, Different DEF Writes
    <3> QED BY <1>3, <1>5, <1>6, <2>5, <3>1
  <2> QED BY <1>8, <2>1, <2>2, <2>3, <2>4, <2>5 DEF ShowStep
<1>9. CASE HideStep(w)
  <2>1. ASSUME NEW r \in {Hidden, Closed}, Sets(w, "status", "hidden"), Leaves(w, r) PROVE Goal
    <3>1. ~ Shows' /\ todo'[w] = r
      BY <1>1, <2>1, SetsIs
    <3> QED BY <3>1, <2>1
  <2>2. CASE todo[w] \in {Hidden, Closed} /\ Writes(Destroy(mirror, w))
    <3>1. ~ Shows' /\ ~ Knows'
      BY <1>1, <2>2, StatusOf, DestroyIs DEF Writes
    <3> QED BY <3>1
  <2>3. CASE todo[w] = Destroyed /\ Sets(w, "status", "gone")
    <3>1. ~ Shows /\ ~ Shows' /\ todo[w] \notin {Hidden, Closed} /\ mirror' = mirror
      BY <1>1, <2>3, StatusOf, Different, SetsIs
    <3> QED BY <3>1, <1>7
  <2> QED BY <1>9, <2>1, <2>2, <2>3 DEF HideStep
\* A hidden window's place and text are changed, and nothing is told.
<1>10. ASSUME NEW f \in {"place", "title"}, NEW x, Sets(w, f, x), todo[w] \in Unseen PROVE Goal
  <2>1. ~ Shows
    BY <1>1, <1>10, StatusOf
  <2>2. ~ Shows' /\ mirror' = mirror
    BY <2>1, <1>10, SetsIs
  <2>3. todo[w] \notin {Hidden, Closed}
    BY <1>5, <1>10 DEF Unseen, Moves, Texts
  <2> QED BY <2>1, <2>2, <2>3, <1>7
<1>11. CASE MoveStep(w)
  <2>1. ASSUME NEW p \in Places, todo[w] = Move(p), Sets(w, "place", p), Leaves(w, Moved) PROVE Goal
    <3>1. todo[w] \in Begun /\ todo[w] \in Moves
      BY <2>1 DEF Begun, Moves
    <3>2. /\ Shows /\ todo'[w] = Moved /\ mirror' = mirror /\ Shows'
          /\ window'[w].title = window[w].title /\ window'[w].state = window[w].state
      BY <1>1, <2>1, <3>1, StatusOf, SetsIs
    <3>3. (w \in listed => Knows) /\ (Knows => TitleEq /\ mirror[w].state = window[w].state)
      BY <1>3, <1>5, <1>6, <3>1, <3>2
    <3> QED BY <1>5, <1>6, <3>2, <3>3 DEF Known
  <2>2. ASSUME NEW p \in Places, todo[w] = <<Move(p)[1]>>, Sets(w, "place", p) PROVE Goal
    <3>1. todo[w] \in Unseen
      BY <2>2 DEF Unseen
    <3> QED BY <1>10, <2>2, <3>1
  <2>3. CASE todo[w] = Moved /\ Writes(Place(mirror, w, window[w].place)) /\ Leaves(w, <<>>)
    <3>1. /\ Shows /\ window' = window /\ todo'[w] = <<>> /\ (Knows' <=> Knows)
          /\ Moved \notin TitleIn \cup StateIn
          /\ Knows => /\ PlaceEq'
                      /\ mirror'[w].title = mirror[w].title /\ mirror'[w].state = mirror[w].state
      BY ZenonT(40), <1>1, <2>3, StatusOf, PlaceIs, Different DEF Writes
    <3> QED BY <1>3, <1>5, <1>6, <2>3, <3>1
  <2> QED BY <1>11, <2>1, <2>2, <2>3 DEF MoveStep
<1>12. CASE TextStep(w)
  <2>1. ASSUME NEW t \in Titles, todo[w] = SetText(t), Sets(w, "title", t), Leaves(w, Texted) PROVE Goal
    <3>1. todo[w] \in Begun /\ todo[w] \in Texts
      BY <2>1 DEF Begun, Texts
    <3>2. /\ Shows /\ todo'[w] = Texted /\ mirror' = mirror /\ Shows'
          /\ window'[w].place = window[w].place /\ window'[w].state = window[w].state
      BY <1>1, <2>1, <3>1, StatusOf, SetsIs
    <3>3. (w \in listed => Knows) /\ (Knows => PlaceEq /\ mirror[w].state = window[w].state)
      BY <1>3, <1>5, <1>6, <3>1, <3>2
    <3> QED BY <1>5, <1>6, <3>2, <3>3 DEF Known
  <2>2. ASSUME NEW t \in Titles, todo[w] = <<SetText(t)[1]>>, Sets(w, "title", t) PROVE Goal
    <3>1. todo[w] \in Unseen
      BY <2>2 DEF Unseen
    <3> QED BY <1>10, <2>2, <3>1
  <2>3. CASE todo[w] = Texted /\ Writes(Title(mirror, w, window[w].title)) /\ Leaves(w, <<>>)
    <3>1. /\ Shows /\ window' = window /\ todo'[w] = <<>> /\ (Knows' <=> Knows)
          /\ Texted \notin PlaceIn \cup StateIn
          /\ Knows => /\ TitleEq'
                      /\ mirror'[w].place = mirror[w].place /\ mirror'[w].state = mirror[w].state
      BY <1>1, <2>3, StatusOf, TitleIs, Different DEF Writes
    <3> QED BY <1>3, <1>5, <1>6, <2>3, <3>1
  <2> QED BY <1>12, <2>1, <2>2, <2>3 DEF TextStep
<1>13. CASE MinMaxStep(w)
  <2>1. ASSUME NEW s \in {0, 1}, todo[w] = MinMax(s), Writes(State(mirror, w, s)),
               Leaves(w, Minimised(s))
        PROVE  Goal
    <3>1. todo[w] \in Begun /\ todo[w] \in MinMaxes
      BY <2>1 DEF Begun, MinMaxes
    <3>2. /\ Shows /\ todo'[w] = Minimised(s) /\ window' = window /\ (Knows' <=> Knows)
          /\ Knows => /\ mirror'[w].state = s
                      /\ mirror'[w].place = mirror[w].place /\ mirror'[w].title = mirror[w].title
      BY <1>1, <2>1, <3>1, StatusOf, StateIs DEF Writes
    <3>3. (w \in listed => Knows) /\ (Knows => PlaceEq /\ TitleEq)
      BY <1>3, <1>5, <3>1, <3>2
    <3>4. Knows => StateTold(w)'
      <4>1. Minimised(s) \in Minimiseds
        BY DEF Minimiseds
      <4> QED BY <3>2, <4>1, MinimisedAlone DEF StateTold
    <3> QED BY <3>2, <3>3, <3>4
  <2>2. ASSUME NEW s \in {0, 1}, todo[w] = Minimised(s), Sets(w, "state", s), Leaves(w, <<>>)
        PROVE  Goal
    <3>1. todo[w] \in Minimiseds
      BY <2>2 DEF Minimiseds
    <3>2. /\ Shows /\ todo'[w] = <<>> /\ mirror' = mirror /\ Shows'
          /\ window'[w].place = window[w].place /\ window'[w].title = window[w].title
          /\ window'[w].state = s
      BY <1>1, <2>2, <3>1, StatusOf, SetsIs
    <3>3. (w \in listed => Knows) /\ (Knows => PlaceEq /\ TitleEq /\ mirror[w].state = s)
      BY <1>3, <1>5, <2>2, <3>1, <3>2 DEF StateTold
    <3> QED BY <1>5, <1>6, <3>2, <3>3 DEF Known
  <2> QED BY <1>13, <2>1, <2>2 DEF MinMaxStep
<1> QED BY <1>1, <1>8, <1>9, <1>11, <1>12, <1>13, StepKinds

\* What enum_cb writes of the window it is at is so.
LEMMA ShellTells ==
    ASSUME TypeOK, SeenOK, MirrorOK(current),
           WriteCreate \/ WritePosition \/ WriteTitle \/ WriteState
    PROVE  MirrorOK(current)'
<1>. USE DEF TypeOK
<1>. DEFINE w == current
<1>1. /\ w \in Windows /\ current' = current /\ UNCHANGED <<window, todo, raced>>
      /\ WriteCreate \/ listed' = listed
  BY ShellAlters DEF WriteCreate, WritePosition, WriteTitle, WriteState, Write, windowVars
<1>2. /\ at = "POSITION" => seen.place \in Places
      /\ at = "TITLE" => seen.title \in Titles
      /\ at = "STATE" => seen.state \in {0, 1}
      /\ at \in InProgress
  BY DEF WriteCreate, WritePosition, WriteTitle, WriteState, ShellOK, InProgress
<1>3. RightParent(w) /\ HiddenUnknown(w) /\ ListedKnown(w) /\ FieldsRight(w)
  BY DEF MirrorOK
<1>4. RightParent(w)'
  <2>1. \/ mirror' = Create(mirror, w, Parent(w))
        \/ \E p \in Places : mirror' = Place(mirror, w, p)
        \/ \E t \in Titles : mirror' = Title(mirror, w, t)
        \/ \E s \in {0, 1} : mirror' = State(mirror, w, s)
    BY <1>2 DEF WriteCreate, WritePosition, WriteTitle, WriteState, Write
  <2>2. ASSUME NEW v \in Windows, v = current PROVE RightParent(v)'
    BY <1>3, <2>1, <2>2, ParentStaysRight
  <2> QED BY <1>1, <2>2 DEF RightParent
<1>5. SUFFICES ASSUME w \notin raced
               PROVE  HiddenUnknown(w)' /\ ListedKnown(w)' /\ FieldsRight(w)'
  BY <1>1, <1>3, <1>4 DEF MirrorOK, HiddenUnknown, ListedKnown, FieldsRight
<1>6. window[w].status = "shown"
  BY <1>2, <1>5 DEF SeenOK
<1>7. todo[w] \notin Minimiseds
  <2>1. todo[w] \in {Hide, Close, <<>>} \cup Moves \cup Texts \cup MinMaxes
    BY <1>2, <1>5 DEF SeenOK, Begun, Moves, Texts, MinMaxes
  <2> QED BY <2>1, DifferentToo, MinimisedAlone
<1>8. HiddenUnknown(w)'
  BY <1>1, <1>6 DEF HiddenUnknown
<1>9. CASE WriteCreate
  <2>1. Known(mirror', w) /\ at' = "rect"
    BY <1>9, ShellAlters DEF WriteCreate, Write
  <2> QED BY <1>1, <1>8, <2>1 DEF ListedKnown, FieldsRight, PlaceOwed, TitleOwed, StateOwed
<1>10. CASE WritePosition
  <2>1. /\ Known(mirror', w) <=> Known(mirror, w)
        /\ Known(mirror, w) => mirror'[w].place = window[w].place
        /\ at' = "text" /\ listed' = listed
    BY <1>1, <1>2, <1>5, <1>10, PlaceIs DEF WritePosition, Write, SeenOK
  <2> QED BY <1>1, <1>3, <1>5, <1>8, <2>1 DEF ListedKnown, FieldsRight, PlaceOwed, TitleOwed, StateOwed
<1>11. CASE WriteTitle
  <2>1. /\ Known(mirror', w) <=> Known(mirror, w)
        /\ Known(mirror, w) => /\ mirror'[w].title = vchannel_strfilter(window[w].title)
                               /\ mirror'[w].place = mirror[w].place
        /\ at = "TITLE" /\ at' = "STATE" /\ listed' = listed
    BY <1>1, <1>2, <1>5, <1>11, TitleIs DEF WriteTitle, Write, SeenOK
  <2> QED BY <1>1, <1>3, <1>5, <1>6, <1>8, <2>1
          DEF ListedKnown, FieldsRight, PlaceOwed, TitleOwed, StateOwed
<1>12. CASE WriteState
  <2>1. /\ Known(mirror', w) <=> Known(mirror, w)
        /\ Known(mirror, w) => /\ mirror'[w].state = window[w].state
                               /\ mirror'[w].place = mirror[w].place
                               /\ mirror'[w].title = mirror[w].title
        /\ at = "STATE" /\ at' = "process" /\ listed' = listed
    BY <1>1, <1>2, <1>5, <1>12, StateIs DEF WriteState, Write, SeenOK
  <2>2. \A s \in {0, 1} : todo[w] # Minimised(s)
    BY <1>7 DEF Minimiseds
  <2> QED BY <1>1, <1>3, <1>5, <1>6, <1>7, <1>8, <2>1, <2>2
          DEF ListedKnown, FieldsRight, PlaceOwed, TitleOwed, StateOwed, StateTold
<1> QED BY <1>9, <1>10, <1>11, <1>12

\* Whoever writes, what the client knows is right or owed.
LEMMA MirrorsInvariance ==
    ASSUME TypeOK, EnumOK, ConsolesOK, MirrorsOK, [Next]_vars
    PROVE  MirrorsOK'
<1>. USE DEF TypeOK, ShellOK
<1>1. SeenOK'
  BY SeenInvariance DEF MirrorsOK
<1>. SUFFICES ASSUME NEW w \in Windows PROVE MirrorOK(w)'
  BY <1>1 DEF MirrorsOK
<1>2. MirrorOK(w) /\ SeenOK
  BY DEF MirrorsOK
<1>3. ASSUME NEW v \in Windows, v # w, Change(v) \/ Step(v) PROVE MirrorOK(w)'
  <2>1. /\ UNCHANGED <<at, current, listed>> /\ raced \subseteq raced'
        /\ todo'[w] = todo[w] /\ window'[w] = window[w]
    BY <1>3 DEF Change, Step, enumVars, WindowsOK
  <2>2. mirror'[w] = mirror[w]
    BY <1>3, StepAlters DEF Change, Alters
  <2> QED BY <1>2, <2>1, <2>2, MirrorStays DEF PlaceOwed, TitleOwed, StateOwed
<1>4. CASE Change(w)
  <2>1. PICK c \in Changes(w) : todo' = [todo EXCEPT ![w] = c]
    BY <1>4 DEF Change
  <2>2. /\ UNCHANGED <<at, current, listed, raced, window, mirror>> /\ todo[w] = <<>>
        /\ window[w] \in WindowStates /\ todo'[w] = c
    BY <1>4, <2>1 DEF Change, enumVars, WindowsOK
  <2>3. todo[w] \notin {Hidden, Closed, Shown, Created, Titled, Placed, Moved, Texted} \cup Minimiseds
    BY <2>2, Different, DifferentToo
  <2>4. window[w].status = "shown" => c \notin Minimiseds
    <3>1. window[w].status = "shown" => c \in {Hide, Close} \cup Moves \cup Texts \cup MinMaxes
      BY <2>2, ChangesTyped DEF Begun, Moves, Texts, MinMaxes
    <3> QED BY <3>1, DifferentToo, MinimisedAlone
  <2>5. RightParent(w)'
    BY <1>2, <2>2 DEF MirrorOK, RightParent, SameParent, get_parent, Parent
  <2>6. HiddenUnknown(w)' /\ ListedKnown(w)'
    BY <1>2, <2>2, <2>3 DEF MirrorOK, HiddenUnknown, ListedKnown, Known
  <2>7. FieldsRight(w)'
    <3>. SUFFICES ASSUME w \notin raced, window[w].status = "shown", Known(mirror, w)
                  PROVE  /\ PlaceOwed(w)' \/ mirror[w].place = window[w].place
                         /\ TitleOwed(w)' \/ mirror[w].title = vchannel_strfilter(window[w].title)
                         /\ StateOwed(w)' \/ StateTold(w)'
      BY <2>2 DEF FieldsRight, Known
    <3>1. /\ PlaceOwed(w) \/ mirror[w].place = window[w].place
          /\ TitleOwed(w) \/ mirror[w].title = vchannel_strfilter(window[w].title)
          /\ StateOwed(w) \/ StateTold(w)
      BY <1>2 DEF MirrorOK, FieldsRight
    <3>2. (PlaceOwed(w) => PlaceOwed(w)') /\ (TitleOwed(w) => TitleOwed(w)')
          /\ (StateOwed(w) => StateOwed(w)')
      BY <2>2, <2>3 DEF PlaceOwed, TitleOwed, StateOwed
    <3>3. StateTold(w) => StateTold(w)'
      BY <2>2, <2>3, <2>4 DEF StateTold, Minimiseds
    <3> QED BY <3>1, <3>2, <3>3
  <2> QED BY <2>5, <2>6, <2>7 DEF MirrorOK
<1>5. CASE Step(w)
  <2>1. raced' = IF w = current THEN raced \cup {w} ELSE raced
    BY <1>5 DEF Step
  <2>2. RightParent(w)'
    <3>1. /\ window[w].place \in Places /\ window[w].title \in Titles /\ window[w].state \in {0, 1}
          /\ TodoOK(w)
      BY DEF WindowsOK, WindowStates
    <3>2. \/ mirror' = mirror \/ mirror' = Create(mirror, w, get_parent(w))
          \/ mirror' = Destroy(mirror, w)
          \/ \E p \in Places : mirror' = Place(mirror, w, p)
          \/ \E t \in Titles : mirror' = Title(mirror, w, t)
          \/ \E s \in {0, 1} : mirror' = State(mirror, w, s)
      BY <1>5, <3>1, StepKinds
         DEF ShowStep, HideStep, MoveStep, TextStep, MinMaxStep, Sets, Writes, Announce
    <3> QED BY <1>2, <3>2, ParentStaysRight DEF MirrorOK
  <2>3. CASE w \in raced'
    BY <2>2, <2>3 DEF MirrorOK, HiddenUnknown, ListedKnown, FieldsRight
  <2>4. CASE w \notin raced'
    BY <1>2, <1>5, <2>1, <2>2, <2>4, ThreadTells DEF MirrorOK
  <2> QED BY <2>3, <2>4
<1>6. CASE do_sync
  <2>1. mirror'[w] = NoWindow /\ listed' = {}
    BY <1>6 DEF do_sync
  <2> QED BY <2>1 DEF MirrorOK, RightParent, HiddenUnknown, ListedKnown, FieldsRight, Known
<1>7. CASE WriteCreate \/ WritePosition \/ WriteTitle \/ WriteState
  <2>1. CASE w = current
    <3>1. MirrorOK(current)'
      BY <1>2, <1>7, <2>1, ShellTells
    <3>2. current' = current
      BY <1>7 DEF WriteCreate, WritePosition, WriteTitle, WriteState, Write
    <3> QED BY <2>1, <3>1, <3>2 DEF MirrorOK, RightParent, HiddenUnknown, ListedKnown, FieldsRight,
               PlaceOwed, TitleOwed, StateOwed, StateTold, SameParent, get_parent, Parent
  <2>2. CASE w # current
    <3>1. mirror'[w] = mirror[w]
      BY <1>7, <2>2, ShellAlters DEF Alters
    <3>2. /\ UNCHANGED <<window, todo, raced, current>> /\ listed' \subseteq listed \cup {current}
      BY <1>7 DEF WriteCreate, WritePosition, WriteTitle, WriteState, Write, windowVars
    <3> QED BY <1>2, <2>2, <3>1, <3>2, MirrorStays DEF PlaceOwed, TitleOwed, StateOwed
  <2> QED BY <2>1, <2>2
<1>8. CASE GetWindowRect /\ at' = "enum"
  <2>1. /\ UNCHANGED <<window, todo, mirror, raced, listed>>
        /\ window[current].status = "gone" /\ at \in InProgress
    BY <1>8 DEF GetWindowRect, windowVars, historyVars, InProgress
  <2>2. current \in raced
    BY <1>2, <2>1 DEF SeenOK
  <2> QED BY <1>2, <2>1, <2>2, MirrorStays DEF PlaceOwed, TitleOwed, StateOwed
<1>9. CASE /\ UNCHANGED <<window, todo, mirror, listed>> /\ raced \subseteq raced'
           /\ PlaceOwed(w) => PlaceOwed(w)'
           /\ TitleOwed(w) => TitleOwed(w)'
           /\ StateOwed(w) => StateOwed(w)'
  BY <1>2, <1>9, MirrorStays
<1>10. NextWindow \/ Recurse \/ Return =>
          /\ UNCHANGED <<window, todo, mirror, listed>> /\ raced \subseteq raced'
          /\ at \in {"enum", "process"}
  BY DEF NextWindow, Recurse, Return, windowVars, historyVars
<1>11. (GetWindowRect /\ at' = "POSITION") \/ GetWindowText \/ Process \/ UNCHANGED vars =>
          /\ UNCHANGED <<window, todo, mirror, listed, raced, current>>
          /\ at' = at \/ (at = "rect" /\ at' = "POSITION") \/ (at = "text" /\ at' = "TITLE")
  BY DEF GetWindowRect, GetWindowText, Process, vars, windowVars, enumVars, historyVars
<1>12. CASE NextWindow \/ Recurse \/ Return
  BY <1>9, <1>10, <1>12 DEF PlaceOwed, TitleOwed, StateOwed
<1>13. CASE (GetWindowRect /\ at' = "POSITION") \/ GetWindowText \/ Process \/ UNCHANGED vars
  BY <1>9, <1>11, <1>13 DEF PlaceOwed, TitleOwed, StateOwed
<1>14. GetWindowRect => at' \in {"POSITION", "enum"}
  BY DEF GetWindowRect
<1> QED BY <1>3, <1>4, <1>5, <1>6, <1>7, <1>8, <1>12, <1>13, <1>14, Steps

\* A popup's owner is among its owners, and so are theirs.
LEMMA OwnersClosed ==
    ASSUME NEW w \in Windows
    PROVE  /\ Owners(w) \subseteq Windows
           /\ \A v \in Owners(w) \cup {w} : Parent(v) \in Owners(w) \cup {NoWindow}
<1>. DEFINE HasOwners(S) == \A v \in S \cup {w} : Parent(v) \in S \cup {NoWindow}
<1>1. \A o : o \in Owners(w) <=> o \in Windows /\ \A S \in SUBSET Windows : HasOwners(S) => o \in S
  BY DEF Owners
<1>2. ASSUME NEW v \in Owners(w) \cup {w}, Parent(v) # NoWindow PROVE Parent(v) \in Owners(w)
  <2>1. v \in Windows
    BY <1>1, <1>2
  <2>2. Parent(v) \in Windows
    BY <1>2, <2>1, Parents
  <2>3. ASSUME NEW S \in SUBSET Windows, HasOwners(S) PROVE Parent(v) \in S
    <3>1. v \in S \cup {w}
      BY <1>1, <2>3
    <3> QED BY <1>2, <2>3, <3>1
  <2>. HIDE DEF HasOwners
  <2> QED BY <1>1, <2>2, <2>3
<1> QED BY <1>1, <1>2

\* When all is quiet the client knows of a window that is shown and is no console,
\* unless one of its owners is not shown, is a console, or has changed.
LEMMA KnownIfOwnersAre ==
    ASSUME TypeOK, EnumOK, Untouched, StillToCome, MirrorsOK, Quiet, NEW w \in Windows \ raced,
           window[w].status = "shown", w \notin consoles, ~ Known(mirror, w)
    PROVE  \E o \in Owners(w) : o \in changed \cup consoles \/ window[o].status # "shown"
<1>. USE DEF TypeOK
<1>1. /\ at = "idle" /\ syncs > 0 /\ current = NoWindow /\ stack = <<>> /\ Done = listed
      /\ \A v \in Windows : todo[v] = <<>>
  BY SyncAssumption DEF Quiet, ShellOK, EnumOK, InProgress, Done, HistoryOK
<1>2. <<>> # Shown
  BY Different
\* Of a window that is shown and unknown the parent has not been listed.
<1>3. ASSUME NEW v \in Windows, v \notin listed \cup consoles, window[v].status = "shown",
             ~ Known(mirror, v)
      PROVE  /\ Parent(v) # NoWindow
             /\ Parent(v) \notin listed \/ window[Parent(v)].status = "gone"
  <2>1. 1 .. Len(stack) = {}
    BY <1>1
  <2>2. ~ Awaited(v)
    BY <2>1 DEF StillToCome
  <2>3. v \notin listed \cup {current} \cup consoles
    BY <1>1, <1>3, SyncAssumption
  <2> QED BY <1>1, <1>2, <1>3, <2>2, <2>3 DEF Awaited
<1>4. w \notin listed
  BY <1>1, <1>2 DEF MirrorsOK, MirrorOK, ListedKnown
<1>5. SUFFICES ASSUME \A o \in Owners(w) :
                        o \notin changed \cup consoles /\ window[o].status = "shown"
               PROVE  FALSE
  OBVIOUS
<1>. DEFINE S == Owners(w) \ listed
<1>6. S \in SUBSET Windows
  BY OwnersClosed
<1>7. Parent(w) \in S
  <2>1. Parent(w) # NoWindow /\ (Parent(w) \notin listed \/ window[Parent(w)].status = "gone")
    BY <1>3, <1>4
  <2>2. Parent(w) \in Owners(w)
    BY <2>1, OwnersClosed
  <2> QED BY <1>5, <2>1, <2>2
<1>8. ASSUME NEW v \in S PROVE Owner[v] \in S
  <2>1. v \in Windows /\ v \in Owners(w) /\ v \notin listed \cup consoles /\ v \notin changed
        /\ window[v].status = "shown"
    BY <1>5, <1>6, <1>8
  <2>2. ~ Known(mirror, v)
    BY <2>1 DEF Untouched
  <2>3. Parent(v) # NoWindow /\ (Parent(v) \notin listed \/ window[Parent(v)].status = "gone")
    BY <1>3, <2>1, <2>2
  <2>4. Parent(v) \in Owners(w)
    BY <2>1, <2>3, OwnersClosed
  <2>5. Parent(v) = Owner[v]
    BY <2>3 DEF Parent
  <2> QED BY <1>5, <2>3, <2>4, <2>5
<1>. HIDE DEF S
<1> QED BY <1>6, <1>7, <1>8, OwnersAssumption

\* After a SYNC a client that is still there knows every window as it is, but for
\* consoles and what they own, for any windows and owners and however often the
\* windows change while they are being listed.
THEOREM MirrorComesRight == Spec => []MirrorIsRight
<1>. DEFINE IInv == EnumOK /\ FramesOK /\ Untouched /\ ConsolesOK /\ StillToCome /\ MirrorsOK
<1>1. Init => IInv
  <2> SUFFICES ASSUME Init PROVE IInv
    OBVIOUS
  <2>1. EnumOK /\ FramesOK /\ Untouched
    BY FramesInit
  <2>2. StillToCome
    BY DEF Init, StillToCome, Awaited
  <2>c. ConsolesOK
    BY SyncAssumption DEF Init, ConsolesOK, Known
  <2>3. MirrorsOK
    BY DEF Init, MirrorsOK, SeenOK, InProgress, MirrorOK, RightParent, HiddenUnknown, ListedKnown,
       FieldsRight, Known
  <2> QED BY <2>1, <2>2, <2>c, <2>3
<1>2. TypeOK /\ IInv /\ [Next]_vars => IInv'
  BY FramesInvariance, UntouchedInvariance, ConsolesInvariance, AwaitedInvariance, MirrorsInvariance
<1>3. TypeOK /\ IInv => MirrorIsRight
  <2> SUFFICES ASSUME TypeOK, IInv, Quiet, NEW w \in Windows \ raced
               PROVE  IF window[w].status # "shown" \/ w \in consoles THEN mirror[w] = NoWindow
                      ELSE \/ mirror[w] = RightOf(w)
                           \/ mirror[w] = NoWindow
                              /\ \E o \in Owners(w) : \/ o \in changed \cup consoles
                                                       \/ window[o].status # "shown"
    BY DEF MirrorIsRight
  <2>1. /\ todo[w] = <<>> /\ at = "idle"
        /\ <<>> \notin {Hidden, Closed, Shown, Created, Titled, Placed, Moved, Texted} \cup Minimiseds
    BY Different, DifferentToo DEF Quiet
  <2>2. CASE window[w].status # "shown"
    BY <2>1, <2>2 DEF MirrorsOK, MirrorOK, HiddenUnknown, Known
  <2>c. CASE w \in consoles
    BY <2>c DEF ConsolesOK, Known
  <2>3. CASE window[w].status = "shown" /\ w \notin consoles /\ ~ Known(mirror, w)
    BY <2>3, KnownIfOwnersAre DEF Known
  <2>4. CASE window[w].status = "shown" /\ w \notin consoles /\ Known(mirror, w)
    <3>1. mirror[w] \in Entries
      BY <2>4 DEF TypeOK, Mirrors, Known
    <3>2. ~ PlaceOwed(w) /\ ~ TitleOwed(w) /\ ~ StateOwed(w)
      BY <2>1 DEF PlaceOwed, TitleOwed, StateOwed
    <3>3. /\ mirror[w].place = window[w].place
          /\ mirror[w].title = vchannel_strfilter(window[w].title)
          /\ mirror[w].state = window[w].state
      BY <2>1, <2>4, <3>2 DEF MirrorsOK, MirrorOK, FieldsRight, StateTold
    <3>4. SameParent(w) => mirror[w].parent = Parent(w)
      BY <2>4 DEF MirrorsOK, MirrorOK, RightParent
    <3>5. mirror[w] = RightOf(w)
      BY <3>1, <3>3, <3>4 DEF Entries, RightOf
    <3> QED BY <2>4, <3>5
  <2> QED BY <2>2, <2>c, <2>3, <2>4
<1>. HIDE DEF IInv
<1> QED BY <1>1, <1>2, <1>3, TypeCorrect, PTL DEF Spec
=============================================================================
