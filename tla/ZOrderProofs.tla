---------------------------- MODULE ZOrderProofs ----------------------------
(***************************************************************************)
(* Proofs about ZOrder: the client's order is that of the windows, and a   *)
(* request that moves its window alone is acknowledged once, for any       *)
(* windows, layers and requests, and any number of them.                   *)
(***************************************************************************)
EXTENDS ZOrder, FiniteSetTheorems, SequenceTheorems, WellFoundedInduction, TLAPS

(***************************************************************************)
(* The invariants.                                                         *)

Blocks == [win : Windows \cup {NoWindow}, behind : Windows \cup {NoWindow}, serial : Nat]

TypeOK ==
    /\ Lists(order, Windows) /\ InLayers(order) /\ Lists(mirror, Shown)
    /\ zchange \in Blocks /\ block \in [Windows -> Blocks]
    /\ pc \in [Windows -> {"idle", "read", "report"}]
    /\ shell \in {"idle", "block", "set", "wait"}
    /\ requests \in Seq(Requests) /\ acts \in Nat
    /\ acks \in Seq(Nat) /\ crossed \in BOOLEAN
    /\ fate \in {"quiet", "moved", "disturbed"}

\* What is blocked, or was when a thread looked, is what some request asked for.
OfRequest(blocked) ==
    blocked.win # NoWindow =>
        /\ blocked.serial \in 1 .. serial
        /\ blocked.win = requests[blocked.serial].win /\ blocked.behind = requests[blocked.serial].behind

\* Windows that are not visible report nothing; the block is that of the request
\* the shell is at.
BlocksOK ==
    /\ \A w \in Windows : OfRequest(block[w]) /\ (pc[w] # "idle" => w \in Shown)
    /\ shell # "idle" => serial > 0
    /\ IF shell \in {"set", "wait"}
       THEN zchange = [win |-> request.win, behind |-> request.behind, serial |-> serial]
       ELSE zchange.win = NoWindow

IInv == TypeOK /\ BlocksOK

\* InFront, in any order.
FrontIn(o, w) ==
    LET n == SelectLastInSubSeq(o, 1, PlaceOf(o, w) - 1, LAMBDA v : v \in Shown)
    IN  IF n = 0 THEN NoWindow ELSE o[n]

\* How the window of a request that moved nothing else comes to report, and what it
\* finds then.
Answers == {i \in 1 .. Len(acks) : acks[i] = serial}
Answered ==
    /\ \A v \in Windows : v # request.win => pc[v] = "idle"
    /\ Reachable(request) => FrontIn(order, request.win) = request.behind
    /\ pc[request.win] # "idle" => Answers = {}
    /\ pc[request.win] = "report" => block[request.win] = zchange
    /\ pc[request.win] = "idle" => IF Reachable(request) THEN \E i \in 1 .. Len(acks) : Answers = {i}
                                   ELSE \A i, j \in Answers : i = j

AnswersInv ==
    /\ \A i \in 1 .. Len(acks) : acks[i] <= serial
    /\ shell = "block" =>
          /\ Answers = {}
          /\ \A w \in Windows : block[w].win # NoWindow => block[w].serial < serial
    /\ fate = "moved" => shell \in {"idle", "wait"}
    /\ fate = "quiet" /\ shell # "idle" => Answers = {} /\ \A w \in Windows : pc[w] = "idle"
    /\ fate = "moved" /\ shell = "wait" => Answered

-----------------------------------------------------------------------------
(* Taking an element out of a sequence and putting it in elsewhere.        *)

LEMMA Concatenation ==
    ASSUME NEW S, NEW s \in Seq(S), NEW t \in Seq(S), NEW r, r = s \o t
    PROVE  /\ r \in Seq(S) /\ Len(r) = Len(s) + Len(t)
           /\ \A i \in 1 .. Len(s) : r[i] = s[i]
           /\ \A i \in 1 .. Len(t) : r[Len(s) + i] = t[i]
<1>1. /\ r \in Seq(S) /\ Len(r) = Len(s) + Len(t)
      /\ \A i \in 1 .. Len(s) + Len(t) : r[i] = IF i <= Len(s) THEN s[i] ELSE t[i - Len(s)]
  BY ConcatProperties, Zenon
<1>2. Len(s) \in Nat /\ Len(t) \in Nat
  OBVIOUS
<1>3. \A i \in 1 .. Len(s) : r[i] = s[i]
  BY <1>1, <1>2
<1>4. ASSUME NEW i \in 1 .. Len(t) PROVE r[Len(s) + i] = t[i]
  <2>1. Len(s) + i \in 1 .. Len(s) + Len(t) /\ ~ (Len(s) + i <= Len(s))
        /\ (Len(s) + i) - Len(s) = i
    BY <1>2
  <2> QED BY <2>1, <1>1
<1> QED BY <1>1, <1>3, <1>4

LEMMA Part ==
    ASSUME NEW S, NEW s \in Seq(S), NEW m \in 1 .. Len(s) + 1, NEW n \in m - 1 .. Len(s)
    PROVE  /\ SubSeq(s, m, n) \in Seq(S) /\ Len(SubSeq(s, m, n)) = n - m + 1
           /\ \A i \in 1 .. n - m + 1 : SubSeq(s, m, n)[i] = s[m + i - 1]
BY SubSeqProperties

LEMMA Removed ==
    ASSUME NEW S, NEW s \in Seq(S), NEW k \in 1 .. Len(s)
    PROVE  LET r == RemoveAt(s, k)
           IN  /\ r \in Seq(S) /\ Len(r) = Len(s) - 1
               /\ \A i \in 1 .. Len(r) : r[i] = IF i < k THEN s[i] ELSE s[i + 1]
<1>. DEFINE a == SubSeq(s, 1, k - 1)
            b == SubSeq(s, k + 1, Len(s))
<1>0. Len(s) \in Nat /\ k \in Nat
  OBVIOUS
<1>1. /\ a \in Seq(S) /\ Len(a) = k - 1
      /\ \A i \in 1 .. k - 1 : a[i] = s[i]
  <2>1. 1 \in 1 .. Len(s) + 1 /\ k - 1 \in 1 - 1 .. Len(s)
    BY <1>0
  <2>2. /\ a \in Seq(S) /\ Len(a) = (k - 1) - 1 + 1
        /\ \A i \in 1 .. (k - 1) - 1 + 1 : a[i] = s[1 + i - 1]
    BY <2>1, Part
  <2> QED BY <2>2, <1>0
<1>2. /\ b \in Seq(S) /\ Len(b) = Len(s) - k
      /\ \A i \in 1 .. Len(s) - k : b[i] = s[k + i]
  <2>1. k + 1 \in 1 .. Len(s) + 1 /\ Len(s) \in (k + 1) - 1 .. Len(s)
    BY <1>0
  <2>2. /\ b \in Seq(S) /\ Len(b) = Len(s) - (k + 1) + 1
        /\ \A i \in 1 .. Len(s) - (k + 1) + 1 : b[i] = s[(k + 1) + i - 1]
    BY <2>1, Part
  <2> QED BY <2>2, <1>0
<1>. HIDE DEF a, b
<1>r. PICK r : r = a \o b
  OBVIOUS
<1>3. /\ r \in Seq(S) /\ Len(r) = Len(s) - 1
      /\ \A i \in 1 .. Len(a) : r[i] = a[i]
      /\ \A i \in 1 .. Len(b) : r[Len(a) + i] = b[i]
  <2>1. /\ r \in Seq(S) /\ Len(r) = Len(a) + Len(b)
        /\ \A i \in 1 .. Len(a) : r[i] = a[i]
        /\ \A i \in 1 .. Len(b) : r[Len(a) + i] = b[i]
    <3>1. a \in Seq(S) /\ b \in Seq(S)
      BY <1>1, <1>2
    <3> QED BY <3>1, <1>r, Concatenation
  <2> QED BY <2>1, <1>0, <1>1, <1>2
<1>4. ASSUME NEW i \in 1 .. Len(r) PROVE r[i] = IF i < k THEN s[i] ELSE s[i + 1]
  <2>1. CASE i < k
    BY <2>1, <1>0, <1>1, <1>3
  <2>2. CASE i >= k
    <3>1. PICK j \in 1 .. Len(b) : i = Len(a) + j
      <4>1. i - Len(a) \in 1 .. Len(b) /\ i = Len(a) + (i - Len(a))
        BY <2>2, <1>0, <1>1, <1>2, <1>3
      <4> QED BY <4>1
    <3>2. r[i] = b[j] /\ b[j] = s[k + j]
      BY <3>1, <1>2, <1>3
    <3>3. k + j = i + 1
      BY <3>1, <1>1, <1>2, <1>0
    <3> QED BY <3>2, <3>3, <2>2, <1>0
  <2> QED BY <2>1, <2>2, <1>0
<1>5. RemoveAt(s, k) = r
  BY <1>r DEF RemoveAt, a, b
<1> QED BY <1>3, <1>4, <1>5

LEMMA Inserted ==
    ASSUME NEW S, NEW s \in Seq(S), NEW e \in S, NEW k \in 1 .. Len(s) + 1
    PROVE  LET r == InsertAt(s, k, e)
           IN  /\ r \in Seq(S) /\ Len(r) = Len(s) + 1
               /\ \A i \in 1 .. Len(r) :
                     r[i] = IF i < k THEN s[i] ELSE IF i = k THEN e ELSE s[i - 1]
<1>. DEFINE a == SubSeq(s, 1, k - 1)
            b == SubSeq(s, k, Len(s))
<1>0. Len(s) \in Nat /\ k \in Nat /\ k <= Len(s) + 1 /\ k >= 1
  OBVIOUS
<1>1. /\ a \in Seq(S) /\ Len(a) = k - 1
      /\ \A i \in 1 .. k - 1 : a[i] = s[i]
  <2>1. 1 \in 1 .. Len(s) + 1 /\ k - 1 \in 1 - 1 .. Len(s)
    BY <1>0
  <2>2. /\ a \in Seq(S) /\ Len(a) = (k - 1) - 1 + 1
        /\ \A i \in 1 .. (k - 1) - 1 + 1 : a[i] = s[1 + i - 1]
    BY <2>1, Part
  <2> QED BY <2>2, <1>0
<1>2. /\ b \in Seq(S) /\ Len(b) = Len(s) - k + 1
      /\ \A i \in 1 .. Len(s) - k + 1 : b[i] = s[k + i - 1]
  <2>1. k \in 1 .. Len(s) + 1 /\ Len(s) \in k - 1 .. Len(s)
    BY <1>0
  <2> QED BY <2>1, Part
<1>. HIDE DEF a, b
<1>d. PICK d : d = <<e>>
  OBVIOUS
<1>c. PICK c : c = a \o d
  OBVIOUS
<1>r. PICK r : r = c \o b
  OBVIOUS
<1>3. /\ c \in Seq(S) /\ Len(c) = k
      /\ \A i \in 1 .. k - 1 : c[i] = s[i]
      /\ c[k] = e
  <2>1. d \in Seq(S) /\ Len(d) = 1 /\ d[1] = e
    BY <1>d
  <2>2. /\ c \in Seq(S) /\ Len(c) = Len(a) + Len(d)
        /\ \A i \in 1 .. Len(a) : c[i] = a[i]
        /\ \A i \in 1 .. Len(d) : c[Len(a) + i] = d[i]
    <3>1. a \in Seq(S) /\ d \in Seq(S)
      BY <2>1, <1>1
    <3> QED BY <3>1, <1>c, Concatenation
  <2>3. c[Len(a) + 1] = e
    BY <2>1, <2>2
  <2> QED BY <2>1, <2>2, <2>3, <1>0, <1>1
<1>4. /\ r \in Seq(S) /\ Len(r) = Len(s) + 1
      /\ \A i \in 1 .. Len(c) : r[i] = c[i]
      /\ \A i \in 1 .. Len(b) : r[Len(c) + i] = b[i]
  <2>1. /\ r \in Seq(S) /\ Len(r) = Len(c) + Len(b)
        /\ \A i \in 1 .. Len(c) : r[i] = c[i]
        /\ \A i \in 1 .. Len(b) : r[Len(c) + i] = b[i]
    <3>1. c \in Seq(S) /\ b \in Seq(S)
      BY <1>2, <1>3
    <3> QED BY <3>1, <1>r, Concatenation
  <2> QED BY <2>1, <1>0, <1>2, <1>3
<1>5. ASSUME NEW i \in 1 .. Len(r)
      PROVE  r[i] = IF i < k THEN s[i] ELSE IF i = k THEN e ELSE s[i - 1]
  <2>1. CASE i <= k
    BY <2>1, <1>0, <1>3, <1>4
  <2>2. CASE i > k
    <3>1. PICK j \in 1 .. Len(b) : i = Len(c) + j
      <4>1. i - Len(c) \in 1 .. Len(b) /\ i = Len(c) + (i - Len(c))
        BY <2>2, <1>0, <1>2, <1>3, <1>4
      <4> QED BY <4>1
    <3>2. r[i] = b[j] /\ b[j] = s[k + j - 1]
      BY <3>1, <1>2, <1>4
    <3>3. k + j - 1 = i - 1
      BY <3>1, <1>2, <1>3, <1>0
    <3> QED BY <3>2, <3>3, <2>2, <1>0
  <2> QED BY <2>1, <2>2, <1>0
<1>6. InsertAt(s, k, e) = r
  BY <1>r, <1>c, <1>d DEF InsertAt, a, b
<1> QED BY <1>4, <1>5, <1>6

-----------------------------------------------------------------------------
(* Places in a list.                                                       *)

LEMMA ListHas ==
    ASSUME NEW S, NEW s, Lists(s, S)
    PROVE  /\ s \in Seq(S) /\ Len(s) \in Nat /\ DOMAIN s = 1 .. Len(s)
           /\ \A i \in 1 .. Len(s) : s[i] \in S
<1>1. s \in Seq(S)
  BY DEF Lists
<1> QED BY <1>1

LEMMA PlaceIs ==
    ASSUME NEW S, NEW s, Lists(s, S), NEW i \in 1 .. Len(s)
    PROVE  PlaceOf(s, s[i]) = i
<1>. DEFINE I == {j \in 1 .. Len(s) : s[j] = s[i]}
<1>1. I = {i}
  BY DEF Lists
<1>2. PlaceOf(s, s[i]) = IF I # {} THEN Min(I) ELSE 0
  BY DEF PlaceOf, SelectInSeq
<1>. HIDE DEF I
<1>3. i \in Int /\ i <= i
  BY ListHas
<1>4. Min(I) = i
  BY <1>1, <1>3 DEF Min
<1> QED BY <1>1, <1>2, <1>4

LEMMA HasPlace ==
    ASSUME NEW S, NEW s, Lists(s, S), NEW w
    PROVE  /\ w \in S => PlaceOf(s, w) \in 1 .. Len(s) /\ s[PlaceOf(s, w)] = w
           /\ w \notin S => PlaceOf(s, w) = 0
<1>1. ASSUME w \in S PROVE PlaceOf(s, w) \in 1 .. Len(s) /\ s[PlaceOf(s, w)] = w
  <2>1. PICK i \in 1 .. Len(s) : s[i] = w
    BY <1>1 DEF Lists
  <2> QED BY <2>1, PlaceIs
<1>2. ASSUME w \notin S PROVE PlaceOf(s, w) = 0
  <2>. DEFINE I == {j \in 1 .. Len(s) : s[j] = w}
  <2>1. I = {}
    BY <1>2, ListHas
  <2>2. PlaceOf(s, w) = IF I # {} THEN Min(I) ELSE 0
    BY DEF PlaceOf, SelectInSeq
  <2>. HIDE DEF I
  <2> QED BY <2>1, <2>2
<1> QED BY <1>1, <1>2

LEMMA OtherPlace ==
    ASSUME NEW S, NEW s, Lists(s, S), NEW v \in S, NEW w \in S, v # w
    PROVE  PlaceOf(s, v) # PlaceOf(s, w)
BY HasPlace

LEMMA PrecedesIs ==
    ASSUME NEW S, NEW s, Lists(s, S), NEW v \in S, NEW w \in S
    PROVE  Precedes(s, v, w) <=> PlaceOf(s, v) < PlaceOf(s, w)
<1>1. ASSUME Precedes(s, v, w) PROVE PlaceOf(s, v) < PlaceOf(s, w)
  <2>1. PICK i \in 1 .. Len(s), j \in 1 .. Len(s) : i < j /\ s[i] = v /\ s[j] = w
    BY <1>1 DEF Precedes
  <2> QED BY <2>1, PlaceIs
<1>2. ASSUME PlaceOf(s, v) < PlaceOf(s, w) PROVE Precedes(s, v, w)
  BY <1>2, HasPlace DEF Precedes
<1> QED BY <1>1, <1>2

\* What makes a list.
LEMMA MakesList ==
    ASSUME NEW S, NEW T, T \subseteq S, NEW r \in Seq(S), Len(r) = Cardinality(T),
           \A i \in 1 .. Len(r) : r[i] \in T,
           NEW P, \A w \in T : P[w] \in 1 .. Len(r) /\ r[P[w]] = w,
           \A i \in 1 .. Len(r) : P[r[i]] = i
    PROVE  Lists(r, T) /\ \A w \in T : PlaceOf(r, w) = P[w]
<1>1. r \in Seq(T)
  <2>1. r \in [1 .. Len(r) -> T] /\ Len(r) \in Nat
    OBVIOUS
  <2> QED BY <2>1
<1>2. \A w \in T : \E i \in 1 .. Len(r) : r[i] = w
  OBVIOUS
<1>3. \A i, j \in 1 .. Len(r) : r[i] = r[j] => i = j
  OBVIOUS
<1>4. Lists(r, T)
  BY <1>1, <1>2, <1>3 DEF Lists
<1>5. ASSUME NEW w \in T PROVE PlaceOf(r, w) = P[w]
  BY <1>4, PlaceIs
<1> QED BY <1>4, <1>5

LEMMA OthersAre ==
    ASSUME NEW S, NEW s, Lists(s, S), IsFiniteSet(S), NEW w \in S, NEW r, r = Others(s, w)
    PROVE  /\ Lists(r, S \ {w}) /\ Len(r) = Len(s) - 1
           /\ \A u \in S \ {w} :
                 PlaceOf(r, u) = IF PlaceOf(s, u) < PlaceOf(s, w) THEN PlaceOf(s, u)
                                 ELSE PlaceOf(s, u) - 1
<1>. DEFINE T == S \ {w}
            k == PlaceOf(s, w)
            P == [u \in T |-> IF PlaceOf(s, u) < k THEN PlaceOf(s, u) ELSE PlaceOf(s, u) - 1]
<1>2. k \in 1 .. Len(s) /\ s[k] = w /\ Len(s) \in Nat /\ s \in Seq(S)
  BY HasPlace, ListHas
<1>3. /\ r \in Seq(S) /\ Len(r) = Len(s) - 1
      /\ \A i \in 1 .. Len(r) : r[i] = IF i < k THEN s[i] ELSE s[i + 1]
  BY <1>2, Removed DEF Others
<1>4. Len(r) = Cardinality(T)
  <2>1. Cardinality(T) = Cardinality(S) - 1
    BY FS_RemoveElement
  <2> QED BY <2>1, <1>3 DEF Lists
<1>5. \A u \in T : PlaceOf(s, u) \in 1 .. Len(s) /\ s[PlaceOf(s, u)] = u /\ PlaceOf(s, u) # k
  BY HasPlace, OtherPlace
<1>6. \A i \in 1 .. Len(s) : s[i] \in S /\ PlaceOf(s, s[i]) = i
  BY PlaceIs, ListHas
<1>. HIDE DEF k
<1>7. ASSUME NEW i \in 1 .. Len(r) PROVE r[i] \in T /\ P[r[i]] = i
  <2>1. CASE i < k
    <3>1. r[i] = s[i] /\ i \in 1 .. Len(s) /\ i # k
      BY <2>1, <1>2, <1>3
    <3>2. s[i] \in T /\ PlaceOf(s, s[i]) = i
      BY <3>1, <1>2, <1>6
    <3> QED BY <3>1, <3>2, <2>1
  <2>2. CASE ~ i < k
    <3>1. PICK j \in 1 .. Len(s) : j = i + 1 /\ j > k
      <4>1. i + 1 \in 1 .. Len(s) /\ i + 1 > k
        BY <2>2, <1>2, <1>3
      <4> QED BY <4>1
    <3>2. r[i] = s[j]
      BY <3>1, <2>2, <1>3
    <3>3. s[j] \in T /\ PlaceOf(s, s[j]) = j
      BY <3>1, <1>2, <1>6
    <3>4. P[s[j]] = j - 1
      BY <3>3, <3>1, <1>2
    <3> QED BY <3>1, <3>2, <3>3, <3>4
  <2> QED BY <2>1, <2>2
<1>8. ASSUME NEW u \in T PROVE P[u] \in 1 .. Len(r) /\ r[P[u]] = u
  <2>1. CASE PlaceOf(s, u) < k
    <3>1. P[u] = PlaceOf(s, u)
      BY <2>1
    <3>2. PlaceOf(s, u) \in 1 .. Len(r) /\ r[PlaceOf(s, u)] = u
      BY <2>1, <1>2, <1>3, <1>5
    <3> QED BY <3>1, <3>2
  <2>2. CASE ~ PlaceOf(s, u) < k
    <3>1. PICK j \in 1 .. Len(r) : j + 1 = PlaceOf(s, u) /\ ~ j < k
      <4>1. PlaceOf(s, u) - 1 \in 1 .. Len(r) /\ (PlaceOf(s, u) - 1) + 1 = PlaceOf(s, u)
            /\ ~ PlaceOf(s, u) - 1 < k
        BY <2>2, <1>2, <1>3, <1>5
      <4> QED BY <4>1
    <3>2. r[j] = u
      BY <3>1, <1>3, <1>5
    <3>3. P[u] = j
      BY <3>1, <2>2, <1>5
    <3> QED BY <3>2, <3>3
  <2> QED BY <2>1, <2>2
<1>9. \A u \in T : P[u] = IF PlaceOf(s, u) < k THEN PlaceOf(s, u) ELSE PlaceOf(s, u) - 1
  OBVIOUS
<1>10. T \subseteq S
  OBVIOUS
<1>. HIDE DEF P, T
<1>11. Lists(r, T) /\ \A u \in T : PlaceOf(r, u) = P[u]
  BY <1>3, <1>4, <1>7, <1>8, <1>10, MakesList
<1> QED BY <1>3, <1>9, <1>11 DEF T, k

LEMMA InsertedIs ==
    ASSUME NEW S, NEW s, IsFiniteSet(S), NEW w \in S, Lists(s, S \ {w}),
           NEW k \in 1 .. Len(s) + 1
    PROVE  LET r == InsertAt(s, k, w)
           IN  /\ Lists(r, S) /\ Len(r) = Len(s) + 1 /\ PlaceOf(r, w) = k
               /\ \A u \in S \ {w} : PlaceOf(r, u) = IF PlaceOf(s, u) < k THEN PlaceOf(s, u)
                                                     ELSE PlaceOf(s, u) + 1
<1>. DEFINE T == S \ {w}
            P == [u \in S |-> IF u = w THEN k
                              ELSE IF PlaceOf(s, u) < k THEN PlaceOf(s, u) ELSE PlaceOf(s, u) + 1]
<1>1. PICK r : r = InsertAt(s, k, w)
  OBVIOUS
<1>2. Len(s) \in Nat /\ s \in Seq(S) /\ k \in 1 .. Len(s) + 1
  <2>1. s \in Seq(T) /\ T \subseteq S
    BY ListHas
  <2> QED BY <2>1, ListHas, SeqMonotonic
<1>3. /\ r \in Seq(S) /\ Len(r) = Len(s) + 1
      /\ \A i \in 1 .. Len(r) : r[i] = IF i < k THEN s[i] ELSE IF i = k THEN w ELSE s[i - 1]
  BY <1>1, <1>2, Inserted
<1>4. Len(r) = Cardinality(S)
  <2>1. Cardinality(T) = Cardinality(S) - 1 /\ Cardinality(S) \in Nat
    BY FS_RemoveElement, FS_CardinalityType
  <2> QED BY <2>1, <1>3 DEF Lists
<1>5. \A u \in T : PlaceOf(s, u) \in 1 .. Len(s) /\ s[PlaceOf(s, u)] = u
  BY HasPlace
<1>6. \A i \in 1 .. Len(s) : s[i] \in T /\ PlaceOf(s, s[i]) = i
  BY PlaceIs, ListHas
<1>7. ASSUME NEW i \in 1 .. Len(r) PROVE r[i] \in S /\ P[r[i]] = i
  <2>1. CASE i < k
    <3>1. r[i] = s[i] /\ i \in 1 .. Len(s)
      BY <2>1, <1>2, <1>3
    <3>2. s[i] \in T /\ PlaceOf(s, s[i]) = i
      BY <3>1, <1>6
    <3> QED BY <3>1, <3>2, <2>1
  <2>2. CASE i = k
    <3>1. r[i] = w
      BY <2>2, <1>2, <1>3
    <3> QED BY <3>1, <2>2
  <2>3. CASE i > k
    <3>1. PICK j \in 1 .. Len(s) : j = i - 1 /\ ~ j < k
      <4>1. i - 1 \in 1 .. Len(s) /\ ~ i - 1 < k
        BY <2>3, <1>2, <1>3
      <4> QED BY <4>1
    <3>2. r[i] = s[j]
      BY <3>1, <2>3, <1>2, <1>3
    <3>3. s[j] \in T /\ PlaceOf(s, s[j]) = j
      BY <3>1, <1>6
    <3>4. P[s[j]] = j + 1
      BY <3>3, <3>1
    <3> QED BY <3>1, <3>2, <3>3, <3>4
  <2> QED BY <2>1, <2>2, <2>3, <1>2
<1>8. ASSUME NEW u \in S PROVE P[u] \in 1 .. Len(r) /\ r[P[u]] = u
  <2>1. CASE u = w
    BY <2>1, <1>2, <1>3
  <2>2. CASE u # w /\ PlaceOf(s, u) < k
    <3>1. P[u] = PlaceOf(s, u)
      BY <2>2
    <3>2. PlaceOf(s, u) \in 1 .. Len(r) /\ r[PlaceOf(s, u)] = u
      BY <2>2, <1>2, <1>3, <1>5
    <3> QED BY <3>1, <3>2
  <2>3. CASE u # w /\ ~ PlaceOf(s, u) < k
    <3>1. PICK j \in 1 .. Len(r) : j - 1 = PlaceOf(s, u) /\ j > k
      <4>1. PlaceOf(s, u) + 1 \in 1 .. Len(r) /\ (PlaceOf(s, u) + 1) - 1 = PlaceOf(s, u)
            /\ PlaceOf(s, u) + 1 > k
        BY <2>3, <1>2, <1>3, <1>5
      <4> QED BY <4>1
    <3>2. r[j] = u
      BY <3>1, <1>2, <1>3, <1>5, <2>3
    <3>3. P[u] = j
      BY <3>1, <2>3, <1>5
    <3> QED BY <3>2, <3>3
  <2> QED BY <2>1, <2>2, <2>3
<1>9. /\ P[w] = k
      /\ \A u \in S \ {w} : P[u] = IF PlaceOf(s, u) < k THEN PlaceOf(s, u) ELSE PlaceOf(s, u) + 1
  OBVIOUS
<1>10. S \subseteq S
  OBVIOUS
<1>. HIDE DEF P
<1>11. Lists(r, S) /\ \A u \in S : PlaceOf(r, u) = P[u]
  BY <1>3, <1>4, <1>7, <1>8, <1>10, MakesList
<1> QED BY <1>1, <1>3, <1>9, <1>11

\* A window is put into another place: the others keep their order.
LEMMA PutElsewhere ==
    ASSUME NEW S, NEW s, Lists(s, S), IsFiniteSet(S), NEW w \in S, NEW k \in 1 .. Len(s)
    PROVE  LET r == InsertAt(Others(s, w), k, w)
               q(u) == IF PlaceOf(s, u) < PlaceOf(s, w) THEN PlaceOf(s, u) ELSE PlaceOf(s, u) - 1
           IN  /\ Lists(r, S) /\ Len(r) = Len(s) /\ PlaceOf(r, w) = k
               /\ \A u \in S \ {w} :
                     PlaceOf(r, u) = IF q(u) < k THEN q(u) ELSE q(u) + 1
<1>1. PICK o : o = Others(s, w)
  OBVIOUS
<1>2. /\ Lists(o, S \ {w}) /\ Len(o) = Len(s) - 1
      /\ \A u \in S \ {w} : PlaceOf(o, u) = IF PlaceOf(s, u) < PlaceOf(s, w) THEN PlaceOf(s, u)
                                            ELSE PlaceOf(s, u) - 1
  BY <1>1, OthersAre
<1>3. k \in 1 .. Len(o) + 1 /\ Len(s) \in Nat
  BY <1>2, ListHas
<1>4. PICK r : r = InsertAt(o, k, w)
  OBVIOUS
<1>5. /\ Lists(r, S) /\ Len(r) = Len(o) + 1 /\ PlaceOf(r, w) = k
      /\ \A u \in S \ {w} : PlaceOf(r, u) = IF PlaceOf(o, u) < k THEN PlaceOf(o, u)
                                            ELSE PlaceOf(o, u) + 1
  BY <1>2, <1>3, <1>4, InsertedIs
<1>6. Len(r) = Len(s)
  BY <1>2, <1>3, <1>5
<1> QED BY <1>1, <1>2, <1>4, <1>5, <1>6

\* r is s with w put right behind p, or in front of all if that is no window.
IsBehind(r, s, S, w, p) ==
    LET q(u) == IF PlaceOf(s, u) < PlaceOf(s, w) THEN PlaceOf(s, u) ELSE PlaceOf(s, u) - 1
    IN  /\ Lists(r, S) /\ Len(r) = Len(s)
        /\ PlaceOf(r, w) = IF p = NoWindow THEN 1 ELSE q(p) + 1
        /\ \A u \in S \ {w} : PlaceOf(r, u) = IF q(u) < PlaceOf(r, w) THEN q(u) ELSE q(u) + 1
        /\ \A u, v \in S \ {w} : PlaceOf(r, u) < PlaceOf(r, v) <=> PlaceOf(s, u) < PlaceOf(s, v)
        /\ \A u \in S \ {w} : PlaceOf(r, u) < PlaceOf(r, w)
                                 <=> p # NoWindow /\ (u = p \/ PlaceOf(s, u) < PlaceOf(s, p))

LEMMA BehindIs ==
    ASSUME NEW S, NEW s, Lists(s, S), IsFiniteSet(S), NoWindow \notin S, NEW w \in S,
           NEW p, p # w, p \in S \/ p = NoWindow
    PROVE  IsBehind(Behind(s, w, p), s, S, w, p)
<1>. DEFINE q(u) == IF PlaceOf(s, u) < PlaceOf(s, w) THEN PlaceOf(s, u) ELSE PlaceOf(s, u) - 1
<1>1. PICK o : o = Others(s, w)
  OBVIOUS
<1>2. /\ Lists(o, S \ {w}) /\ Len(o) = Len(s) - 1
      /\ \A u \in S \ {w} : PlaceOf(o, u) = q(u)
  BY <1>1, OthersAre
<1>3. /\ \A u \in S : PlaceOf(s, u) \in 1 .. Len(s) /\ Len(s) \in Nat
      /\ \A u, v \in S : u # v => PlaceOf(s, u) # PlaceOf(s, v)
  BY HasPlace, ListHas, OtherPlace
<1>4. PICK k : k = PlaceOf(o, p) + 1
  OBVIOUS
<1>5. k = IF p = NoWindow THEN 1 ELSE q(p) + 1
  <2>1. p = NoWindow => PlaceOf(o, p) = 0
    BY <1>2, HasPlace
  <2> QED BY <2>1, <1>2, <1>4
<1>6. k \in 1 .. Len(s)
  BY <1>3, <1>5
<1>7. PICK r : r = InsertAt(o, k, w)
  OBVIOUS
<1>8. /\ Lists(r, S) /\ Len(r) = Len(s) /\ PlaceOf(r, w) = k
      /\ \A u \in S \ {w} : PlaceOf(r, u) = IF q(u) < k THEN q(u) ELSE q(u) + 1
  BY <1>1, <1>6, <1>7, PutElsewhere
<1>9. \A u, v \in S \ {w} : PlaceOf(r, u) < PlaceOf(r, v) <=> PlaceOf(s, u) < PlaceOf(s, v)
  BY <1>3, <1>6, <1>8
<1>10. \A u \in S \ {w} : PlaceOf(r, u) < PlaceOf(r, w)
                             <=> p # NoWindow /\ (u = p \/ PlaceOf(s, u) < PlaceOf(s, p))
  BY <1>3, <1>5, <1>6, <1>8
<1>11. IsBehind(r, s, S, w, p)
  BY <1>5, <1>8, <1>9, <1>10 DEF IsBehind
<1>12. r = Behind(s, w, p)
  BY <1>1, <1>4, <1>7 DEF Behind
<1> QED BY <1>11, <1>12

-----------------------------------------------------------------------------
(* Where the windows stand.                                                *)

LEMMA WindowsAre ==
    /\ IsFiniteSet(Windows) /\ Shown \subseteq Windows /\ IsFiniteSet(Shown)
    /\ NoWindow \notin Windows /\ NoWindow \notin Shown
    /\ Cardinality(Topmost) \in Nat /\ Cardinality(Windows) \in Nat
    /\ \A w \in Windows \ Topmost : Cardinality(Topmost) + 1 <= Cardinality(Windows)
<1>1. /\ IsFiniteSet(Windows) /\ Topmost \subseteq Windows /\ NoWindow \notin Windows
      /\ Shown \subseteq Windows
  BY ZOrderAssumption DEF Shown
<1>2. IsFiniteSet(Topmost) /\ IsFiniteSet(Shown)
  BY <1>1, FS_Subset
<1>3. ASSUME NEW w \in Windows \ Topmost PROVE Cardinality(Topmost) + 1 <= Cardinality(Windows)
  <2>1. Topmost \cup {w} \subseteq Windows
    BY <1>1
  <2>2. Cardinality(Topmost \cup {w}) <= Cardinality(Windows)
    BY <1>1, <2>1, FS_Subset
  <2>3. Cardinality(Topmost \cup {w}) = Cardinality(Topmost) + 1
    BY <1>2, FS_AddElement
  <2> QED BY <2>2, <2>3
<1> QED BY <1>1, <1>2, <1>3, FS_CardinalityType

LEMMA LayersAre ==
    ASSUME NEW o, Lists(o, Windows)
    PROVE  InLayers(o) <=> \A u \in Windows : u \in Topmost <=> PlaceOf(o, u) <= Cardinality(Topmost)
<1>1. /\ \A u \in Windows : PlaceOf(o, u) \in 1 .. Len(o) /\ o[PlaceOf(o, u)] = u
      /\ \A i \in 1 .. Len(o) : o[i] \in Windows /\ PlaceOf(o, o[i]) = i
  BY HasPlace, PlaceIs, ListHas
<1> QED BY <1>1 DEF InLayers

\* Where SetWindowPos puts a window: the others keep their order, and all their
\* layers.
SameLayerAs(w) == {v \in Windows \ {w} : v \in Topmost <=> w \in Topmost}
LEMMA PlacedIs ==
    ASSUME Lists(order, Windows), InLayers(order), NEW w \in Windows,
           NEW p \in SameLayerAs(w) \cup {NoWindow}, NEW o, o = Placed(w, p)
    PROVE  /\ Lists(o, Windows) /\ InLayers(o)
           /\ \A u, v \in Windows \ {w} :
                 PlaceOf(o, u) < PlaceOf(o, v) <=> PlaceOf(order, u) < PlaceOf(order, v)
           /\ \A u \in Windows \ {w} :
                 PlaceOf(o, u) < PlaceOf(o, w)
                    <=> \/ p # NoWindow /\ (u = p \/ PlaceOf(order, u) < PlaceOf(order, p))
                        \/ p = NoWindow /\ w \notin Topmost /\ u \in Topmost
<1>. DEFINE K == Cardinality(Topmost)
            q(u) == IF PlaceOf(order, u) < PlaceOf(order, w) THEN PlaceOf(order, u)
                    ELSE PlaceOf(order, u) - 1
<1>0. /\ IsFiniteSet(Windows) /\ NoWindow \notin Windows /\ K \in Nat
      /\ p # w /\ (p \in Windows \/ p = NoWindow) /\ Len(order) \in Nat
      /\ p \in Windows => (p \in Topmost <=> w \in Topmost)
  BY WindowsAre, ListHas DEF SameLayerAs
<1>1. /\ \A u \in Windows : PlaceOf(order, u) \in 1 .. Len(order)
      /\ \A u, v \in Windows : u # v => PlaceOf(order, u) # PlaceOf(order, v)
  BY HasPlace, OtherPlace
<1>2. \A u \in Windows : u \in Topmost <=> PlaceOf(order, u) <= K
  BY LayersAre
<1>3. CASE p # NoWindow \/ w \in Topmost
  <2>1. o = Behind(order, w, p)
    BY <1>3 DEF Placed
  <2>2. /\ Lists(o, Windows) /\ Len(o) = Len(order)
        /\ PlaceOf(o, w) = IF p = NoWindow THEN 1 ELSE q(p) + 1
        /\ \A u \in Windows \ {w} :
              PlaceOf(o, u) = IF q(u) < PlaceOf(o, w) THEN q(u) ELSE q(u) + 1
        /\ \A u, v \in Windows \ {w} : PlaceOf(o, u) < PlaceOf(o, v)
                                          <=> PlaceOf(order, u) < PlaceOf(order, v)
        /\ \A u \in Windows \ {w} :
              PlaceOf(o, u) < PlaceOf(o, w)
                 <=> p # NoWindow /\ (u = p \/ PlaceOf(order, u) < PlaceOf(order, p))
    <3>1. IsBehind(o, order, Windows, w, p)
      BY <2>1, <1>0, BehindIs
    <3> QED BY <3>1 DEF IsBehind
  <2>4. \A u \in Windows : u \in Topmost <=> PlaceOf(o, u) <= K
    BY <2>2, <1>0, <1>1, <1>2, <1>3
  <2> QED BY <2>2, <2>4, <1>3, LayersAre
<1>4. CASE p = NoWindow /\ w \notin Topmost
  <2>1. o = InsertAt(Others(order, w), K + 1, w)
    BY <1>4 DEF Placed
  <2>2. K + 1 \in 1 .. Len(order)
    <3>1. Len(order) = Cardinality(Windows)
      BY DEF Lists
    <3> QED BY <3>1, <1>0, <1>4, WindowsAre
  <2>3. /\ Lists(o, Windows) /\ PlaceOf(o, w) = K + 1
        /\ \A u \in Windows \ {w} :
              PlaceOf(o, u) = IF q(u) < K + 1 THEN q(u) ELSE q(u) + 1
    <3>1. PICK k \in 1 .. Len(order) : k = K + 1
      BY <2>2
    <3> QED BY <3>1, <2>1, <1>0, PutElsewhere
  <2>4. \A u, v \in Windows \ {w} :
           PlaceOf(o, u) < PlaceOf(o, v) <=> PlaceOf(order, u) < PlaceOf(order, v)
    BY <2>3, <1>0, <1>1
  <2>5. \A u \in Windows : u \in Topmost <=> PlaceOf(o, u) <= K
    BY <2>3, <1>0, <1>1, <1>2, <1>4
  <2>6. \A u \in Windows \ {w} : PlaceOf(o, u) < PlaceOf(o, w) <=> u \in Topmost
    BY <2>3, <2>5, <1>0, HasPlace
  <2> QED BY <2>3, <2>4, <2>5, <2>6, <1>4, LayersAre
<1> QED BY <1>3, <1>4

-----------------------------------------------------------------------------
(* The visible window in front of another.                                 *)

\* Numbers have a least one, and if they are bounded a greatest.
LEMMA LeastNumber ==
    ASSUME NEW S \in SUBSET Nat, S # {}
    PROVE  \E x \in S : \A y \in S : x <= y
<1>1. PICK x \in S : \A y \in S : ~ (<<y, x>> \in OpToRel(<, Nat))
  BY NatLessThanWellFounded, WFMin
<1>2. \A y \in S : ~ (y < x)
  BY <1>1 DEF OpToRel
<1> QED BY <1>2

LEMMA GreatestNumber ==
    ASSUME NEW n \in Nat, NEW S \in SUBSET (1 .. n), S # {}
    PROVE  Max(S) \in S /\ \A y \in S : y <= Max(S)
<1>. DEFINE T == {n - x : x \in S}
<1>0. T \subseteq Nat /\ T # {}
  <2>1. \A x \in S : n - x \in Nat
    OBVIOUS
  <2> QED BY <2>1
<1>1. PICK t \in T : \A u \in T : t <= u
  <2>. HIDE DEF T
  <2> QED BY <1>0, LeastNumber
<1>2. PICK x \in S : t = n - x
  OBVIOUS
<1>3. ASSUME NEW y \in S PROVE x >= y
  <2>1. n - y \in T
    OBVIOUS
  <2>2. n - x <= n - y
    BY <1>1, <1>2, <2>1
  <2>3. x \in Int /\ y \in Int
    OBVIOUS
  <2> QED BY <2>2, <2>3
<1>4. Max(S) \in S /\ \A y \in S : Max(S) >= y
  BY <1>3 DEF Max
<1> QED BY <1>4

LEMMA FrontIs ==
    ASSUME NEW o, Lists(o, Windows), NEW w \in Windows
    PROVE  \/ /\ FrontIn(o, w) = NoWindow
              /\ \A u \in Shown : ~ PlaceOf(o, u) < PlaceOf(o, w)
           \/ /\ FrontIn(o, w) \in Shown /\ FrontIn(o, w) # w
              /\ PlaceOf(o, FrontIn(o, w)) < PlaceOf(o, w)
              /\ \A u \in Shown : PlaceOf(o, u) < PlaceOf(o, w)
                                     => PlaceOf(o, u) <= PlaceOf(o, FrontIn(o, w))
<1>. DEFINE I == {i \in 1 .. PlaceOf(o, w) - 1 : o[i] \in Shown}
            n == SelectLastInSubSeq(o, 1, PlaceOf(o, w) - 1, LAMBDA v : v \in Shown)
<1>1. n = IF I # {} THEN Max(I) ELSE 0
  BY DEF SelectLastInSubSeq
<1>2. FrontIn(o, w) = IF n = 0 THEN NoWindow ELSE o[n]
  BY DEF FrontIn
<1>3. /\ \A u \in Windows : PlaceOf(o, u) \in 1 .. Len(o) /\ o[PlaceOf(o, u)] = u
      /\ \A i \in 1 .. Len(o) : o[i] \in Windows /\ PlaceOf(o, o[i]) = i
      /\ Len(o) \in Nat
  BY HasPlace, PlaceIs, ListHas
<1>4. \A u \in Shown : PlaceOf(o, u) < PlaceOf(o, w) => PlaceOf(o, u) \in I
  <2>1. Shown \subseteq Windows
    BY WindowsAre
  <2> QED BY <2>1, <1>3
<1>5. I \in SUBSET (1 .. Len(o))
  BY <1>3
<1>6. \A i \in I : i \in 1 .. Len(o) /\ i < PlaceOf(o, w) /\ o[i] \in Shown /\ i # 0
  BY <1>3
<1>. HIDE DEF I, n
<1>7. CASE I = {}
  BY <1>7, <1>1, <1>2, <1>4
<1>8. CASE I # {}
  <2>1. n = Max(I) /\ n \in I /\ \A i \in I : i <= n
    BY <1>8, <1>1, <1>3, <1>5, GreatestNumber
  <2>2. FrontIn(o, w) = o[n]
    BY <2>1, <1>2, <1>6
  <2>3. PlaceOf(o, o[n]) = n /\ n < PlaceOf(o, w) /\ o[n] \in Shown
    BY <2>1, <1>3, <1>6
  <2>4. o[n] # w
    BY <2>3, <1>3
  <2> QED BY <2>1, <2>2, <2>3, <2>4, <1>4
<1> QED BY <1>7, <1>8

\* There is just one such.
LEMMA FrontIsThis ==
    ASSUME NEW o, Lists(o, Windows), NEW w \in Windows
    PROVE  /\ (\A u \in Shown : ~ PlaceOf(o, u) < PlaceOf(o, w)) => FrontIn(o, w) = NoWindow
           /\ \A p \in Shown :
                 /\ PlaceOf(o, p) < PlaceOf(o, w)
                 /\ \A u \in Shown : PlaceOf(o, u) < PlaceOf(o, w)
                                        => u = p \/ PlaceOf(o, u) < PlaceOf(o, p)
                 => FrontIn(o, w) = p
<1>1. /\ Shown \subseteq Windows
      /\ \A u \in Windows : PlaceOf(o, u) \in 1 .. Len(o) /\ Len(o) \in Nat
  BY WindowsAre, HasPlace, ListHas
<1> QED BY <1>1, FrontIs

LEMMA InFrontIsFront == ASSUME NEW w PROVE InFront(w) = FrontIn(order, w)
BY DEF InFront, FrontIn

LEMMA InFrontIs ==
    ASSUME Lists(order, Windows), NEW w \in Windows
    PROVE  \/ /\ InFront(w) = NoWindow
              /\ \A u \in Shown : ~ PlaceOf(order, u) < PlaceOf(order, w)
           \/ /\ InFront(w) \in Shown /\ InFront(w) # w
              /\ PlaceOf(order, InFront(w)) < PlaceOf(order, w)
              /\ \A u \in Shown : PlaceOf(order, u) < PlaceOf(order, w)
                                     => PlaceOf(order, u) <= PlaceOf(order, InFront(w))
BY InFrontIsFront, FrontIs

-----------------------------------------------------------------------------
(* Types, and whose block it is.                                           *)

LEMMA RequestIs ==
    ASSUME TypeOK, serial > 0
    PROVE  /\ request \in Requests /\ serial \in 1 .. Len(requests)
           /\ request.win \in Shown /\ request.win \in Windows
           /\ request.behind \in Shown \cup {NoWindow} /\ request.behind # request.win
           /\ (IF SameLayer(request) THEN request.behind ELSE NoWindow)
                 \in SameLayerAs(request.win) \cup {NoWindow}
<1>1. serial \in 1 .. Len(requests) /\ request \in Requests
  BY DEF TypeOK, serial, request
<1>2. Shown \subseteq Windows
  BY WindowsAre
<1> QED BY <1>1, <1>2 DEF Requests, SameLayer, SameLayerAs

\* The two ways to put a window elsewhere have this in common.
Moves(w, p) ==
    /\ w \in Windows /\ p \in SameLayerAs(w) \cup {NoWindow}
    /\ pc[w] = "idle" /\ Move(w, Placed(w, p))

LEMMA MovesAre ==
    ASSUME IInv
    PROVE  /\ \A w \in Windows : AppMove(w) => \E p : Moves(w, p)
           /\ SetPos => Moves(request.win, IF SameLayer(request) THEN request.behind ELSE NoWindow)
<1>1. ASSUME NEW w \in Windows, AppMove(w) PROVE \E p : Moves(w, p)
  BY <1>1 DEF AppMove, Moves, SameLayerAs
<1>2. ASSUME SetPos
      PROVE  Moves(request.win, IF SameLayer(request) THEN request.behind ELSE NoWindow)
  <2>1. shell = "set"
    BY <1>2 DEF SetPos
  <2>2. serial > 0
    BY <2>1 DEF IInv, BlocksOK
  <2> QED BY <1>2, <2>2, RequestIs DEF SetPos, Moves, IInv
<1> QED BY <1>1, <1>2

LEMMA MoveIs ==
    ASSUME IInv, NEW w, NEW p, Moves(w, p)
    PROVE  /\ Lists(order', Windows) /\ InLayers(order')
           /\ \A u, v \in Windows \ {w} :
                 PlaceOf(order', u) < PlaceOf(order', v) <=> PlaceOf(order, u) < PlaceOf(order, v)
           /\ \A u \in Windows \ {w} :
                 PlaceOf(order', u) < PlaceOf(order', w)
                    <=> \/ p # NoWindow /\ (u = p \/ PlaceOf(order, u) < PlaceOf(order, p))
                        \/ p = NoWindow /\ w \notin Topmost /\ u \in Topmost
           /\ pc' \in [Windows -> {"idle", "read", "report"}]
           /\ \A u \in Windows : u # w => pc'[u] = pc[u]
           /\ pc'[w] = IF order' # order /\ w \in Shown THEN "read" ELSE "idle"
<1>1. order' = Placed(w, p) /\ w \in Windows /\ p \in SameLayerAs(w) \cup {NoWindow}
  BY DEF Moves, Move
<1>2. PICK o : o = order'
  OBVIOUS
<1>3. Lists(order, Windows) /\ InLayers(order)
  BY DEF IInv, TypeOK
<1>4. o = Placed(w, p)
  BY <1>1, <1>2
<1>5. /\ pc' \in [Windows -> {"idle", "read", "report"}]
      /\ \A u \in Windows : u # w => pc'[u] = pc[u]
      /\ pc'[w] = IF order' # order /\ w \in Shown THEN "read" ELSE "idle"
  BY <1>1 DEF IInv, TypeOK, Moves, Move
<1> QED BY <1>1, <1>2, <1>3, <1>4, <1>5, PlacedIs

\* Where a report puts the window in what the client knows: behind the one that is
\* in front of it, whether it is an ACK or not.
LEMMA ReportIs ==
    ASSUME IInv, NEW w \in Windows, Report(w)
    PROVE  /\ w \in Shown
           /\ mirror' = Behind(mirror, w, InFront(w))
           /\ IsBehind(mirror', mirror, Shown, w, InFront(w))
           /\ IF IsBlocked(w, InFront(w))
              THEN acks' = Append(acks, block[w].serial) /\ block[w].serial \in 1 .. serial
              ELSE acks' = acks
<1>1. /\ Lists(order, Windows) /\ Lists(mirror, Shown) /\ OfRequest(block[w])
      /\ w \in Shown /\ pc[w] = "report"
  BY DEF IInv, TypeOK, BlocksOK, Report
<1>2. NoWindow \notin Windows /\ NoWindow \notin Shown /\ IsFiniteSet(Shown)
  BY WindowsAre
<1>3. InFront(w) # w /\ (InFront(w) \in Shown \/ InFront(w) = NoWindow)
  BY <1>1, <1>2, InFrontIs
<1>4. IsBlocked(w, InFront(w))
         => /\ block[w].win = w /\ block[w].behind = InFront(w)
            /\ requests[block[w].serial].behind = InFront(w)
            /\ block[w].serial \in 1 .. serial
  BY <1>1, <1>2 DEF IsBlocked, OfRequest
<1>5. mirror' = Behind(mirror, w, InFront(w))
  BY <1>4 DEF Report
<1>6. IsBehind(mirror', mirror, Shown, w, InFront(w))
  BY <1>1, <1>2, <1>3, <1>5, BehindIs
<1> QED BY <1>1, <1>4, <1>5, <1>6 DEF Report

LEMMA Initially == Init => IInv
<1>. SUFFICES ASSUME Init PROVE IInv
  OBVIOUS
<1>0. Lists(order, Windows) /\ InLayers(order)
  BY ZOrderAssumption DEF Init
<1>1. Lists(mirror, Shown)
  <2>1. /\ mirror \in [1 .. Cardinality(Shown) -> Shown]
        /\ \A v, w \in Shown : Precedes(mirror, v, w) <=> Precedes(order, v, w)
    BY DEF Init
  <2>2. Shown \subseteq Windows /\ IsFiniteSet(Shown) /\ Cardinality(Shown) \in Nat
    BY WindowsAre, FS_CardinalityType
  <2>3. mirror \in Seq(Shown) /\ Len(mirror) = Cardinality(Shown)
    BY <2>1, <2>2
  <2>4. \A v, w \in Shown : Precedes(order, v, w) <=> PlaceOf(order, v) < PlaceOf(order, w)
    BY <1>0, <2>2, PrecedesIs
  <2>5. \A v, w \in Shown : /\ PlaceOf(order, v) \in Int /\ PlaceOf(order, w) \in Int
                            /\ v # w => PlaceOf(order, v) # PlaceOf(order, w)
    BY <1>0, <2>2, HasPlace, OtherPlace
  <2>6. ASSUME NEW i \in 1 .. Len(mirror), NEW j \in 1 .. Len(mirror), mirror[i] = mirror[j]
        PROVE  i = j
    <3>1. mirror[i] \in Shown
      BY <2>3
    <3>2. i < j => Precedes(mirror, mirror[i], mirror[i])
      BY <2>6 DEF Precedes
    <3>3. j < i => Precedes(mirror, mirror[i], mirror[i])
      BY <2>6 DEF Precedes
    <3>4. ~ Precedes(mirror, mirror[i], mirror[i])
      BY <3>1, <2>1, <2>4, <2>5
    <3> QED BY <3>2, <3>3, <3>4, <2>3
  <2>7. ASSUME NEW v \in Shown PROVE \E i \in 1 .. Len(mirror) : mirror[i] = v
    <3>1. CASE \E w \in Shown : w # v
      <4>1. PICK w \in Shown : w # v
        BY <3>1
      <4>2. Precedes(mirror, v, w) \/ Precedes(mirror, w, v)
        BY <4>1, <2>1, <2>4, <2>5
      <4> QED BY <4>2 DEF Precedes
    <3>2. CASE \A w \in Shown : w = v
      <4>1. Cardinality(Shown) # 0
        BY <2>2, FS_EmptySet
      <4>2. 1 \in 1 .. Len(mirror)
        BY <4>1, <2>2, <2>3
      <4> QED BY <4>2, <3>2, <2>3
    <3> QED BY <3>1, <3>2
  <2> QED BY <2>3, <2>6, <2>7 DEF Lists
<1>2. NoBlock \in Blocks /\ NoBlock.win = NoWindow
  BY DEF NoBlock, Blocks
<1>3. requests = <<>> /\ acks = <<>> /\ serial = 0
  BY DEF Init, serial
<1>4. /\ zchange = NoBlock /\ pc = [w \in Windows |-> "idle"]
      /\ block = [w \in Windows |-> NoBlock] /\ shell = "idle" /\ acts = 0
      /\ crossed = FALSE /\ fate = "quiet"
  BY Zenon DEF Init
<1>5. TypeOK
  <2>1. requests \in Seq(Requests) /\ acks \in Seq(Nat)
    BY <1>3
  <2> QED BY <1>0, <1>1, <1>2, <1>4, <2>1 DEF TypeOK
<1>6. BlocksOK
  BY <1>2, <1>4 DEF BlocksOK, OfRequest
<1> QED BY <1>5, <1>6 DEF IInv

\* A new request leaves those before it as they are.
LEMMA ReceiveIs ==
    ASSUME TypeOK, NEW r \in Requests, Receive(r)
    PROVE  /\ requests' \in Seq(Requests) /\ serial' = serial + 1 /\ serial \in Nat
           /\ request' = r /\ \A i \in 1 .. serial : requests'[i] = requests[i]
<1>1. requests \in Seq(Requests) /\ requests' = Append(requests, r)
  BY DEF TypeOK, Receive
<1> QED BY <1>1, AppendProperties DEF serial, request

LEMMA Invariance == IInv /\ [Next]_vars => IInv'
<1>. SUFFICES ASSUME IInv, [Next]_vars PROVE IInv'
  OBVIOUS
<1>0. TypeOK /\ BlocksOK
  BY DEF IInv
<1>1. ASSUME NEW w, NEW p, Moves(w, p), UNCHANGED <<zchange, block, requests, clientVars>>,
             shell' \in {"idle", "block", "set", "wait"}, fate' \in {"quiet", "moved", "disturbed"},
             shell \in {"set", "wait"} <=> shell' \in {"set", "wait"},
             shell' # "idle" => shell # "idle", acts' \in Nat
      PROVE  IInv'
  <2>1. /\ Lists(order', Windows) /\ InLayers(order')
        /\ pc' \in [Windows -> {"idle", "read", "report"}]
        /\ \A u \in Windows : pc'[u] # "idle" => pc[u] # "idle" \/ u \in Shown
    BY <1>1, MoveIs
  <2>2. TypeOK'
    BY <1>0, <1>1, <2>1 DEF TypeOK, clientVars
  <2>3. BlocksOK'
    BY <1>0, <1>1, <2>1 DEF BlocksOK, OfRequest, serial, request
  <2> QED BY <2>2, <2>3 DEF IInv
<1>2. ASSUME NEW w \in Windows, AppMove(w) PROVE IInv'
  <2>1. PICK p : Moves(w, p)
    BY <1>2, MovesAre
  <2>2. /\ UNCHANGED <<zchange, block, requests, clientVars>> /\ shell' = shell
        /\ fate' = "disturbed" /\ acts' \in Nat
    BY <1>0, <1>2 DEF AppMove, TypeOK
  <2> QED BY <2>1, <2>2, <1>0, <1>1 DEF TypeOK
<1>3. ASSUME SetPos PROVE IInv'
  <2>1. PICK p : Moves(request.win, p)
    BY <1>3, MovesAre
  <2>2. /\ UNCHANGED <<zchange, block, requests, clientVars>>
        /\ shell = "set" /\ shell' = "wait" /\ fate' \in {"moved", fate} /\ acts' = acts
    BY <1>3 DEF SetPos
  <2> QED BY <2>1, <2>2, <1>0, <1>1 DEF TypeOK
<1>4. ASSUME NEW w \in Windows, ReadBlock(w) PROVE IInv'
  <2>1. OfRequest(zchange)
    <3>1. CASE shell \in {"set", "wait"}
      <4>1. serial > 0
        BY <3>1, <1>0 DEF BlocksOK
      <4>2. serial \in 1 .. serial
        BY <4>1, <1>0, RequestIs DEF serial
      <4> QED BY <3>1, <4>2, <1>0 DEF BlocksOK, OfRequest, request
    <3>2. CASE shell \notin {"set", "wait"}
      BY <3>2, <1>0 DEF BlocksOK, OfRequest
    <3> QED BY <3>1, <3>2
  <2>2. /\ pc[w] = "read" /\ pc' = [pc EXCEPT ![w] = "report"]
        /\ block' = [block EXCEPT ![w] = zchange]
        /\ UNCHANGED <<order, zchange, shell, requests, acts, clientVars, fate>>
    BY <1>4 DEF ReadBlock
  <2>3. TypeOK'
    BY <1>0, <2>2 DEF TypeOK, clientVars
  <2>4. BlocksOK'
    <3>1. \A v \in Windows : block'[v] = block[v] \/ block'[v] = zchange
      BY <1>0, <2>2 DEF TypeOK
    <3>2. \A v \in Windows : pc'[v] # "idle" => pc[v] # "idle"
      BY <1>0, <2>2 DEF TypeOK
    <3> QED BY <1>0, <2>1, <2>2, <3>1, <3>2 DEF BlocksOK, OfRequest, serial, request
  <2> QED BY <2>3, <2>4 DEF IInv
<1>5. ASSUME NEW w \in Windows, Report(w) PROVE IInv'
  <2>1. Lists(mirror', Shown) /\ acks' \in Seq(Nat)
    <3>1. IsBehind(mirror', mirror, Shown, w, InFront(w))
          /\ (acks' = acks \/ acks' = Append(acks, block[w].serial))
      BY <1>5, ReportIs
    <3>2. block[w].serial \in Nat /\ acks \in Seq(Nat)
      BY <1>0 DEF TypeOK, Blocks
    <3> QED BY <3>1, <3>2 DEF IsBehind
  <2>2. crossed' \in BOOLEAN
    BY <1>0, <1>5 DEF Report, TypeOK
  <2>3. /\ pc' = [pc EXCEPT ![w] = "idle"] /\ block' = [block EXCEPT ![w] = NoBlock]
        /\ UNCHANGED <<order, zchange, shell, requests, acts, fate>>
    BY <1>5 DEF Report
  <2>4. NoBlock \in Blocks /\ NoBlock.win = NoWindow
    BY DEF NoBlock, Blocks
  <2>5. TypeOK'
    BY <1>0, <2>1, <2>2, <2>3, <2>4 DEF TypeOK
  <2>6. BlocksOK'
    <3>1. \A v \in Windows : block'[v] = block[v] \/ block'[v] = NoBlock
      BY <1>0, <2>3 DEF TypeOK
    <3>2. \A v \in Windows : pc'[v] # "idle" => pc[v] # "idle"
      BY <1>0, <2>3 DEF TypeOK
    <3> QED BY <1>0, <2>3, <2>4, <3>1, <3>2 DEF BlocksOK, OfRequest, serial, request
  <2> QED BY <2>5, <2>6 DEF IInv
<1>6. ASSUME NEW r \in Requests, Receive(r) PROVE IInv'
  <2>1. /\ requests' \in Seq(Requests) /\ serial' = serial + 1 /\ serial \in Nat
        /\ \A i \in 1 .. serial : requests'[i] = requests[i]
    BY <1>0, <1>6, ReceiveIs
  <2>2. /\ shell = "idle" /\ shell' = "block" /\ fate' \in {"quiet", "disturbed"}
        /\ UNCHANGED <<order, zchange, threadVars, acts, clientVars>>
    BY <1>6 DEF Receive
  <2>3. TypeOK'
    BY <1>0, <2>1, <2>2 DEF TypeOK, threadVars, clientVars
  <2>4. ASSUME NEW w \in Windows PROVE OfRequest(block[w])'
    <3>1. OfRequest(block[w]) /\ block' = block
      BY <1>0, <2>2 DEF BlocksOK, threadVars
    <3> QED BY <3>1, <2>1 DEF OfRequest
  <2>5. BlocksOK'
    BY <1>0, <2>1, <2>2, <2>4 DEF BlocksOK, threadVars
  <2> QED BY <2>3, <2>5 DEF IInv
<1>7. ASSUME Block PROVE IInv'
  <2>1. /\ shell = "block" /\ shell' = "set"
        /\ zchange' = [win |-> request.win, behind |-> request.behind, serial |-> serial]
        /\ UNCHANGED <<order, threadVars, requests, acts, clientVars, fate>>
    BY <1>7 DEF Block
  <2>2. serial > 0
    BY <2>1, <1>0 DEF BlocksOK
  <2>3. zchange' \in Blocks
    BY <2>1, <2>2, <1>0, RequestIs, WindowsAre DEF Blocks
  <2>4. TypeOK'
    BY <1>0, <2>1, <2>3 DEF TypeOK, threadVars, clientVars
  <2>5. BlocksOK'
    BY <1>0, <2>1, <2>2 DEF BlocksOK, OfRequest, serial, request, threadVars
  <2> QED BY <2>4, <2>5 DEF IInv
<1>8. ASSUME Unblock PROVE IInv'
  <2>1. /\ shell = "wait" /\ shell' = "idle"
        /\ zchange' = [zchange EXCEPT !.win = NoWindow, !.behind = NoWindow]
        /\ UNCHANGED <<order, threadVars, requests, acts, clientVars, fate>>
    BY <1>8 DEF Unblock
  <2>2. zchange' \in Blocks /\ zchange'.win = NoWindow
    BY <2>1, <1>0 DEF TypeOK, Blocks
  <2>3. TypeOK'
    BY <1>0, <2>1, <2>2 DEF TypeOK, threadVars, clientVars
  <2>4. BlocksOK'
    BY <1>0, <2>1, <2>2 DEF BlocksOK, OfRequest, serial, request, threadVars
  <2> QED BY <2>3, <2>4 DEF IInv
<1>9. CASE UNCHANGED vars
  <2>1. TypeOK'
    BY <1>0, <1>9 DEF TypeOK, vars, threadVars, clientVars
  <2>2. BlocksOK'
    BY <1>0, <1>9 DEF BlocksOK, OfRequest, serial, request, vars, threadVars, clientVars
  <2> QED BY <2>1, <2>2 DEF IInv
<1> QED BY <1>2, <1>3, <1>4, <1>5, <1>6, <1>7, <1>8, <1>9 DEF Next, SafeZChange

\* The types of everything; the block is that of the request the shell is at, and
\* what a thread has copied of it is of some request for that window (lines
\* 196-200, 674-678, 709-712).
THEOREM TypeCorrect == Spec => []IInv
<1>1. Init => IInv
  BY Initially
<1>2. IInv /\ [Next]_vars => IInv'
  BY Invariance
<1> QED BY <1>1, <1>2, PTL DEF Spec

-----------------------------------------------------------------------------
(* The client's order.                                                     *)

\* OrderMirrored, in terms of places.
SameOrder ==
    ~ crossed =>
        \A u, v \in Shown :
            pc[u] = "idle" /\ pc[v] = "idle"
               => (PlaceOf(mirror, u) < PlaceOf(mirror, v) <=> PlaceOf(order, u) < PlaceOf(order, v))

LEMMA SameOrderIs == ASSUME IInv PROVE OrderMirrored <=> SameOrder
<1>1. Lists(order, Windows) /\ Lists(mirror, Shown) /\ Shown \subseteq Windows
  BY WindowsAre DEF IInv, TypeOK
<1>2. \A u, v \in Shown :
         /\ Precedes(order, u, v) <=> PlaceOf(order, u) < PlaceOf(order, v)
         /\ Precedes(mirror, u, v) <=> PlaceOf(mirror, u) < PlaceOf(mirror, v)
  BY <1>1, PrecedesIs
<1> QED BY <1>1, <1>2 DEF OrderMirrored, SameOrder, Told

LEMMA SameOrderInitially == Init => SameOrder
<1>. SUFFICES ASSUME Init PROVE SameOrder
  OBVIOUS
<1>1. \A v, w \in Shown : Precedes(mirror, v, w) <=> Precedes(order, v, w)
  BY DEF Init
<1>2. OrderMirrored
  BY <1>1 DEF OrderMirrored, Told
<1> QED BY <1>2, Initially, SameOrderIs

LEMMA SameOrderInvariance == IInv /\ SameOrder /\ [Next]_vars => SameOrder'
<1>. SUFFICES ASSUME IInv, SameOrder, [Next]_vars PROVE SameOrder'
  OBVIOUS
<1>0. /\ Shown \subseteq Windows /\ NoWindow \notin Shown
      /\ pc \in [Windows -> {"idle", "read", "report"}] /\ Lists(order, Windows)
  BY WindowsAre DEF IInv, TypeOK
\* A window that moves has something to report; the others stand as before.
<1>1. ASSUME NEW w, NEW p, Moves(w, p), UNCHANGED <<mirror, crossed>> PROVE SameOrder'
  <2>1. CASE order' = order
    <3>1. \A u \in Windows : pc'[u] = pc[u]
      BY <1>0, <1>1, <2>1, MoveIs DEF Moves
    <3> QED BY <3>1, <1>0, <1>1, <2>1 DEF SameOrder
  <2>2. CASE order' # order
    <3>1. /\ \A u, v \in Windows \ {w} :
                PlaceOf(order', u) < PlaceOf(order', v) <=> PlaceOf(order, u) < PlaceOf(order, v)
          /\ \A u \in Windows : u # w => pc'[u] = pc[u]
          /\ w \in Shown => pc'[w] = "read"
      BY <1>1, <2>2, MoveIs
    <3>2. \A u \in Shown : pc'[u] = "idle" => u \in Windows \ {w} /\ pc[u] = "idle"
      BY <3>1, <1>0
    <3> QED BY <3>1, <3>2, <1>1 DEF SameOrder
  <2> QED BY <2>1, <2>2
\* A window that has reported stands right behind one whose place was right.
<1>2. ASSUME NEW w \in Windows, Report(w) PROVE SameOrder'
  <2>1. PICK p : p = InFront(w)
    OBVIOUS
  <2>2. /\ \A u, v \in Shown \ {w} : PlaceOf(mirror', u) < PlaceOf(mirror', v)
                                        <=> PlaceOf(mirror, u) < PlaceOf(mirror, v)
        /\ \A u \in Shown \ {w} :
              PlaceOf(mirror', u) < PlaceOf(mirror', w)
                 <=> p # NoWindow /\ (u = p \/ PlaceOf(mirror, u) < PlaceOf(mirror, p))
        /\ Lists(mirror', Shown) /\ w \in Shown
    BY <1>2, <2>1, ReportIs DEF IsBehind
  <2>3. \A u, v \in Shown : u # v =>
           (PlaceOf(mirror', u) < PlaceOf(mirror', v) <=> ~ PlaceOf(mirror', v) < PlaceOf(mirror', u))
    <3>1. PICK m : m = mirror'
      OBVIOUS
    <3>2. Lists(m, Shown)
      BY <2>2, <3>1
    <3>3. \A u \in Shown : PlaceOf(m, u) \in 1 .. Len(m) /\ Len(m) \in Nat
      BY <3>2, HasPlace, ListHas
    <3>4. \A u, v \in Shown : u # v => PlaceOf(m, u) # PlaceOf(m, v)
      BY <3>2, OtherPlace
    <3>5. \A u, v \in Shown : u # v => (PlaceOf(m, u) < PlaceOf(m, v) <=> ~ PlaceOf(m, v) < PlaceOf(m, u))
      BY <3>3, <3>4
    <3> QED BY <3>1, <3>5
  <2>4. /\ \A u \in Windows : PlaceOf(order, u) \in 1 .. Len(order) /\ Len(order) \in Nat
        /\ \A u, v \in Windows : u # v => PlaceOf(order, u) # PlaceOf(order, v)
    BY <1>0, HasPlace, ListHas, OtherPlace
  <2>5. \/ p = NoWindow /\ \A u \in Shown : ~ PlaceOf(order, u) < PlaceOf(order, w)
        \/ /\ p \in Shown \ {w} /\ PlaceOf(order, p) < PlaceOf(order, w)
           /\ \A u \in Shown : PlaceOf(order, u) < PlaceOf(order, w)
                                  => PlaceOf(order, u) <= PlaceOf(order, p)
    BY <1>0, <2>1, InFrontIs
  <2>6. /\ order' = order /\ pc'[w] = "idle" /\ \A u \in Windows : u # w => pc'[u] = pc[u]
        /\ ~ crossed' => ~ crossed /\ (p # NoWindow => pc[p] = "idle")
    BY <1>0, <1>2, <2>1 DEF Report
  <2>7. ASSUME ~ crossed', NEW u \in Shown \ {w}, pc'[u] = "idle"
        PROVE  PlaceOf(mirror', u) < PlaceOf(mirror', w) <=> PlaceOf(order, u) < PlaceOf(order, w)
    <3>1. pc[u] = "idle" /\ u \in Windows /\ p # NoWindow => pc[p] = "idle"
      BY <2>6, <2>7, <1>0
    <3>2. CASE p = NoWindow
      BY <3>2, <2>2, <2>5, <1>0
    <3>3. CASE p \in Shown \ {w}
      <4>1. PlaceOf(mirror, u) < PlaceOf(mirror, p) <=> PlaceOf(order, u) < PlaceOf(order, p)
        BY <3>1, <3>3, <2>6, <2>7, <1>0 DEF SameOrder
      <4>2. PlaceOf(order, u) < PlaceOf(order, w) <=> u = p \/ PlaceOf(order, u) < PlaceOf(order, p)
        BY <3>3, <2>4, <2>5, <1>0
      <4> QED BY <4>1, <4>2, <3>3, <2>2, <1>0
    <3> QED BY <3>2, <3>3, <2>5
  <2>8. ASSUME ~ crossed', NEW u \in Shown, NEW v \in Shown, pc'[u] = "idle", pc'[v] = "idle"
        PROVE  PlaceOf(mirror', u) < PlaceOf(mirror', v) <=> PlaceOf(order, u) < PlaceOf(order, v)
    <3>1. CASE u = v
      <4>1. PICK m : m = mirror'
        OBVIOUS
      <4>2. PlaceOf(m, u) \in 1 .. Len(m) /\ Len(m) \in Nat
        BY <4>1, <2>2, HasPlace, ListHas
      <4>3. ~ PlaceOf(m, u) < PlaceOf(m, u)
        BY <4>2
      <4> QED BY <4>1, <4>3, <3>1, <2>4, <1>0
    <3>2. CASE u # w /\ v # w
      BY <3>2, <2>2, <2>6, <2>8, <1>0 DEF SameOrder
    <3>3. CASE u # w /\ v = w
      BY <3>3, <2>7, <2>8
    <3>4. CASE u = w /\ v # w
      BY <3>4, <2>3, <2>4, <2>7, <2>8, <1>0
    <3> QED BY <3>1, <3>2, <3>3, <3>4
  <2> QED BY <2>6, <2>8 DEF SameOrder
<1>3. ASSUME UNCHANGED <<order, mirror, crossed>>,
             \A u \in Windows : pc'[u] = "idle" => pc[u] = "idle"
      PROVE  SameOrder'
  BY <1>0, <1>3 DEF SameOrder
<1>4. ASSUME NEW w \in Windows, AppMove(w) PROVE SameOrder'
  BY <1>1, <1>4, MovesAre DEF AppMove, clientVars
<1>5. ASSUME SetPos PROVE SameOrder'
  BY <1>1, <1>5, MovesAre DEF SetPos, clientVars
<1>6. ASSUME NEW w \in Windows, ReadBlock(w) PROVE SameOrder'
  BY <1>0, <1>3, <1>6 DEF ReadBlock, clientVars
<1>7. ASSUME (\E r \in Requests : Receive(r)) \/ Block \/ Unblock \/ UNCHANGED vars PROVE SameOrder'
  BY <1>3, <1>7 DEF Receive, Block, Unblock, threadVars, clientVars, vars
<1> QED BY <1>2, <1>4, <1>5, <1>6, <1>7 DEF Next, SafeZChange

\* Windows with nothing left to report stand in the client's list in the order they
\* really have, as long as no report has named a window that was still to report
\* itself (lines 204-229).
THEOREM ClientKnowsTheOrder == Spec => []OrderMirrored
<1>1. Init => IInv /\ SameOrder
  BY Initially, SameOrderInitially
<1>2. IInv /\ SameOrder /\ [Next]_vars => SameOrder'
  BY SameOrderInvariance
<1>3. IInv /\ SameOrder => OrderMirrored
  BY SameOrderIs
<1> QED BY <1>1, <1>2, <1>3, TypeCorrect, PTL DEF Spec

-----------------------------------------------------------------------------
(* Acknowledgements.                                                       *)

\* Where a request that can be carried out puts its window, it has that window in
\* front of it which the client named.
LEMMA ReachableIs ==
    ASSUME IInv, serial > 0, Reachable(request),
           Moves(request.win, IF SameLayer(request) THEN request.behind ELSE NoWindow)
    PROVE  FrontIn(order', request.win) = request.behind
<1>. DEFINE w == request.win
            p == IF SameLayer(request) THEN request.behind ELSE NoWindow
<1>1. PICK o : o = order'
  OBVIOUS
<1>2. /\ Lists(o, Windows) /\ InLayers(o)
      /\ \A u \in Windows \ {w} :
            PlaceOf(o, u) < PlaceOf(o, w)
               <=> \/ p # NoWindow /\ (u = p \/ PlaceOf(order, u) < PlaceOf(order, p))
                   \/ p = NoWindow /\ w \notin Topmost /\ u \in Topmost
      /\ \A u, v \in Windows \ {w} :
            PlaceOf(o, u) < PlaceOf(o, v) <=> PlaceOf(order, u) < PlaceOf(order, v)
  BY <1>1, MoveIs
<1>3. /\ w \in Windows /\ Shown \subseteq Windows /\ NoWindow \notin Shown
      /\ request.behind \in Shown \cup {NoWindow} /\ request.behind # w
  BY RequestIs, WindowsAre DEF IInv
<1>4. ~ PlaceOf(o, w) < PlaceOf(o, w)
  BY <1>2, <1>3, HasPlace, ListHas
<1>5. FrontIn(o, w) = request.behind
  <2>1. CASE SameLayer(request)
    <3>1. p = request.behind /\ p # NoWindow /\ p \in Shown /\ p # w
      BY <2>1, <1>3 DEF SameLayer
    <3>2. /\ PlaceOf(o, p) < PlaceOf(o, w)
          /\ \A u \in Shown : PlaceOf(o, u) < PlaceOf(o, w) => u = p \/ PlaceOf(o, u) < PlaceOf(o, p)
      BY <3>1, <1>2, <1>3, <1>4
    <3> QED BY <3>1, <3>2, <1>2, <1>3, FrontIsThis
  <2>2. CASE ~ SameLayer(request)
    <3>1. p = NoWindow /\ request.behind = NoWindow /\ (w \in Topmost \/ Topmost \subseteq Hidden)
      BY <2>2 DEF Reachable
    <3>2. \A u \in Shown : ~ PlaceOf(o, u) < PlaceOf(o, w)
      BY <3>1, <1>2, <1>3, <1>4 DEF Shown
    <3> QED BY <3>1, <3>2, <1>2, <1>3, FrontIsThis
  <2> QED BY <2>1, <2>2
<1> QED BY <1>1, <1>5

\* The acknowledgements of the request that one more makes.
LEMMA AnswersAre ==
    ASSUME TypeOK, requests' = requests, NEW n \in Nat, acks' = Append(acks, n)
    PROVE  /\ n = serial => Answers' = Answers \cup {Len(acks) + 1} /\ Len(acks) + 1 \in 1 .. Len(acks')
           /\ n # serial => Answers' = Answers
           /\ \A m : (\A i \in 1 .. Len(acks) : acks[i] <= m) /\ n <= m
                        => \A i \in 1 .. Len(acks') : acks'[i] <= m
<1>1. acks \in Seq(Nat) /\ serial' = serial
  BY DEF TypeOK, serial
<1>2. /\ Len(acks') = Len(acks) + 1 /\ Len(acks) \in Nat
      /\ \A i \in 1 .. Len(acks) : acks'[i] = acks[i]
      /\ acks'[Len(acks) + 1] = n
  BY <1>1, AppendProperties
<1>3. \A i : i \in 1 .. Len(acks') <=> i \in 1 .. Len(acks) \/ i = Len(acks) + 1
  BY <1>2
<1> QED BY <1>1, <1>2, <1>3 DEF Answers

LEMMA AnswersInvariance == IInv /\ AnswersInv /\ [Next]_vars => AnswersInv'
<1>. SUFFICES ASSUME IInv, AnswersInv, [Next]_vars PROVE AnswersInv'
  OBVIOUS
<1>0. /\ TypeOK /\ BlocksOK
      /\ pc \in [Windows -> {"idle", "read", "report"}] /\ block \in [Windows -> Blocks]
      /\ serial \in Nat
  BY DEF IInv, TypeOK, serial
<1>1. shell # "idle" => request.win \in Windows /\ request.win \in Shown /\ serial > 0
  BY <1>0, RequestIs DEF BlocksOK
<1>2. ASSUME NEW w \in Windows, AppMove(w) PROVE AnswersInv'
  <2>1. /\ fate' = "disturbed"
        /\ UNCHANGED <<zchange, block, shell, requests, mirror, acks, crossed>>
    BY <1>2 DEF AppMove, clientVars
  <2> QED BY <2>1 DEF AnswersInv, Answers, serial
<1>3. ASSUME NEW w \in Windows, ReadBlock(w) PROVE AnswersInv'
  <2>1. /\ pc[w] = "read" /\ pc' = [pc EXCEPT ![w] = "report"]
        /\ block' = [block EXCEPT ![w] = zchange]
        /\ UNCHANGED <<order, zchange, shell, requests, acts, mirror, acks, crossed, fate>>
    BY <1>3 DEF ReadBlock, clientVars
  <2>2. UNCHANGED <<Answers, serial, request>>
    BY <2>1 DEF Answers, serial, request
  <2>3. shell = "block" => \A v \in Windows : block'[v].win # NoWindow => block'[v].serial < serial
    BY <1>0, <2>1 DEF BlocksOK, AnswersInv
  <2>4. ASSUME fate = "moved", shell = "wait" PROVE Answered'
    <3>1. Answered /\ w = request.win
      BY <2>1, <2>4 DEF AnswersInv, Answered
    <3>2. UNCHANGED <<FrontIn(order, request.win), Reachable(request)>>
      BY <2>1, <2>2
    <3>3. /\ \A v \in Windows : v # request.win => pc'[v] = "idle"
          /\ pc'[request.win] = "report" /\ block'[request.win] = zchange
      BY <3>1, <2>1, <1>0 DEF Answered
    <3> QED BY <3>1, <3>2, <3>3, <2>1, <2>2 DEF Answered
  <2>5. fate = "quiet" => shell = "idle"
    BY <2>1 DEF AnswersInv
  <2> QED BY <2>1, <2>2, <2>3, <2>4, <2>5 DEF AnswersInv
<1>4. ASSUME NEW w \in Windows, Report(w) PROVE AnswersInv'
  <2>1. /\ pc[w] = "report" /\ pc' = [pc EXCEPT ![w] = "idle"]
        /\ block' = [block EXCEPT ![w] = NoBlock]
        /\ UNCHANGED <<order, zchange, shell, requests, acts, fate>>
    BY <1>4 DEF Report
  <2>2. UNCHANGED <<serial, request>>
    BY <2>1 DEF serial, request
  <2>3. IF IsBlocked(w, InFront(w))
        THEN acks' = Append(acks, block[w].serial) /\ block[w].serial \in 1 .. serial
        ELSE acks' = acks
    BY <1>4, ReportIs
  <2>4. \A i \in 1 .. Len(acks') : acks'[i] <= serial
    <3>1. \A i \in 1 .. Len(acks) : acks[i] <= serial
      BY DEF AnswersInv
    <3> QED BY <3>1, <2>1, <2>3, <1>0, AnswersAre
  <2>5. fate = "quiet" => shell = "idle"
    BY <2>1 DEF AnswersInv
  <2>6. ASSUME shell = "block"
        PROVE  /\ Answers' = {}
               /\ \A v \in Windows : block'[v].win # NoWindow => block'[v].serial < serial
    <3>1. Answers = {} /\ \A v \in Windows : block[v].win # NoWindow => block[v].serial < serial
      BY <2>6 DEF AnswersInv
    <3>2. \A v \in Windows : block'[v] = block[v] \/ block'[v].win = NoWindow
      BY <2>1, <1>0 DEF NoBlock
    <3>3. IsBlocked(w, InFront(w)) => block[w].serial < serial
      BY <3>1, WindowsAre DEF IsBlocked
    <3>4. Answers' = {}
      <4>1. CASE IsBlocked(w, InFront(w))
        BY <4>1, <3>1, <3>3, <2>1, <2>3, <1>0, AnswersAre
      <4>2. CASE ~ IsBlocked(w, InFront(w))
        BY <4>2, <3>1, <2>2, <2>3 DEF Answers
      <4> QED BY <4>1, <4>2
    <3> QED BY <3>1, <3>2, <3>4
  <2>7. ASSUME fate = "moved", shell = "wait" PROVE Answered'
    <3>1. Answered /\ w = request.win /\ Answers = {} /\ block[w] = zchange
      BY <2>1, <2>7 DEF AnswersInv, Answered
    <3>2. UNCHANGED <<FrontIn(order, request.win), Reachable(request)>>
      BY <2>1, <2>2
    <3>3. \A v \in Windows : pc'[v] = "idle"
      BY <3>1, <2>1, <1>0 DEF Answered
    <3>4. block[w].win = w /\ block[w].behind = request.behind /\ block[w].serial = serial
      BY <3>1, <2>7, <1>0 DEF BlocksOK
    <3>5. Reachable(request) => IsBlocked(w, InFront(w))
      BY <3>1, <3>4, InFrontIsFront DEF Answered, IsBlocked
    <3>6. CASE IsBlocked(w, InFront(w))
      <4>1. Answers' = {Len(acks) + 1} /\ Len(acks) + 1 \in 1 .. Len(acks')
        BY <3>1, <3>4, <3>6, <2>1, <2>3, <1>0, AnswersAre
      <4>2. \E i \in 1 .. Len(acks') : Answers' = {i}
        BY <4>1
      <4>3. \A i, j \in Answers' : i = j
        BY <4>1
      <4> QED BY <4>2, <4>3, <3>1, <3>2, <3>3, <2>2, <1>1, <2>7 DEF Answered
    <3>7. CASE ~ IsBlocked(w, InFront(w))
      <4>1. Answers' = {} /\ ~ Reachable(request)
        BY <3>1, <3>5, <3>7, <2>2, <2>3 DEF Answers
      <4> QED BY <4>1, <3>1, <3>2, <3>3, <2>2, <1>1, <2>7 DEF Answered
    <3> QED BY <3>6, <3>7
  <2> QED BY <2>1, <2>2, <2>4, <2>5, <2>6, <2>7 DEF AnswersInv
<1>5. ASSUME NEW r \in Requests, Receive(r) PROVE AnswersInv'
  <2>1. serial' = serial + 1 /\ \A i \in 1 .. serial : requests'[i] = requests[i]
    BY <1>0, <1>5, ReceiveIs
  <2>2. /\ shell' = "block" /\ UNCHANGED <<acks, block, pc>>
        /\ fate' = IF \A w \in Windows : pc[w] = "idle" THEN "quiet" ELSE "disturbed"
    BY <1>5 DEF Receive, threadVars, clientVars
  <2>3. \A i \in 1 .. Len(acks) : acks[i] <= serial /\ acks[i] \in Nat
    BY <1>0 DEF AnswersInv, TypeOK
  <2>4. Answers' = {} /\ \A i \in 1 .. Len(acks) : acks[i] <= serial'
    BY <2>1, <2>2, <2>3, <1>0 DEF Answers
  <2>5. \A w \in Windows : block[w].win # NoWindow => block[w].serial < serial'
    BY <2>1, <1>0 DEF BlocksOK, OfRequest, Blocks
  <2> QED BY <2>2, <2>4, <2>5 DEF AnswersInv
<1>6. ASSUME Block PROVE AnswersInv'
  <2>1. shell = "block" /\ shell' = "set" /\ UNCHANGED <<acks, block, pc, requests, fate>>
    BY <1>6 DEF Block, threadVars, clientVars
  <2>2. UNCHANGED <<Answers, serial>>
    BY <2>1 DEF Answers, serial
  <2> QED BY <2>1, <2>2 DEF AnswersInv
<1>7. ASSUME SetPos PROVE AnswersInv'
  <2>1. /\ shell = "set" /\ shell' = "wait" /\ UNCHANGED <<zchange, block, requests, acks>>
        /\ fate' = IF fate = "quiet" /\ order' # order THEN "moved" ELSE fate
    BY <1>7 DEF SetPos, clientVars
  <2>2. UNCHANGED <<Answers, serial, request>>
    BY <2>1 DEF Answers, serial, request
  <2>3. Moves(request.win, IF SameLayer(request) THEN request.behind ELSE NoWindow)
    BY <1>7, MovesAre
  <2>4. /\ \A u \in Windows : u # request.win => pc'[u] = pc[u]
        /\ pc'[request.win] = IF order' # order /\ request.win \in Shown THEN "read" ELSE "idle"
    BY <2>3, MoveIs
  <2>5. ASSUME fate' = "quiet" PROVE Answers' = {} /\ \A u \in Windows : pc'[u] = "idle"
    BY <2>1, <2>2, <2>4, <2>5 DEF AnswersInv
  <2>6. ASSUME fate' = "moved" PROVE Answered'
    <3>1. fate = "quiet" /\ order' # order
      BY <2>1, <2>6 DEF AnswersInv
    <3>2. Answers = {} /\ \A u \in Windows : pc[u] = "idle"
      BY <3>1, <2>1 DEF AnswersInv
    <3>3. Reachable(request) => FrontIn(order', request.win) = request.behind
      BY <2>1, <2>3, <1>1, ReachableIs
    <3>4. pc'[request.win] = "read"
      BY <3>1, <2>1, <2>4, <1>1
    <3>5. Reachable(request)' = Reachable(request)
      BY <2>2
    <3> QED BY <3>2, <3>3, <3>4, <3>5, <2>2, <2>4 DEF Answered
  <2> QED BY <2>1, <2>2, <2>5, <2>6 DEF AnswersInv
<1>8. ASSUME Unblock PROVE AnswersInv'
  <2>1. shell' = "idle" /\ UNCHANGED <<acks, block, pc, requests, fate>>
    BY <1>8 DEF Unblock, threadVars, clientVars
  <2> QED BY <2>1 DEF AnswersInv, serial
<1>9. CASE UNCHANGED vars
  <2>1. UNCHANGED <<acks, block, pc, requests, fate, shell, order, zchange>>
    BY <1>9 DEF vars, threadVars, clientVars
  <2>2. UNCHANGED <<Answers, serial, request>>
    BY <2>1 DEF Answers, serial, request
  <2>3. UNCHANGED <<FrontIn(order, request.win), Reachable(request)>>
    BY <2>1, <2>2
  <2>4. Answered' = Answered
    BY <2>1, <2>2, <2>3 DEF Answered
  <2> QED BY <2>1, <2>2, <2>4 DEF AnswersInv
<1> QED BY <1>2, <1>3, <1>4, <1>5, <1>6, <1>7, <1>8, <1>9 DEF Next, SafeZChange

\* A request that moves its window while nothing else moves is acknowledged once,
\* before the shell takes the block away, where it can be carried out as asked; no
\* request is acknowledged twice then (lines 216, 684-712).
THEOREM NoAckIsLost == Spec => AckedIfMoved
<1>1. Init => AnswersInv
  <2>. SUFFICES ASSUME Init PROVE AnswersInv
    OBVIOUS
  <2>1. acks = <<>> /\ shell = "idle" /\ fate = "quiet"
    BY DEF Init
  <2> QED BY <2>1 DEF AnswersInv
<1>2. IInv /\ AnswersInv /\ [Next]_vars => AnswersInv'
  BY AnswersInvariance
<1>3. ASSUME IInv, AnswersInv, [Next]_vars, shell = "wait", shell' = "idle", fate # "disturbed"
      PROVE  LET n == Cardinality({i \in DOMAIN acks : acks[i] = serial})
             IN  IF fate = "moved" /\ Reachable(request) THEN n = 1 ELSE n <= 1
  <2>1. pc[request.win] = "idle"
    <3>1. Unblock
      BY <1>3 DEF Next, SafeZChange, AppMove, ReadBlock, Report, Receive, Block, SetPos, vars
    <3> QED BY <3>1 DEF Unblock
  <2>2. Answers = {i \in DOMAIN acks : acks[i] = serial}
    BY DEF Answers, IInv, TypeOK
  <2>3. fate \in {"quiet", "moved"}
    BY <1>3 DEF IInv, TypeOK
  <2>4. CASE fate = "quiet"
    BY <2>2, <2>4, <1>3, FS_EmptySet DEF AnswersInv
  <2>5. CASE fate = "moved"
    <3>1. IF Reachable(request) THEN \E i \in 1 .. Len(acks) : Answers = {i}
          ELSE \A i, j \in Answers : i = j
      BY <2>1, <2>5, <1>3 DEF AnswersInv, Answered
    <3>2. ASSUME \A i, j \in Answers : i = j PROVE Answers = {} \/ \E i : Answers = {i}
      <4>1. ASSUME NEW i \in Answers PROVE Answers = {i}
        BY <3>2
      <4> QED BY <4>1
    <3>3. Cardinality({}) = 0 /\ \A i : Cardinality({i}) = 1
      BY FS_EmptySet, FS_Singleton
    <3>4. CASE Reachable(request)
      BY <3>1, <3>3, <3>4, <2>2, <2>5
    <3>5. CASE ~ Reachable(request)
      <4>1. Cardinality(Answers) \in {0, 1}
        BY <3>1, <3>2, <3>3, <3>5
      <4> QED BY <4>1, <3>5, <2>2
    <3> QED BY <3>4, <3>5
  <2> QED BY <2>3, <2>4, <2>5
<1> QED BY <1>1, <1>2, <1>3, Initially, TypeCorrect, PTL DEF Spec, AckedIfMoved

=============================================================================
