---------------------------- MODULE ClipperProofs ----------------------------
(***************************************************************************)
(* Proofs about HashTable and Clipper: the hash table is a map, its        *)
(* functions do what they say while they delete or sort, and what the      *)
(* client shows is what the server's windows cover, for any windows,       *)
(* places, hash function and desktop.                                      *)
(***************************************************************************)
EXTENDS Clipper, FiniteSetTheorems, SequenceTheorems, WellFoundedInduction, TLAPS

-----------------------------------------------------------------------------
(* Sequences and numbers.                                                  *)

LEMMA Concatenation ==
    ASSUME NEW S, NEW s \in Seq(S), NEW t \in Seq(S), NEW r, r = s \o t
    PROVE  /\ r \in Seq(S) /\ Len(r) = Len(s) + Len(t)
           /\ \A i \in 1 .. Len(s) : r[i] = s[i]
           /\ \A i \in 1 .. Len(t) : r[Len(s) + i] = t[i]
<1>1. /\ r \in Seq(S) /\ Len(r) = Len(s) + Len(t)
      /\ \A i \in 1 .. Len(s) + Len(t) : r[i] = IF i <= Len(s) THEN s[i] ELSE t[i - Len(s)]
  BY ConcatProperties, Zenon
<1>2. Len(s) \in Nat /\ Len(t) \in Nat
  OBVIOUS
<1>3. \A i \in 1 .. Len(s) : r[i] = s[i]
  BY <1>1, <1>2
<1>4. ASSUME NEW i \in 1 .. Len(t) PROVE r[Len(s) + i] = t[i]
  <2>1. Len(s) + i \in 1 .. Len(s) + Len(t) /\ ~ (Len(s) + i <= Len(s))
        /\ (Len(s) + i) - Len(s) = i
    BY <1>2
  <2> QED BY <2>1, <1>1
<1> QED BY <1>1, <1>3, <1>4

LEMMA Part ==
    ASSUME NEW S, NEW s \in Seq(S), NEW m \in 1 .. Len(s) + 1, NEW n \in m - 1 .. Len(s)
    PROVE  /\ SubSeq(s, m, n) \in Seq(S) /\ Len(SubSeq(s, m, n)) = n - m + 1
           /\ \A i \in 1 .. n - m + 1 : SubSeq(s, m, n)[i] = s[m + i - 1]
BY SubSeqProperties

LEMMA Removed ==
    ASSUME NEW S, NEW s \in Seq(S), NEW k \in 1 .. Len(s)
    PROVE  LET r == RemoveAt(s, k)
           IN  /\ r \in Seq(S) /\ Len(r) = Len(s) - 1
               /\ \A i \in 1 .. Len(r) : r[i] = IF i < k THEN s[i] ELSE s[i + 1]
<1>. DEFINE a == SubSeq(s, 1, k - 1)
            b == SubSeq(s, k + 1, Len(s))
<1>0. Len(s) \in Nat /\ k \in Nat
  OBVIOUS
<1>1. /\ a \in Seq(S) /\ Len(a) = k - 1
      /\ \A i \in 1 .. k - 1 : a[i] = s[i]
  <2>1. 1 \in 1 .. Len(s) + 1 /\ k - 1 \in 1 - 1 .. Len(s)
    BY <1>0
  <2>2. /\ a \in Seq(S) /\ Len(a) = (k - 1) - 1 + 1
        /\ \A i \in 1 .. (k - 1) - 1 + 1 : a[i] = s[1 + i - 1]
    BY <2>1, Part
  <2> QED BY <2>2, <1>0
<1>2. /\ b \in Seq(S) /\ Len(b) = Len(s) - k
      /\ \A i \in 1 .. Len(s) - k : b[i] = s[k + i]
  <2>1. k + 1 \in 1 .. Len(s) + 1 /\ Len(s) \in (k + 1) - 1 .. Len(s)
    BY <1>0
  <2>2. /\ b \in Seq(S) /\ Len(b) = Len(s) - (k + 1) + 1
        /\ \A i \in 1 .. Len(s) - (k + 1) + 1 : b[i] = s[(k + 1) + i - 1]
    BY <2>1, Part
  <2> QED BY <2>2, <1>0
<1>. HIDE DEF a, b
<1>r. PICK r : r = a \o b
  OBVIOUS
<1>3. /\ r \in Seq(S) /\ Len(r) = Len(s) - 1
      /\ \A i \in 1 .. Len(a) : r[i] = a[i]
      /\ \A i \in 1 .. Len(b) : r[Len(a) + i] = b[i]
  <2>1. /\ r \in Seq(S) /\ Len(r) = Len(a) + Len(b)
        /\ \A i \in 1 .. Len(a) : r[i] = a[i]
        /\ \A i \in 1 .. Len(b) : r[Len(a) + i] = b[i]
    <3>1. a \in Seq(S) /\ b \in Seq(S)
      BY <1>1, <1>2
    <3> QED BY <3>1, <1>r, Concatenation
  <2> QED BY <2>1, <1>0, <1>1, <1>2
<1>4. ASSUME NEW i \in 1 .. Len(r) PROVE r[i] = IF i < k THEN s[i] ELSE s[i + 1]
  <2>1. CASE i < k
    BY <2>1, <1>0, <1>1, <1>3
  <2>2. CASE i >= k
    <3>1. PICK j \in 1 .. Len(b) : i = Len(a) + j
      <4>1. i - Len(a) \in 1 .. Len(b) /\ i = Len(a) + (i - Len(a))
        BY <2>2, <1>0, <1>1, <1>2, <1>3
      <4> QED BY <4>1
    <3>2. r[i] = b[j] /\ b[j] = s[k + j]
      BY <3>1, <1>2, <1>3
    <3>3. k + j = i + 1
      BY <3>1, <1>1, <1>2, <1>0
    <3> QED BY <3>2, <3>3, <2>2, <1>0
  <2> QED BY <2>1, <2>2, <1>0
<1>5. RemoveAt(s, k) = r
  BY <1>r DEF RemoveAt, a, b
<1> QED BY <1>3, <1>4, <1>5

\* Numbers have a least one.
LEMMA LeastNumber ==
    ASSUME NEW S \in SUBSET Nat, S # {}
    PROVE  \E x \in S : \A y \in S : x <= y
<1>1. PICK x \in S : \A y \in S : ~ (<<y, x>> \in OpToRel(<, Nat))
  BY NatLessThanWellFounded, WFMin
<1>2. \A y \in S : ~ (y < x)
  BY <1>1 DEF OpToRel
<1> QED BY <1>2

-----------------------------------------------------------------------------
(***************************************************************************)
(* A chain of the hash table, in which every key stands once.              *)
(***************************************************************************)

Bucket == [key : Ids, data : Nat]

Keyed(c) ==
    /\ c \in Seq(Bucket)
    /\ \A i, j \in 1 .. Len(c) : c[i].key = c[j].key => i = j

\* The chain has this bucket.
In(c, k, d) == \E i \in 1 .. Len(c) : c[i].key = k /\ c[i].data = d

Find(c, k) == SelectInSeq(c, LAMBDA b : b.key = k)

LEMMA FindIs ==
    ASSUME NEW c, Keyed(c), NEW k
    PROVE  /\ Find(c, k) # 0 => Find(c, k) \in 1 .. Len(c) /\ c[Find(c, k)].key = k
           /\ Find(c, k) = 0 => \A d : ~ In(c, k, d)
           /\ \A i \in 1 .. Len(c) : c[i].key = k => Find(c, k) = i
<1>. DEFINE I == {j \in 1 .. Len(c) : c[j].key = k}
<1>0. c \in Seq(Bucket) /\ Len(c) \in Nat
  BY DEF Keyed
<1>1. Find(c, k) = IF I # {} THEN Min(I) ELSE 0
  BY DEF Find, SelectInSeq
<1>2. ASSUME NEW i \in 1 .. Len(c), c[i].key = k PROVE Find(c, k) = i
  <2>1. I = {i}
    BY <1>2 DEF Keyed
  <2>. HIDE DEF I
  <2>2. i \in Int /\ i <= i
    BY <1>0
  <2>3. Min(I) = i
    BY <2>1, <2>2 DEF Min
  <2> QED BY <1>1, <2>1, <2>3
<1>3. ASSUME Find(c, k) # 0 PROVE \E i \in 1 .. Len(c) : c[i].key = k
  BY <1>1, <1>3
<1>4. ASSUME NEW d, In(c, k, d) PROVE Find(c, k) # 0
  <2>1. PICK i \in 1 .. Len(c) : c[i].key = k
    BY <1>4 DEF In
  <2>2. Find(c, k) = i
    BY <2>1, <1>2
  <2> QED BY <2>2, <1>0
<1> QED BY <1>2, <1>3, <1>4

\* A chain has at most one bucket with a key.
LEMMA InIs ==
    ASSUME NEW c, Keyed(c), NEW k, NEW d, In(c, k, d)
    PROVE  /\ k \in Ids /\ d \in Nat
           /\ Find(c, k) # 0 /\ c[Find(c, k)].data = d
           /\ \A e : In(c, k, e) => e = d
<1>1. PICK i \in 1 .. Len(c) : c[i].key = k /\ c[i].data = d
  BY DEF In
<1>2. c \in Seq(Bucket) /\ Len(c) \in Nat
  BY DEF Keyed
<1>3. c[i] \in Bucket
  BY <1>2
<1>4. k \in Ids /\ d \in Nat
  BY <1>1, <1>3 DEF Bucket
<1>5. Find(c, k) = i
  BY <1>1, FindIs
<1>6. ASSUME NEW e, In(c, k, e) PROVE e = d
  <2>1. PICK j \in 1 .. Len(c) : c[j].key = k /\ c[j].data = e
    BY <1>6 DEF In
  <2>2. j = i
    BY <1>1, <2>1 DEF Keyed
  <2> QED BY <1>1, <2>1, <2>2
<1> QED BY <1>1, <1>2, <1>4, <1>5, <1>6

\* One chain after another with other keys, ...
LEMMA Joined ==
    ASSUME NEW a, Keyed(a), NEW b, Keyed(b), \A k, d, e : ~ (In(a, k, d) /\ In(b, k, e)),
           NEW r, r = a \o b
    PROVE  /\ Keyed(r)
           /\ \A k, d : In(r, k, d) <=> In(a, k, d) \/ In(b, k, d)
<1>0. a \in Seq(Bucket) /\ b \in Seq(Bucket)
  BY DEF Keyed
<1>1. /\ r \in Seq(Bucket) /\ Len(r) = Len(a) + Len(b)
      /\ \A i \in 1 .. Len(a) : r[i] = a[i]
      /\ \A i \in 1 .. Len(b) : r[Len(a) + i] = b[i]
  BY <1>0, Concatenation
<1>2. Len(a) \in Nat /\ Len(b) \in Nat
  BY <1>0
<1>3. ASSUME NEW i \in 1 .. Len(r)
      PROVE  i \in 1 .. Len(a) \/ \E m \in 1 .. Len(b) : i = Len(a) + m
  <2>1. CASE i <= Len(a)
    BY <2>1, <1>2
  <2>2. CASE ~ i <= Len(a)
    <3>1. i - Len(a) \in 1 .. Len(b) /\ i = Len(a) + (i - Len(a))
      BY <2>2, <1>1, <1>2
    <3> QED BY <3>1
  <2> QED BY <2>1, <2>2
<1>4. \A i \in 1 .. Len(a), m \in 1 .. Len(b) : a[i].key # b[m].key
  BY DEF In
<1>5. ASSUME NEW i \in 1 .. Len(r), NEW j \in 1 .. Len(r), r[i].key = r[j].key PROVE i = j
  <2>1. CASE i \in 1 .. Len(a) /\ j \in 1 .. Len(a)
    BY <2>1, <1>1, <1>5 DEF Keyed
  <2>2. ASSUME i \in 1 .. Len(a), NEW n \in 1 .. Len(b), j = Len(a) + n PROVE FALSE
    <3>1. r[i] = a[i] /\ r[j] = b[n]
      BY <2>2, <1>1
    <3> QED BY <2>2, <3>1, <1>4, <1>5
  <2>3. ASSUME j \in 1 .. Len(a), NEW m \in 1 .. Len(b), i = Len(a) + m PROVE FALSE
    <3>1. r[j] = a[j] /\ r[i] = b[m]
      BY <2>3, <1>1
    <3> QED BY <2>3, <3>1, <1>4, <1>5
  <2>4. ASSUME NEW m \in 1 .. Len(b), i = Len(a) + m, NEW n \in 1 .. Len(b), j = Len(a) + n
        PROVE  i = j
    <3>1. b[m].key = b[n].key
      BY <2>4, <1>1, <1>5
    <3>2. m = n
      BY <3>1 DEF Keyed
    <3> QED BY <3>2, <2>4
  <2> QED BY <1>3, <2>1, <2>2, <2>3, <2>4
<1>6. Keyed(r)
  BY <1>1, <1>5 DEF Keyed
<1>7. ASSUME NEW k, NEW d PROVE In(r, k, d) <=> In(a, k, d) \/ In(b, k, d)
  <2>1. ASSUME In(r, k, d) PROVE In(a, k, d) \/ In(b, k, d)
    <3>1. PICK i \in 1 .. Len(r) : r[i].key = k /\ r[i].data = d
      BY <2>1 DEF In
    <3> QED BY <3>1, <1>1, <1>3 DEF In
  <2>2. ASSUME In(a, k, d) PROVE In(r, k, d)
    <3>1. PICK i \in 1 .. Len(a) : a[i].key = k /\ a[i].data = d
      BY <2>2 DEF In
    <3>2. i \in 1 .. Len(r)
      BY <1>1, <1>2
    <3> QED BY <3>1, <3>2, <1>1 DEF In
  <2>3. ASSUME In(b, k, d) PROVE In(r, k, d)
    <3>1. PICK i \in 1 .. Len(b) : b[i].key = k /\ b[i].data = d
      BY <2>3 DEF In
    <3>2. Len(a) + i \in 1 .. Len(r)
      BY <1>1, <1>2
    <3> QED BY <3>1, <3>2, <1>1 DEF In
  <2> QED BY <2>1, <2>2, <2>3
<1> QED BY <1>6, <1>7

\* ... a new bucket at the head, ...
LEMMA PutFirst ==
    ASSUME NEW c, Keyed(c), NEW k \in Ids, NEW d \in Nat, Find(c, k) = 0
    PROVE  LET r == <<[key |-> k, data |-> d]>> \o c
           IN  /\ Keyed(r)
               /\ \A l, e : In(r, l, e) <=> (l = k /\ e = d) \/ In(c, l, e)
<1>b. PICK b : b = [key |-> k, data |-> d]
  OBVIOUS
<1>s. PICK s : s = <<b>>
  OBVIOUS
<1>r. PICK r : r = s \o c
  OBVIOUS
<1>1. b \in Bucket /\ b.key = k /\ b.data = d
  BY <1>b DEF Bucket
<1>2. s \in Seq(Bucket) /\ Len(s) = 1 /\ s[1] = b
  BY <1>1, <1>s
<1>3. Keyed(s) /\ \A l, e : In(s, l, e) <=> l = k /\ e = d
  BY <1>1, <1>2 DEF Keyed, In
<1>4. \A l, e, f : ~ (In(s, l, e) /\ In(c, l, f))
  BY <1>3, FindIs
<1>5. Keyed(r) /\ \A l, e : In(r, l, e) <=> In(s, l, e) \/ In(c, l, e)
  BY <1>3, <1>4, <1>r, Joined
<1> QED BY <1>3, <1>5, <1>b, <1>s, <1>r

\* ... other data in a bucket, ...
LEMMA Replaced ==
    ASSUME NEW c, Keyed(c), NEW i \in 1 .. Len(c), NEW d \in Nat,
           NEW r, r = [c EXCEPT ![i] = [key |-> c[i].key, data |-> d]]
    PROVE  /\ Keyed(r)
           /\ \A l, e : In(r, l, e) <=> IF l = c[i].key THEN e = d ELSE In(c, l, e)
<1>0. /\ c \in Seq(Bucket) /\ Len(c) \in Nat /\ DOMAIN c = 1 .. Len(c)
      /\ \A j \in 1 .. Len(c) : c[j] \in Bucket
  BY DEF Keyed
<1>b. PICK b : b = [key |-> c[i].key, data |-> d]
  OBVIOUS
<1>1. b \in Bucket /\ b.key = c[i].key /\ b.data = d
  BY <1>0, <1>b DEF Bucket
<1>2. r = [c EXCEPT ![i] = b]
  BY <1>b
<1>3. /\ r \in Seq(Bucket) /\ Len(r) = Len(c) /\ r[i] = b
      /\ \A j \in 1 .. Len(c) : j # i => r[j] = c[j]
  BY <1>0, <1>1, <1>2
<1>4. \A j \in 1 .. Len(c) : r[j].key = c[j].key
  BY <1>1, <1>3
<1>5. Keyed(r)
  BY <1>3, <1>4 DEF Keyed
<1>6. ASSUME NEW l, NEW e
      PROVE  In(r, l, e) <=> IF l = c[i].key THEN e = d ELSE In(c, l, e)
  <2>1. CASE l = c[i].key
    <3>1. \A j \in 1 .. Len(c) : r[j].key = l => j = i
      BY <2>1, <1>4 DEF Keyed
    <3> QED BY <3>1, <2>1, <1>1, <1>3 DEF In
  <2>2. CASE l # c[i].key
    <3>1. \A j \in 1 .. Len(c) : r[j].key = l => j # i /\ r[j] = c[j]
      BY <2>2, <1>3, <1>4
    <3>2. \A j \in 1 .. Len(c) : c[j].key = l => j # i /\ r[j] = c[j]
      BY <2>2, <1>3
    <3> QED BY <3>1, <3>2, <2>2, <1>3 DEF In
  <2> QED BY <2>1, <2>2
<1> QED BY <1>5, <1>6

\* ... and a bucket taken out.
LEMMA TakenOut ==
    ASSUME NEW c, Keyed(c), NEW i \in 1 .. Len(c), NEW r, r = RemoveAt(c, i)
    PROVE  /\ Keyed(r)
           /\ \A l, e : In(r, l, e) <=> l # c[i].key /\ In(c, l, e)
<1>0. c \in Seq(Bucket) /\ Len(c) \in Nat
  BY DEF Keyed
<1>1. /\ r \in Seq(Bucket) /\ Len(r) = Len(c) - 1
      /\ \A j \in 1 .. Len(r) : r[j] = IF j < i THEN c[j] ELSE c[j + 1]
  BY <1>0, Removed
<1>. DEFINE From(j) == IF j < i THEN j ELSE j + 1
<1>2. /\ \A j \in 1 .. Len(r) : From(j) \in 1 .. Len(c) /\ From(j) # i /\ r[j] = c[From(j)]
      /\ \A j, k \in 1 .. Len(r) : From(j) = From(k) => j = k
  BY <1>0, <1>1
<1>3. \A j \in 1 .. Len(c) : j # i => \E k \in 1 .. Len(r) : From(k) = j
  <2>1. ASSUME NEW j \in 1 .. Len(c), j # i PROVE \E k \in 1 .. Len(r) : From(k) = j
    <3>1. CASE j < i
      <4>1. j \in 1 .. Len(r) /\ From(j) = j
        BY <3>1, <1>0, <1>1
      <4> QED BY <4>1
    <3>2. CASE ~ j < i
      <4>1. j - 1 \in 1 .. Len(r) /\ From(j - 1) = j
        BY <3>2, <2>1, <1>0, <1>1
      <4> QED BY <4>1
    <3> QED BY <3>1, <3>2
  <2> QED BY <2>1
<1>. HIDE DEF From
<1>4. Keyed(r)
  BY <1>1, <1>2 DEF Keyed
<1>5. ASSUME NEW l, NEW e PROVE In(r, l, e) <=> l # c[i].key /\ In(c, l, e)
  <2>1. ASSUME In(r, l, e) PROVE l # c[i].key /\ In(c, l, e)
    <3>1. PICK j \in 1 .. Len(r) : r[j].key = l /\ r[j].data = e
      BY <2>1 DEF In
    <3>2. From(j) \in 1 .. Len(c) /\ From(j) # i /\ c[From(j)].key = l /\ c[From(j)].data = e
      BY <3>1, <1>2
    <3>3. l # c[i].key
      BY <3>2 DEF Keyed
    <3> QED BY <3>2, <3>3 DEF In
  <2>2. ASSUME l # c[i].key, In(c, l, e) PROVE In(r, l, e)
    <3>1. PICK j \in 1 .. Len(c) : c[j].key = l /\ c[j].data = e
      BY <2>2 DEF In
    <3>2. PICK k \in 1 .. Len(r) : From(k) = j
      BY <3>1, <2>2, <1>3
    <3> QED BY <3>1, <3>2, <1>2 DEF In
  <2> QED BY <2>1, <2>2
<1> QED BY <1>4, <1>5

-----------------------------------------------------------------------------
(***************************************************************************)
(* The functions of the hash table, as a map from keys to data.            *)
(***************************************************************************)

\* The buckets of a chain have this hash value.
Hashes(c, v, size) == \A i \in 1 .. Len(c) : HashOf(c[i].key) % size = v

\* Every bucket stands in the chain of its key's hash value, and no key twice.
TableOK(t) ==
    /\ t \in [size : Nat, count : Int, chain : [0 .. t.size - 1 -> Seq(Bucket)]]
    /\ \A v \in 0 .. t.size - 1 : Keyed(t.chain[v]) /\ Hashes(t.chain[v], v, t.size)

\* The table with this chain in place of another one.
Changed(t, v, c, n) ==
    [size |-> t.size, count |-> n, chain |-> [t.chain EXCEPT ![v] = c]]

LEMMA ValIs ==
    ASSUME NEW t, TableOK(t), t.size # 0, NEW k \in Ids
    PROVE  /\ Val(k, t) \in 0 .. t.size - 1 /\ ChainOf(k, t) = t.chain[Val(k, t)]
           /\ Keyed(ChainOf(k, t)) /\ At(k, t) = Find(ChainOf(k, t), k)
<1>1. t.size \in Nat /\ HashOf(k) \in Nat
  BY ClipperAssumption DEF TableOK
<1>2. Val(k, t) \in 0 .. t.size - 1
  BY <1>1 DEF Val
<1>3. Keyed(t.chain[Val(k, t)])
  BY <1>2 DEF TableOK
<1> QED BY <1>2, <1>3 DEF ChainOf, At, Find

LEMMA LookupIs ==
    ASSUME NEW t, TableOK(t), t.size # 0, NEW k \in Ids
    PROVE  /\ hash_lookup(k, t) = Null <=> At(k, t) = 0
           /\ hash_lookup(k, t) = Null <=> \A d : ~ In(ChainOf(k, t), k, d)
           /\ hash_lookup(k, t) # Null => hash_lookup(k, t) \in Nat
           /\ \A d \in Nat : hash_lookup(k, t) = d <=> In(ChainOf(k, t), k, d)
<1>. DEFINE c == ChainOf(k, t)
            i == At(k, t)
<1>1. Keyed(c) /\ i = Find(c, k) /\ Null \notin Nat
  BY ValIs, ClipperAssumption
<1>2. hash_lookup(k, t) = IF i = 0 THEN Null ELSE c[i].data
  BY DEF hash_lookup
<1>. HIDE DEF c, i
<1>3. CASE i = 0
  <2>1. \A d : ~ In(c, k, d)
    BY <1>1, <1>3, FindIs
  <2> QED BY <1>1, <1>2, <1>3, <2>1 DEF c, i
<1>4. CASE i # 0
  <2>1. In(c, k, c[i].data)
    BY <1>1, <1>4, FindIs DEF In
  <2>2. c[i].data \in Nat /\ \A e : In(c, k, e) => e = c[i].data
    BY <1>1, <2>1, InIs
  <2> QED BY <1>1, <1>2, <1>4, <2>1, <2>2 DEF c, i
<1> QED BY <1>3, <1>4

\* Tables in which the key has the same buckets give the same answer.
LEMMA SameAnswer ==
    ASSUME NEW t, TableOK(t), t.size # 0, NEW r, TableOK(r), r.size # 0, NEW k \in Ids,
           \A d : In(ChainOf(k, r), k, d) <=> In(ChainOf(k, t), k, d)
    PROVE  hash_lookup(k, r) = hash_lookup(k, t)
<1>1. CASE hash_lookup(k, t) = Null
  <2>1. \A d : ~ In(ChainOf(k, t), k, d)
    BY <1>1, LookupIs
  <2>2. hash_lookup(k, r) = Null
    BY <2>1, LookupIs
  <2> QED BY <1>1, <2>2
<1>2. CASE hash_lookup(k, t) # Null
  <2>1. hash_lookup(k, t) \in Nat
    BY <1>2, LookupIs
  <2>2. In(ChainOf(k, t), k, hash_lookup(k, t))
    BY <2>1, LookupIs
  <2>3. In(ChainOf(k, r), k, hash_lookup(k, t))
    BY <2>2
  <2>4. hash_lookup(k, r) = hash_lookup(k, t)
    BY <2>1, <2>3, LookupIs
  <2> QED BY <2>4
<1> QED BY <1>1, <1>2

\* Another chain in the table.
LEMMA OtherChain ==
    ASSUME NEW t, TableOK(t), NEW v \in 0 .. t.size - 1, NEW n \in Int,
           NEW c, Keyed(c), Hashes(c, v, t.size),
           NEW r, r = Changed(t, v, c, n)
    PROVE  /\ TableOK(r) /\ r.size = t.size /\ r.count = n
           /\ \A u \in 0 .. t.size - 1 : r.chain[u] = IF u = v THEN c ELSE t.chain[u]
<1>1. r.size = t.size /\ r.count = n /\ r.chain = [t.chain EXCEPT ![v] = c]
  BY DEF Changed
<1>2. t.chain \in [0 .. t.size - 1 -> Seq(Bucket)] /\ t.size \in Nat /\ c \in Seq(Bucket)
  BY DEF TableOK, Keyed
<1>3. \A u \in 0 .. t.size - 1 : r.chain[u] = IF u = v THEN c ELSE t.chain[u]
  BY <1>1, <1>2
<1>4. r \in [size : Nat, count : Int, chain : [0 .. r.size - 1 -> Seq(Bucket)]]
  BY <1>1, <1>2 DEF Changed
<1>6. TableOK(r)
  <2>1. ASSUME NEW u \in 0 .. r.size - 1
        PROVE  Keyed(r.chain[u]) /\ Hashes(r.chain[u], u, r.size)
    <3>1. CASE u = v
      BY <3>1, <1>1, <1>3
    <3>2. CASE u # v
      BY <3>2, <1>1, <1>3 DEF TableOK
    <3> QED BY <3>1, <3>2
  <2> QED BY <2>1, <1>4 DEF TableOK
<1> QED BY <1>1, <1>3, <1>6

\* ... which differs from the old one in the buckets of one key.
LEMMA OtherKeys ==
    ASSUME NEW t, TableOK(t), t.size # 0, NEW k \in Ids, NEW n \in Int,
           NEW c, Keyed(c), \A l, d : l # k => (In(c, l, d) <=> In(ChainOf(k, t), l, d)),
           NEW r, r = Changed(t, Val(k, t), c, n)
    PROVE  /\ TableOK(r) /\ r.size = t.size /\ r.count = n /\ ChainOf(k, r) = c
           /\ \A l \in Ids : l # k => hash_lookup(l, r) = hash_lookup(l, t)
<1>. DEFINE v == Val(k, t)
<1>1. v \in 0 .. t.size - 1 /\ ChainOf(k, t) = t.chain[v] /\ HashOf(k) % t.size = v
  BY ValIs DEF Val
<1>2. Hashes(c, v, t.size)
  <2>1. ASSUME NEW i \in 1 .. Len(c) PROVE HashOf(c[i].key) % t.size = v
    <3>1. CASE c[i].key = k
      BY <3>1, <1>1
    <3>2. CASE c[i].key # k
      <4>1. In(c, c[i].key, c[i].data)
        BY DEF In
      <4>2. In(t.chain[v], c[i].key, c[i].data)
        BY <3>2, <4>1, <1>1
      <4> QED BY <4>2, <1>1 DEF In, TableOK, Hashes
    <3> QED BY <3>1, <3>2
  <2> QED BY <2>1 DEF Hashes
<1>r. r = Changed(t, v, c, n)
  OBVIOUS
<1>. HIDE DEF v
<1>3. /\ TableOK(r) /\ r.size = t.size /\ r.count = n
      /\ \A u \in 0 .. t.size - 1 : r.chain[u] = IF u = v THEN c ELSE t.chain[u]
  BY <1>1, <1>2, <1>r, OtherChain
<1>4. \A l \in Ids : Val(l, r) = Val(l, t) /\ Val(l, t) \in 0 .. t.size - 1
  BY <1>3, ValIs DEF Val
<1>5. ASSUME NEW l \in Ids, l # k PROVE hash_lookup(l, r) = hash_lookup(l, t)
  <2>1. ChainOf(l, r) = IF Val(l, t) = v THEN c ELSE ChainOf(l, t)
    BY <1>3, <1>4 DEF ChainOf
  <2>2. Val(l, t) = v => ChainOf(l, t) = ChainOf(k, t)
    BY <1>1 DEF ChainOf
  <2>3. \A d : In(ChainOf(l, r), l, d) <=> In(ChainOf(l, t), l, d)
    BY <2>1, <2>2, <1>5
  <2> QED BY <2>3, <1>3, SameAnswer
<1>6. ChainOf(k, r) = c
  BY <1>1, <1>3, <1>4 DEF ChainOf, v
<1> QED BY <1>3, <1>5, <1>6

\* hash_insert gives the key its data and leaves the other keys alone; without
\* memory for a new bucket it does nothing.
LEMMA InsertIs ==
    ASSUME NEW t, TableOK(t), t.size # 0, NEW k \in Ids, NEW d \in Nat, NEW fails \in BOOLEAN
    PROVE  LET r == hash_insert(k, d, t, fails).table
           IN  /\ TableOK(r) /\ r.size = t.size
               /\ IF hash_lookup(k, t) = Null /\ fails THEN r = t
                  ELSE \A l \in Ids : hash_lookup(l, r) = IF l = k THEN d ELSE hash_lookup(l, t)
<1>r. PICK r : r = hash_insert(k, d, t, fails).table
  OBVIOUS
<1>. DEFINE c == ChainOf(k, t)
            i == At(k, t)
            v == Val(k, t)
<1>1. /\ Keyed(c) /\ i = Find(c, k) /\ v \in 0 .. t.size - 1 /\ c = t.chain[v]
      /\ hash_lookup(k, t) = Null <=> i = 0
  BY ValIs, LookupIs
<1>2. /\ t = [size |-> t.size, count |-> t.count, chain |-> t.chain]
      /\ t.count \in Int /\ t.chain \in [0 .. t.size - 1 -> Seq(Bucket)]
  BY DEF TableOK
<1>3. ASSUME NEW n \in Int, NEW s, Keyed(s), In(s, k, d),
             \A l, e : l # k => (In(s, l, e) <=> In(c, l, e)),
             r = Changed(t, v, s, n)
      PROVE  /\ TableOK(r) /\ r.size = t.size
             /\ \A l \in Ids : hash_lookup(l, r) = IF l = k THEN d ELSE hash_lookup(l, t)
  <2>1. /\ TableOK(r) /\ r.size = t.size /\ ChainOf(k, r) = s
        /\ \A l \in Ids : l # k => hash_lookup(l, r) = hash_lookup(l, t)
    BY <1>3, OtherKeys
  <2>2. hash_lookup(k, r) = d
    BY <2>1, <1>3, LookupIs
  <2> QED BY <2>1, <2>2
<1>4. CASE i # 0
  <2>1. i \in 1 .. Len(c) /\ c[i].key = k
    BY <1>1, <1>4, FindIs
  <2>2. PICK s : s = [c EXCEPT ![i] = [key |-> c[i].key, data |-> d]]
    OBVIOUS
  <2>3. /\ Keyed(s)
        /\ \A l, e : In(s, l, e) <=> IF l = k THEN e = d ELSE In(c, l, e)
    <3>. HIDE DEF c, i
    <3> QED BY SMTT(30), <1>1, <2>1, <2>2, Replaced
  <2>4. r = [t EXCEPT !.chain[v][i].data = d]
    BY <1>r, <1>4 DEF hash_insert
  <2>. HIDE DEF c, i, v
  <2>5. r = Changed(t, v, s, t.count)
    <3>1. c[i] \in Bucket /\ c \in Seq(Bucket)
      BY <2>1, <1>1 DEF Keyed
    <3>2. [c EXCEPT ![i].data = d] = s
      <4>1. [c[i] EXCEPT !.data = d] = [key |-> c[i].key, data |-> d]
        BY <3>1 DEF Bucket
      <4>2. [c EXCEPT ![i].data = d] = [c EXCEPT ![i] = [c[i] EXCEPT !.data = d]]
        BY <2>1, <3>1
      <4> QED BY <4>1, <4>2, <2>2
    <3>3. r = [t EXCEPT !.chain[v] = [c EXCEPT ![i].data = d]]
      BY <2>4, <1>1
    <3> QED BY <3>2, <3>3, <1>1, <1>2 DEF Changed
  <2>6. In(s, k, d) /\ \A l, e : l # k => (In(s, l, e) <=> In(c, l, e))
    BY <2>3
  <2> QED BY <1>1, <1>2, <1>3, <1>4, <1>r, <2>3, <2>5, <2>6
<1>5. CASE i = 0 /\ ~ fails
  <2>1. PICK s : s = <<[key |-> k, data |-> d]>> \o c
    OBVIOUS
  <2>2. /\ Keyed(s)
        /\ \A l, e : In(s, l, e) <=> (l = k /\ e = d) \/ In(c, l, e)
    <3>. HIDE DEF c, i
    <3> QED BY <1>1, <1>5, <2>1, PutFirst
  <2>3. r = [t EXCEPT !.chain[v] = <<[key |-> k, data |-> d]>> \o @, !.count = @ + 1]
    BY <1>r, <1>5 DEF hash_insert
  <2>. HIDE DEF c, i, v
  <2>4. r = Changed(t, v, s, t.count + 1)
    BY <2>3, <2>1, <1>1, <1>2 DEF Changed
  <2>5. In(s, k, d) /\ \A l, e : l # k => (In(s, l, e) <=> In(c, l, e))
    BY <2>2
  <2>6. t.count + 1 \in Int
    BY <1>2
  <2> QED BY <1>1, <1>2, <1>3, <1>5, <1>r, <2>2, <2>4, <2>5, <2>6
<1>6. CASE i = 0 /\ fails
  <2>1. r = t
    BY <1>r, <1>6 DEF hash_insert
  <2> QED BY <2>1, <1>1, <1>6, <1>r
<1> QED BY <1>4, <1>5, <1>6

\* hash_del returns the key's data, forgets them, and leaves the other keys alone.
LEMMA DelIs ==
    ASSUME NEW t, TableOK(t), t.size # 0, NEW k \in Ids
    PROVE  LET r == hash_del(k, t).table
           IN  /\ hash_del(k, t).result = hash_lookup(k, t)
               /\ TableOK(r) /\ r.size = t.size
               /\ hash_lookup(k, t) = Null => r = t
               /\ \A l \in Ids : hash_lookup(l, r) = IF l = k THEN Null ELSE hash_lookup(l, t)
<1>r. PICK r : r = hash_del(k, t).table
  OBVIOUS
<1>0. hash_del(k, t).result = hash_lookup(k, t)
  BY DEF hash_del
<1>. DEFINE c == ChainOf(k, t)
            i == At(k, t)
            v == Val(k, t)
<1>1. /\ Keyed(c) /\ i = Find(c, k) /\ v \in 0 .. t.size - 1 /\ c = t.chain[v]
      /\ hash_lookup(k, t) = Null <=> i = 0
  BY ValIs, LookupIs
<1>2. /\ t = [size |-> t.size, count |-> t.count, chain |-> t.chain]
      /\ t.count \in Int /\ t.chain \in [0 .. t.size - 1 -> Seq(Bucket)]
  BY DEF TableOK
<1>3. CASE i = 0
  <2>1. r = t
    BY <1>r, <1>3 DEF hash_del
  <2> QED BY <2>1, <1>0, <1>1, <1>3, <1>r
<1>4. CASE i # 0
  <2>1. i \in 1 .. Len(c) /\ c[i].key = k
    BY <1>1, <1>4, FindIs
  <2>2. PICK s : s = RemoveAt(c, i)
    OBVIOUS
  <2>3. /\ Keyed(s)
        /\ \A l, e : In(s, l, e) <=> l # k /\ In(c, l, e)
    <3>. HIDE DEF c, i
    <3> QED BY <1>1, <2>1, <2>2, TakenOut
  <2>4. r = [t EXCEPT !.chain[v] = RemoveAt(@, i), !.count = @ - 1]
    BY <1>r, <1>4 DEF hash_del
  <2>. HIDE DEF c, i, v
  <2>5. r = Changed(t, v, s, t.count - 1)
    BY <2>4, <2>2, <1>1, <1>2 DEF Changed
  <2>6. t.count - 1 \in Int /\ \A l, e : l # k => (In(s, l, e) <=> In(c, l, e))
    BY <1>2, <2>3
  <2>7. /\ TableOK(r) /\ r.size = t.size /\ ChainOf(k, r) = s
        /\ \A l \in Ids : l # k => hash_lookup(l, r) = hash_lookup(l, t)
    BY <2>3, <2>5, <2>6, OtherKeys DEF c, v
  <2>8. hash_lookup(k, r) = Null
    BY <2>3, <2>7, LookupIs
  <2> QED BY <1>0, <1>1, <1>4, <1>r, <2>7, <2>8
<1> QED BY <1>3, <1>4

-----------------------------------------------------------------------------
(***************************************************************************)
(* Enumeration.  FlattenSeq is a recursive function of the position: that  *)
(* there is one, and what it has at a position, is shown of the least      *)
(* position at which it were otherwise.                                    *)
(***************************************************************************)

FlatUpTo(f, s, n) == f = [i \in 1 .. n |-> IF i = 1 THEN s[i] ELSE f[i - 1] \o s[i]]

LEMMA FlatLonger ==
    ASSUME NEW s, NEW n \in Nat, \E f : FlatUpTo(f, s, n)
    PROVE  \E g : FlatUpTo(g, s, n + 1)
<1>1. PICK f : FlatUpTo(f, s, n)
  OBVIOUS
<1>. DEFINE G(i) == IF i = 1 THEN s[i] ELSE f[i - 1] \o s[i]
            g == [i \in 1 .. n + 1 |-> G(i)]
<1>2. \A i \in 1 .. n : f[i] = G(i)
  BY <1>1 DEF FlatUpTo
<1>3. \A i \in 1 .. n + 1 : g[i] = G(i)
  OBVIOUS
<1>4. ASSUME NEW i \in 1 .. n + 1 PROVE G(i) = IF i = 1 THEN s[i] ELSE g[i - 1] \o s[i]
  <2>1. CASE i = 1
    BY <2>1
  <2>2. CASE i # 1
    <3>1. i - 1 \in 1 .. n /\ i - 1 \in 1 .. n + 1
      BY <2>2
    <3>2. g[i - 1] = f[i - 1]
      BY <3>1, <1>2, <1>3
    <3> QED BY <2>2, <3>2
  <2> QED BY <2>1, <2>2
<1>5. FlatUpTo(g, s, n + 1)
  <2>. HIDE DEF G
  <2>1. [i \in 1 .. n + 1 |-> G(i)]
           = [i \in 1 .. n + 1 |-> IF i = 1 THEN s[i] ELSE g[i - 1] \o s[i]]
    <3>. HIDE DEF g
    <3> QED BY <1>4
  <2> QED BY <2>1 DEF FlatUpTo
<1> QED BY <1>5

LEMMA FlatExists ==
    ASSUME NEW s, NEW m \in Nat
    PROVE  \E f : FlatUpTo(f, s, m)
<1>. DEFINE Bad == {n \in Nat : ~ \E f : FlatUpTo(f, s, n)}
<1>1. SUFFICES ASSUME Bad # {} PROVE FALSE
  OBVIOUS
<1>2. PICK n \in Bad : \A k \in Bad : n <= k
  <2>1. Bad \in SUBSET Nat
    OBVIOUS
  <2>. HIDE DEF Bad
  <2> QED BY <1>1, <2>1, LeastNumber
<1>3. CASE n = 0
  <2>1. FlatUpTo(<<>>, s, 0)
    BY DEF FlatUpTo
  <2> QED BY <2>1, <1>3
<1>4. CASE n # 0
  <2>1. n - 1 \in Nat /\ ~ n <= n - 1 /\ (n - 1) + 1 = n
    BY <1>4
  <2>2. \E f : FlatUpTo(f, s, n - 1)
    BY <2>1, <1>2
  <2>3. \E f : FlatUpTo(f, s, (n - 1) + 1)
    BY <2>1, <2>2, FlatLonger
  <2> QED BY <2>1, <2>3
<1> QED BY <1>3, <1>4

LEMMA FlattenSeqIs ==
    ASSUME NEW s, Len(s) \in Nat \ {0}
    PROVE  \E f : FlatUpTo(f, s, Len(s)) /\ FlattenSeq(s) = f[Len(s)]
<1>1. \E f : FlatUpTo(f, s, Len(s))
  BY FlatExists
<1> QED BY <1>1, Zenon DEF FlatUpTo, FlattenSeq

\* Chains without a key in common, one after another.
LEMMA FlattenChains ==
    ASSUME NEW s, Len(s) \in Nat \ {0},
           \A m \in 1 .. Len(s) : Keyed(s[m]),
           \A m, n \in 1 .. Len(s) : \A k, d, e : In(s[m], k, d) /\ In(s[n], k, e) => m = n
    PROVE  /\ Keyed(FlattenSeq(s))
           /\ \A k, d : In(FlattenSeq(s), k, d) <=> \E m \in 1 .. Len(s) : In(s[m], k, d)
<1>1. PICK f : FlatUpTo(f, s, Len(s)) /\ FlattenSeq(s) = f[Len(s)]
  BY FlattenSeqIs
<1>2. \A n \in 1 .. Len(s) : f[n] = IF n = 1 THEN s[n] ELSE f[n - 1] \o s[n]
  BY <1>1 DEF FlatUpTo
<1>. DEFINE Good(n) == /\ Keyed(f[n])
                       /\ \A k, d : In(f[n], k, d) <=> \E m \in 1 .. n : In(s[m], k, d)
            Bad == {n \in 1 .. Len(s) : ~ Good(n)}
<1>3. ASSUME Bad # {} PROVE FALSE
  <2>. HIDE DEF Good
  <2>1. PICK n \in Bad : \A k \in Bad : n <= k
    <3>1. Bad \in SUBSET Nat
      OBVIOUS
    <3>. HIDE DEF Bad
    <3> QED BY <1>3, <3>1, LeastNumber
  <2>2. n \in 1 .. Len(s) /\ ~ Good(n) /\ \A k \in 1 .. Len(s) : ~ n <= k => Good(k)
    BY <2>1
  <2>3. CASE n = 1
    <3>1. f[n] = s[1] /\ Keyed(s[1])
      BY <2>2, <2>3, <1>2
    <3>2. \A m : m \in 1 .. n <=> m = 1
      BY <2>3
    <3>3. \A k, d : In(f[n], k, d) <=> \E m \in 1 .. n : In(s[m], k, d)
      BY <3>1, <3>2
    <3> QED BY <2>2, <3>1, <3>3 DEF Good
  <2>4. CASE n # 1
    <3>1. /\ n - 1 \in 1 .. Len(s) /\ ~ n <= n - 1
          /\ \A m : m \in 1 .. n <=> m \in 1 .. n - 1 \/ m = n
      BY <2>2, <2>4
    <3>2. /\ Keyed(f[n - 1])
          /\ \A k, d : In(f[n - 1], k, d) <=> \E m \in 1 .. n - 1 : In(s[m], k, d)
      BY <2>2, <3>1 DEF Good
    <3>3. f[n] = f[n - 1] \o s[n] /\ Keyed(s[n])
      BY <2>2, <2>4, <1>2
    <3>4. \A k, d, e : ~ (In(f[n - 1], k, d) /\ In(s[n], k, e))
      <4>1. \A m \in 1 .. n - 1 : m \in 1 .. Len(s) /\ m # n
        BY <2>2, <3>1
      <4> QED BY <4>1, <3>2, <2>2
    <3>a. PICK a : a = f[n - 1]
      OBVIOUS
    <3>b. PICK b : b = s[n]
      OBVIOUS
    <3>5. PICK c : c = a \o b
      OBVIOUS
    <3>6. /\ Keyed(c)
          /\ \A k, d : In(c, k, d) <=> In(a, k, d) \/ In(b, k, d)
      <4>1. Keyed(a) /\ Keyed(b) /\ \A k, d, e : ~ (In(a, k, d) /\ In(b, k, e))
        BY <3>2, <3>3, <3>4, <3>a, <3>b
      <4> QED BY <4>1, <3>5, Joined
    <3>7. \A k, d : In(c, k, d) <=> \E m \in 1 .. n : In(s[m], k, d)
      BY <3>1, <3>2, <3>6, <3>a, <3>b
    <3> QED BY <2>2, <3>3, <3>5, <3>6, <3>7, <3>a, <3>b DEF Good
  <2> QED BY <2>3, <2>4
<1>4. Good(Len(s))
  BY <1>3
<1> QED BY <1>1, <1>4

\* hash_enumerate gives every bucket of the table once.
LEMMA EnumerateIs ==
    ASSUME NEW t, TableOK(t)
    PROVE  LET all == hash_enumerate(t)
           IN  /\ Keyed(all) /\ (t.size = 0 => all = <<>>)
               /\ t.size # 0 => \A k, d :
                     In(all, k, d) <=> k \in Ids /\ d \in Nat /\ hash_lookup(k, t) = d
<1>. DEFINE s == [i \in 1 .. t.size |-> t.chain[i - 1]]
<1>0. t.size \in Nat /\ t.chain \in [0 .. t.size - 1 -> Seq(Bucket)]
  BY DEF TableOK
<1>1. Len(s) = t.size /\ \A i \in 1 .. t.size : s[i] = t.chain[i - 1]
  BY <1>0
<1>2. hash_enumerate(t) = FlattenSeq(s)
  BY DEF hash_enumerate
<1>3. CASE t.size = 0
  <2>1. s = <<>>
    BY <1>3
  <2>2. hash_enumerate(t) = <<>>
    BY <2>1, <1>2 DEF FlattenSeq
  <2> QED BY <2>2, <1>3 DEF Keyed
<1>4. CASE t.size # 0
  <2>. HIDE DEF s
  <2>1. \A i \in 1 .. t.size : i - 1 \in 0 .. t.size - 1
    BY <1>0
  <2>2. \A i \in 1 .. t.size : Keyed(s[i]) /\ \A k, d : In(s[i], k, d) => HashOf(k) % t.size = i - 1
    BY <2>1, <1>1 DEF TableOK, Hashes, In
  <2>3. ASSUME NEW m \in 1 .. t.size, NEW n \in 1 .. t.size, NEW k, NEW d, NEW e,
               In(s[m], k, d), In(s[n], k, e)
        PROVE  m = n
    <3>1. m - 1 = n - 1
      BY <2>2, <2>3
    <3> QED BY <3>1
  <2>4. /\ Keyed(FlattenSeq(s))
        /\ \A k, d : In(FlattenSeq(s), k, d) <=> \E m \in 1 .. t.size : In(s[m], k, d)
    <3>1. Len(s) \in Nat \ {0}
      BY <1>0, <1>1, <1>4
    <3>2. \A m \in 1 .. Len(s) : Keyed(s[m])
      BY <2>2, <1>1
    <3>3. \A m, n \in 1 .. Len(s) : \A k, d, e : In(s[m], k, d) /\ In(s[n], k, e) => m = n
      BY <2>3, <1>1
    <3>4. /\ Keyed(FlattenSeq(s))
          /\ \A k, d : In(FlattenSeq(s), k, d) <=> \E m \in 1 .. Len(s) : In(s[m], k, d)
      BY <3>1, <3>2, <3>3, FlattenChains
    <3> QED BY <3>4, <1>1
  <2>5. ASSUME NEW k, NEW d
        PROVE  (\E m \in 1 .. t.size : In(s[m], k, d))
                  <=> k \in Ids /\ d \in Nat /\ hash_lookup(k, t) = d
    <3>1. ASSUME NEW m \in 1 .. t.size, In(s[m], k, d)
          PROVE  k \in Ids /\ d \in Nat /\ hash_lookup(k, t) = d
      <4>1. k \in Ids /\ d \in Nat
        BY <3>1, <2>2, InIs
      <4>2. HashOf(k) % t.size = m - 1
        BY <3>1, <2>2
      <4>3. ChainOf(k, t) = s[m]
        BY <4>2, <1>1 DEF ChainOf, Val
      <4> QED BY <3>1, <4>1, <4>3, <1>4, LookupIs
    <3>2. ASSUME k \in Ids, d \in Nat, hash_lookup(k, t) = d
          PROVE  \E m \in 1 .. t.size : In(s[m], k, d)
      <4>1. In(ChainOf(k, t), k, d)
        BY <3>2, <1>4, LookupIs
      <4>2. Val(k, t) \in 0 .. t.size - 1 /\ ChainOf(k, t) = t.chain[Val(k, t)]
        BY <3>2, <1>4, ValIs
      <4>3. Val(k, t) + 1 \in 1 .. t.size /\ (Val(k, t) + 1) - 1 = Val(k, t)
        BY <4>2, <1>0
      <4>4. s[Val(k, t) + 1] = ChainOf(k, t)
        BY <4>2, <4>3, <1>1
      <4> QED BY <4>1, <4>3, <4>4
    <3> QED BY <3>1, <3>2
  <2> QED BY <1>2, <1>4, <2>4, <2>5
<1> QED BY <1>3, <1>4


-----------------------------------------------------------------------------
(***************************************************************************)
(* What the table and the heap say of the windows.                         *)
(***************************************************************************)

Rects == {Rect(at) : at \in Places}

KnownIds(t) == {k \in Ids : Data(t, k) # Null}

\* The data of the table are different objects of the heap.
Objects(t, h, n) ==
    /\ TableOK(t)
    /\ DOMAIN h \subseteq 1 .. n /\ h \in [DOMAIN h -> [pos : Rects, bar : 0 .. n]]
    /\ \A k \in KnownIds(t) : Data(t, k) \in DOMAIN h
    /\ \A k, l \in KnownIds(t) : Data(t, k) = Data(t, l) => k = l

\* New gives the least number that is not in the set.
LEMMA NewIs ==
    ASSUME NEW n \in Nat, n < MaxMessages, NEW S \in SUBSET (1 .. n)
    PROVE  New(S) \in 1 .. n + 1 /\ New(S) \notin S
<1>. DEFINE Free == (1 .. n + 1) \ S
            Is(m) == m \in 1 .. MaxMessages + 1 /\ m \notin S /\ \A k \in 1 .. m - 1 : k \in S
<1>0. MaxMessages \in Nat
  BY ClipperAssumption
<1>1. n + 1 \in Free /\ Free \in SUBSET Nat
  OBVIOUS
<1>2. PICK m \in Free : \A k \in Free : m <= k
  <2>. HIDE DEF Free
  <2> QED BY <1>1, LeastNumber
<1>3. m \in 1 .. MaxMessages + 1 /\ m \notin S /\ \A k \in 1 .. m - 1 : k \in S
  BY <1>0, <1>2
<1>4. /\ New(S) \in 1 .. MaxMessages + 1 /\ New(S) \notin S
      /\ \A k \in 1 .. New(S) - 1 : k \in S
  <2>1. \E x \in 1 .. MaxMessages + 1 : x \notin S /\ \A k \in 1 .. x - 1 : k \in S
    BY <1>3
  <2> QED BY <2>1, Zenon DEF New
<1>5. New(S) <= n + 1
  <2>1. ASSUME New(S) > n + 1 PROVE FALSE
    <3>1. n + 1 \in 1 .. New(S) - 1
      BY <2>1, <1>0, <1>4
    <3> QED BY <3>1, <1>4
  <2> QED BY <2>1, <1>0, <1>4
<1> QED BY <1>0, <1>4, <1>5

\* A new table knows nothing.
LEMMA EmptyTable ==
    ASSUME NEW n \in Nat
    PROVE  LET t == hash_construct_table(n)
           IN  TableOK(t) /\ t.size = n /\ \A k \in Ids : Data(t, k) = Null
<1>t. PICK t : t = hash_construct_table(n)
  OBVIOUS
<1>1. /\ t = [size |-> n, count |-> 0, chain |-> [val \in 0 .. n - 1 |-> <<>>]]
      /\ t.size = n /\ \A v \in 0 .. n - 1 : t.chain[v] = <<>>
  BY <1>t DEF hash_construct_table
<1>2. Keyed(<<>>) /\ \A v : Hashes(<<>>, v, n)
  BY DEF Keyed, Hashes
<1>3. t \in [size : Nat, count : Int, chain : [0 .. t.size - 1 -> Seq(Bucket)]]
  <2>1. <<>> \in Seq(Bucket)
    OBVIOUS
  <2>2. [val \in 0 .. n - 1 |-> <<>>] \in [0 .. n - 1 -> Seq(Bucket)]
    BY <2>1
  <2> QED BY <1>1, <2>2
<1>4. TableOK(t)
  BY <1>1, <1>2, <1>3 DEF TableOK
<1>5. ASSUME NEW k \in Ids PROVE Data(t, k) = Null
  <2>1. CASE n = 0
    BY <2>1, <1>1 DEF Data
  <2>2. CASE n # 0
    <3>1. Val(k, t) \in 0 .. t.size - 1 /\ ChainOf(k, t) = t.chain[Val(k, t)]
      BY <2>2, <1>1, <1>4, ValIs
    <3>2. ChainOf(k, t) = <<>>
      BY <3>1, <1>1
    <3>3. \A d : ~ In(ChainOf(k, t), k, d)
      BY <3>2 DEF In
    <3>4. hash_lookup(k, t) = Null
      BY <3>3, <2>2, <1>1, <1>4, LookupIs
    <3> QED BY <3>4 DEF Data
  <2> QED BY <2>1, <2>2
<1> QED BY <1>1, <1>4, <1>5, <1>t

\* The entries are the data of the known ids, one for each.
LEMMA EntriesAre ==
    ASSUME NEW t, TableOK(t), NEW all, all = hash_enumerate(t)
    PROVE  /\ all \in Seq(Bucket)
           /\ \A i \in 1 .. Len(all) :
                 all[i].key \in KnownIds(t) /\ all[i].data = Data(t, all[i].key)
           /\ \A k \in KnownIds(t) : \E i \in 1 .. Len(all) : all[i].key = k
           /\ \A i, j \in 1 .. Len(all) : all[i].key = all[j].key => i = j
<1>1. all \in Seq(Bucket) /\ \A i, j \in 1 .. Len(all) : all[i].key = all[j].key => i = j
  BY EnumerateIs DEF Keyed
<1>2. CASE t.size = 0
  <2>1. all = <<>>
    BY <1>2, EnumerateIs
  <2> QED BY <1>1, <1>2, <2>1 DEF KnownIds, Data
<1>3. CASE t.size # 0
  <2>1. \A k, d : In(all, k, d) <=> k \in Ids /\ d \in Nat /\ hash_lookup(k, t) = d
    BY <1>3, EnumerateIs
  <2>2. Null \notin Nat
    BY ClipperAssumption
  <2>3. ASSUME NEW i \in 1 .. Len(all)
        PROVE  all[i].key \in KnownIds(t) /\ all[i].data = Data(t, all[i].key)
    <3>1. In(all, all[i].key, all[i].data)
      BY DEF In
    <3>2. all[i].key \in Ids /\ all[i].data \in Nat /\ hash_lookup(all[i].key, t) = all[i].data
      BY <3>1, <2>1
    <3> QED BY <3>2, <2>2, <1>3 DEF KnownIds, Data
  <2>4. ASSUME NEW k \in KnownIds(t) PROVE \E i \in 1 .. Len(all) : all[i].key = k
    <3>1. k \in Ids /\ hash_lookup(k, t) # Null
      BY <1>3 DEF KnownIds, Data
    <3>2. hash_lookup(k, t) \in Nat
      BY <3>1, <1>3, LookupIs
    <3>3. In(all, k, hash_lookup(k, t))
      BY <3>1, <3>2, <2>1
    <3> QED BY <3>3 DEF In
  <2> QED BY <1>1, <2>3, <2>4
<1> QED BY <1>2, <1>3

LEMMA EntriesCount ==
    ASSUME NEW t, TableOK(t)
    PROVE  /\ IsFiniteSet(KnownIds(t))
           /\ Cardinality(KnownIds(t)) = Len(hash_enumerate(t))
<1>t. PICK all : all = hash_enumerate(t)
  OBVIOUS
<1>1. /\ all \in Seq(Bucket) /\ Len(all) \in Nat
      /\ \A i \in 1 .. Len(all) : all[i].key \in KnownIds(t)
      /\ \A k \in KnownIds(t) : \E i \in 1 .. Len(all) : all[i].key = k
      /\ \A i, j \in 1 .. Len(all) : all[i].key = all[j].key => i = j
  BY <1>t, EntriesAre
<1>. DEFINE f == [i \in 1 .. Len(all) |-> all[i].key]
<1>2. f \in Bijection(1 .. Len(all), KnownIds(t))
  BY <1>1 DEF Bijection, Injection, Surjection, IsInjective
<1>3. IsFiniteSet(1 .. Len(all)) /\ Cardinality(1 .. Len(all)) = Len(all)
  BY <1>1, FS_Interval
<1>4. ExistsBijection(1 .. Len(all), KnownIds(t))
  BY <1>2 DEF ExistsBijection
<1> QED BY <1>t, <1>3, <1>4, FS_Bijection

\* The region is what the map of windows shows.
LEMMA RegionIs ==
    ASSUME NEW t, NEW h, NEW n, Objects(t, h, n)
    PROVE  Region(t, h) = Map!Shown(Windows(t, h))
<1>t. PICK all : all = hash_enumerate(t)
  OBVIOUS
<1>. DEFINE w == Windows(t, h)
            known == {k \in Ids : w[k] # Null}
            rect(i) == LET d == h[all[i].data].pos IN Box(d[1], d[2], d[3], d[4])
<1>1. /\ all \in Seq(Bucket) /\ Len(all) \in Nat /\ DOMAIN all = 1 .. Len(all)
      /\ \A i \in 1 .. Len(all) :
            all[i].key \in KnownIds(t) /\ all[i].data = Data(t, all[i].key)
      /\ \A k \in KnownIds(t) : \E i \in 1 .. Len(all) : all[i].key = k
  BY <1>t, EntriesAre DEF Objects
<1>2. known = KnownIds(t) /\ \A k \in KnownIds(t) : w[k] = h[Data(t, k)].pos
  <2>1. ASSUME NEW k \in Ids, Data(t, k) # Null PROVE h[Data(t, k)].pos # Null
    <3>1. Data(t, k) \in DOMAIN h
      BY <2>1 DEF Objects, KnownIds
    <3>2. h[Data(t, k)].pos \in Rects
      BY <3>1 DEF Objects
    <3> QED BY <3>2, TitlesAssumption DEF Rects
  <2>. HIDE DEF rect
  <2> QED BY <2>1 DEF Windows, KnownIds
<1>3. all = <<>> <=> known = {}
  <2>1. ASSUME all # <<>> PROVE known # {}
    <3>1. 1 \in 1 .. Len(all)
      BY <2>1, <1>1
    <3> QED BY <3>1, <1>1, <1>2
  <2>2. ASSUME all = <<>> PROVE known = {}
    BY <2>2, <1>1, <1>2
  <2> QED BY <2>1, <2>2
<1>4. {rect(i) : i \in DOMAIN all} = {Box(w[k][1], w[k][2], w[k][3], w[k][4]) : k \in known}
  <2>1. ASSUME NEW i \in DOMAIN all
        PROVE  \E k \in known : rect(i) = Box(w[k][1], w[k][2], w[k][3], w[k][4])
    <3>1. /\ all[i].key \in known
          /\ rect(i) = Box(w[all[i].key][1], w[all[i].key][2], w[all[i].key][3], w[all[i].key][4])
      <4>1. all[i].key \in known /\ w[all[i].key] = h[all[i].data].pos
        <5>. HIDE DEF w, known
        <5> QED BY <1>1, <1>2
      <4> QED BY <4>1
    <3> QED BY <3>1
  <2>2. ASSUME NEW k \in known
        PROVE  \E i \in DOMAIN all : rect(i) = Box(w[k][1], w[k][2], w[k][3], w[k][4])
    <3>1. PICK i \in DOMAIN all : all[i].key = k
      BY <1>1, <1>2
    <3>2. w[k] = h[all[i].data].pos
      <4>. HIDE DEF w, known
      <4> QED BY <3>1, <1>1, <1>2
    <3> QED BY <3>2
  <2>. HIDE DEF rect, known, w
  <2> QED BY <2>1, <2>2
<1>5. Region(t, h) = IF all = <<>> /\ ~ ALWAYS_CLIP THEN Screen ELSE UNION {rect(i) : i \in DOMAIN all}
  BY <1>t DEF Region
<1>6. Map!Shown(w) = IF known = {} /\ ~ ALWAYS_CLIP THEN Screen
                     ELSE UNION {Box(w[k][1], w[k][2], w[k][3], w[k][4]) : k \in known}
  BY Zenon DEF Map!Shown
<1>. HIDE DEF rect, known, w
<1>7. Region(t, h) = Map!Shown(w)
  BY <1>3, <1>4, <1>5, <1>6
<1> QED BY <1>7 DEF w

-----------------------------------------------------------------------------
(***************************************************************************)
(* The messages' effect on the objects.  A message is about the window k.  *)
(***************************************************************************)

\* What is known of the other windows is as before.
Others(t, h, r, g, k) ==
    \A l \in Ids \ {k} :
        /\ Data(r, l) = Data(t, l)
        /\ Data(t, l) # Null =>
              Data(t, l) \in DOMAIN h /\ Data(t, l) \in DOMAIN g /\ g[Data(t, l)] = h[Data(t, l)]

LEMMA Updated ==
    ASSUME NEW t, NEW h, NEW n, Objects(t, h, n),
           NEW r, TableOK(r),
           NEW m, NEW g, DOMAIN g \subseteq 1 .. m, g \in [DOMAIN g -> [pos : Rects, bar : 0 .. m]],
           NEW k \in Ids, Others(t, h, r, g, k),
           Data(r, k) # Null =>
               Data(r, k) \in DOMAIN g /\ \A l \in KnownIds(t) \ {k} : Data(t, l) # Data(r, k)
    PROVE  /\ Objects(r, g, m)
           /\ \A l \in Ids \ {k} : Windows(r, g)[l] = Windows(t, h)[l]
<1>1. ASSUME NEW l \in KnownIds(r), l # k
      PROVE  l \in KnownIds(t) /\ Data(r, l) = Data(t, l) /\ Data(r, l) \in DOMAIN g
  BY <1>1 DEF Others, KnownIds
<1>2. \A l \in KnownIds(r) : Data(r, l) \in DOMAIN g
  BY <1>1 DEF KnownIds
<1>3. ASSUME NEW i \in KnownIds(r), NEW j \in KnownIds(r), Data(r, i) = Data(r, j) PROVE i = j
  <2>1. CASE i # k /\ j # k
    BY <2>1, <1>1, <1>3 DEF Objects
  <2>2. CASE i = k \/ j = k
    BY <2>2, <1>1, <1>3 DEF KnownIds
  <2> QED BY <2>1, <2>2
<1>4. Objects(r, g, m)
  BY <1>2, <1>3 DEF Objects
<1>5. \A l \in Ids \ {k} : Windows(r, g)[l] = Windows(t, h)[l]
  BY DEF Windows, Others
<1> QED BY <1>4, <1>5

\* A new object takes a free address.
LEMMA WithIs ==
    ASSUME NEW n \in Nat, n < MaxMessages, NEW t, NEW h, Objects(t, h, n),
           NEW wd \in [pos : Rects, bar : 0 .. n + 1],
           NEW a, a = New(DOMAIN h), NEW g, g = With(h, a, wd)
    PROVE  /\ a \in 1 .. n + 1 /\ a \notin DOMAIN h /\ DOMAIN g = DOMAIN h \cup {a}
           /\ g \in [DOMAIN g -> [pos : Rects, bar : 0 .. n + 1]] /\ DOMAIN g \subseteq 1 .. n + 1
           /\ g[a] = wd /\ \A d \in DOMAIN h : g[d] = h[d]
<1>1. DOMAIN h \in SUBSET (1 .. n) /\ h \in [DOMAIN h -> [pos : Rects, bar : 0 .. n]]
  BY DEF Objects
<1>2. a \in 1 .. n + 1 /\ a \notin DOMAIN h
  BY <1>1, NewIs
<1>3. /\ DOMAIN g = DOMAIN h \cup {a} /\ g[a] = wd /\ \A d \in DOMAIN h : g[d] = h[d]
      /\ g = [d \in DOMAIN g |-> g[d]]
  BY <1>2 DEF With
<1>4. [pos : Rects, bar : 0 .. n] \subseteq [pos : Rects, bar : 0 .. n + 1]
  OBVIOUS
<1>5. \A d \in DOMAIN g : g[d] \in [pos : Rects, bar : 0 .. n + 1]
  BY <1>1, <1>3, <1>4
<1>6. DOMAIN g \subseteq 1 .. n + 1
  BY <1>1, <1>2, <1>3
<1> QED BY <1>2, <1>3, <1>5, <1>6

\* An object that nobody gets to know of.
LEMMA LeakedIs ==
    ASSUME NEW n \in Nat, n < MaxMessages, NEW t, NEW h, Objects(t, h, n),
           NEW wd \in [pos : Rects, bar : 0 .. n + 1],
           NEW g, g = With(h, New(DOMAIN h), wd)
    PROVE  /\ Objects(t, g, n + 1) /\ Windows(t, g) = Windows(t, h)
           /\ \A k \in KnownIds(t) : g[Data(t, k)] = h[Data(t, k)]
<1>1. \A k \in KnownIds(t) : Data(t, k) \in DOMAIN h
  BY DEF Objects
<1>2. /\ \A d \in DOMAIN h : d \in DOMAIN g /\ g[d] = h[d]
      /\ g \in [DOMAIN g -> [pos : Rects, bar : 0 .. n + 1]] /\ DOMAIN g \subseteq 1 .. n + 1
  <2>1. PICK a : a = New(DOMAIN h)
    OBVIOUS
  <2>2. /\ DOMAIN g = DOMAIN h \cup {a} /\ \A d \in DOMAIN h : g[d] = h[d]
        /\ g \in [DOMAIN g -> [pos : Rects, bar : 0 .. n + 1]] /\ DOMAIN g \subseteq 1 .. n + 1
    <3>1. g = With(h, a, wd)
      BY <2>1
    <3> QED BY <2>1, <3>1, WithIs
  <2> QED BY <2>2
<1>3. Objects(t, g, n + 1)
  BY <1>1, <1>2 DEF Objects
<1>4. \A k \in KnownIds(t) : g[Data(t, k)] = h[Data(t, k)]
  BY <1>1, <1>2
<1>5. Windows(t, g) = Windows(t, h)
  BY <1>4 DEF Windows, KnownIds
<1> QED BY <1>3, <1>4, <1>5

LEMMA CreatedIs ==
    ASSUME NEW n \in Nat, n < MaxMessages, NEW t, NEW h, Objects(t, h, n), t.size # 0,
           NEW k \in Ids, NEW wd \in [pos : Rects, bar : 0 .. n + 1], NEW fails \in BOOLEAN,
           NEW a, a = New(DOMAIN h), NEW r, r = hash_insert(k, a, t, fails).table,
           NEW g, g = With(h, a, wd)
    PROVE  /\ Objects(r, g, n + 1) /\ r.size = t.size
           /\ Others(t, h, r, g, k)
           /\ \A l \in Ids \ {k} : Windows(r, g)[l] = Windows(t, h)[l]
           /\ ~ fails => Data(r, k) = a /\ g[a] = wd /\ Windows(r, g)[k] = wd.pos
<1>0. /\ a \in 1 .. n + 1 /\ a \notin DOMAIN h /\ DOMAIN g = DOMAIN h \cup {a}
      /\ g \in [DOMAIN g -> [pos : Rects, bar : 0 .. n + 1]] /\ DOMAIN g \subseteq 1 .. n + 1
      /\ g[a] = wd /\ \A d \in DOMAIN h : g[d] = h[d]
  BY WithIs
<1>1. a \in Nat /\ a # Null /\ TableOK(t)
  BY <1>0, ClipperAssumption DEF Objects
<1>2. /\ TableOK(r) /\ r.size = t.size
      /\ IF hash_lookup(k, t) = Null /\ fails THEN r = t
         ELSE \A l \in Ids : hash_lookup(l, r) = IF l = k THEN a ELSE hash_lookup(l, t)
  BY <1>1, InsertIs
<1>3. \A l \in Ids : Data(t, l) = hash_lookup(l, t) /\ Data(r, l) = hash_lookup(l, r)
  BY <1>2 DEF Data
<1>4. \A l \in KnownIds(t) : Data(t, l) \in DOMAIN h
  BY DEF Objects
<1>5. Others(t, h, r, g, k)
  <2>1. ASSUME NEW l \in Ids \ {k} PROVE Data(r, l) = Data(t, l)
    BY <1>2, <1>3
  <2>2. ASSUME NEW l \in Ids, Data(t, l) # Null
        PROVE  Data(t, l) \in DOMAIN h /\ Data(t, l) \in DOMAIN g /\ g[Data(t, l)] = h[Data(t, l)]
    BY <2>2, <1>0, <1>4 DEF KnownIds
  <2> QED BY <2>1, <2>2 DEF Others
<1>6. ASSUME Data(r, k) # Null
      PROVE  Data(r, k) \in DOMAIN g /\ \A l \in KnownIds(t) \ {k} : Data(t, l) # Data(r, k)
  <2>1. Data(r, k) = a
    BY <1>2, <1>3, <1>6
  <2> QED BY <2>1, <1>0, <1>4
<1>7. /\ Objects(r, g, n + 1)
      /\ \A l \in Ids \ {k} : Windows(r, g)[l] = Windows(t, h)[l]
  BY <1>0, <1>2, <1>5, <1>6, Updated
<1>8. ASSUME ~ fails PROVE Data(r, k) = a /\ Windows(r, g)[k] = wd.pos
  <2>1. Data(r, k) = a
    BY <1>2, <1>3, <1>8
  <2> QED BY <2>1, <1>0, <1>1 DEF Windows
<1> QED BY <1>0, <1>2, <1>5, <1>7, <1>8

LEMMA DestroyedIs ==
    ASSUME NEW n, NEW t, NEW h, Objects(t, h, n), t.size # 0,
           NEW k \in KnownIds(t), NEW r, r = hash_del(k, t).table,
           NEW g, g = Without(h, Data(t, k))
    PROVE  /\ Objects(r, g, n) /\ r.size = t.size
           /\ Others(t, h, r, g, k) /\ Data(r, k) = Null
           /\ \A l \in Ids \ {k} : Windows(r, g)[l] = Windows(t, h)[l]
           /\ Windows(r, g)[k] = Null
<1>1. k \in Ids /\ TableOK(t)
  BY DEF Objects, KnownIds
<1>2. /\ TableOK(r) /\ r.size = t.size
      /\ \A l \in Ids : hash_lookup(l, r) = IF l = k THEN Null ELSE hash_lookup(l, t)
  BY <1>1, DelIs
<1>3. \A l \in Ids : Data(t, l) = hash_lookup(l, t) /\ Data(r, l) = hash_lookup(l, r)
  BY <1>2 DEF Data
<1>4. /\ DOMAIN g = DOMAIN h \ {Data(t, k)} /\ \A d \in DOMAIN g : g[d] = h[d]
      /\ g = [d \in DOMAIN g |-> g[d]]
  BY DEF Without
<1>5. DOMAIN g \subseteq 1 .. n /\ g \in [DOMAIN g -> [pos : Rects, bar : 0 .. n]]
  BY <1>4 DEF Objects
<1>6. Others(t, h, r, g, k)
  <2>1. ASSUME NEW l \in Ids \ {k}, Data(t, l) # Null
        PROVE  Data(t, l) \in DOMAIN h /\ Data(t, l) \in DOMAIN g /\ g[Data(t, l)] = h[Data(t, l)]
    <3>1. Data(t, l) \in DOMAIN h /\ Data(t, l) # Data(t, k)
      BY <2>1 DEF Objects, KnownIds
    <3> QED BY <3>1, <1>4
  <2> QED BY <2>1, <1>2, <1>3 DEF Others
<1>7. Data(r, k) = Null
  BY <1>1, <1>2, <1>3
<1>8. Objects(r, g, n) /\ \A l \in Ids \ {k} : Windows(r, g)[l] = Windows(t, h)[l]
  BY <1>1, <1>2, <1>5, <1>6, <1>7, Updated
<1>9. Windows(r, g)[k] = Null
  BY <1>1, <1>7 DEF Windows
<1> QED BY <1>2, <1>6, <1>7, <1>8, <1>9

LEMMA MovedIs ==
    ASSUME NEW n, NEW t, NEW h, Objects(t, h, n), NEW k \in KnownIds(t), NEW pos \in Rects,
           NEW d, d = Data(t, k),
           NEW g, DOMAIN g = DOMAIN h, g[d] = [pos |-> pos, bar |-> h[d].bar],
           \A e \in DOMAIN h : e # d => g[e] = h[e], g = [e \in DOMAIN g |-> g[e]]
    PROVE  /\ Objects(t, g, n)
           /\ Others(t, h, t, g, k)
           /\ \A l \in Ids \ {k} : Windows(t, g)[l] = Windows(t, h)[l]
           /\ Windows(t, g)[k] = pos
<1>1. k \in Ids /\ TableOK(t) /\ d \in DOMAIN h /\ d # Null
  BY DEF Objects, KnownIds
<1>2. h \in [DOMAIN h -> [pos : Rects, bar : 0 .. n]] /\ DOMAIN h \subseteq 1 .. n
  BY DEF Objects
<1>5. g \in [DOMAIN g -> [pos : Rects, bar : 0 .. n]] /\ DOMAIN g \subseteq 1 .. n
  <2>1. [pos |-> pos, bar |-> h[d].bar] \in [pos : Rects, bar : 0 .. n]
    BY <1>1, <1>2
  <2>2. \A e \in DOMAIN g : g[e] \in [pos : Rects, bar : 0 .. n]
    BY <2>1, <1>2
  <2> QED BY <2>2, <1>2
<1>6. Others(t, h, t, g, k)
  <2>1. ASSUME NEW l \in Ids \ {k}, Data(t, l) # Null
        PROVE  Data(t, l) \in DOMAIN h /\ Data(t, l) # d
    BY <2>1 DEF Objects, KnownIds
  <2> QED BY <2>1 DEF Others
<1>7. Data(t, k) \in DOMAIN g /\ \A l \in KnownIds(t) \ {k} : Data(t, l) # Data(t, k)
  BY <1>1 DEF Objects
<1>8. Objects(t, g, n) /\ \A l \in Ids \ {k} : Windows(t, g)[l] = Windows(t, h)[l]
  BY <1>1, <1>5, <1>6, <1>7, Updated
<1>9. Windows(t, g)[k] = pos
  <2>1. g[Data(t, k)].pos = pos
    OBVIOUS
  <2> QED BY <2>1, <1>1 DEF Windows
<1> QED BY <1>6, <1>8, <1>9

-----------------------------------------------------------------------------
(***************************************************************************)
(* The taskbar.                                                            *)
(***************************************************************************)

Bar(t, h, k) == h[Data(t, k)].bar

\* Each taskbar window is that of one window of the table; those without one
\* are as many as there were failures, at most.
Taskbar(t, h, b, f) ==
    /\ b = {Bar(t, h, k) : k \in KnownIds(t)} \ {0}
    /\ \A k, l \in KnownIds(t) : Bar(t, h, k) = Bar(t, h, l) /\ Bar(t, h, k) # 0 => k = l
    /\ Cardinality(KnownIds(t)) <= Cardinality(b) + f

LEMMA TaskbarKept ==
    ASSUME NEW t, NEW h, NEW b, NEW f, Taskbar(t, h, b, f),
           NEW r, NEW g, KnownIds(r) = KnownIds(t),
           \A k \in KnownIds(t) : Bar(r, g, k) = Bar(t, h, k)
    PROVE  Taskbar(r, g, b, f)
<1>1. {Bar(r, g, k) : k \in KnownIds(r)} = {Bar(t, h, k) : k \in KnownIds(t)}
  OBVIOUS
<1> QED BY <1>1 DEF Taskbar

LEMMA TaskbarCreated ==
    ASSUME NEW t, TableOK(t), NEW h, NEW b, IsFiniteSet(b), NEW f \in Nat, Taskbar(t, h, b, f),
           NEW k, k \notin KnownIds(t),
           NEW r, NEW g, KnownIds(r) = KnownIds(t) \cup {k},
           \A l \in KnownIds(t) : Bar(r, g, l) = Bar(t, h, l),
           NEW bar \in Nat, bar \notin b, Bar(r, g, k) = bar,
           NEW c, c = b \cup ({bar} \ {0}), NEW e, e = f + (IF bar = 0 THEN 1 ELSE 0)
    PROVE  Taskbar(r, g, c, e)
<1>1. c = {Bar(r, g, l) : l \in KnownIds(r)} \ {0}
  <2>1. {Bar(r, g, l) : l \in KnownIds(r)} = {Bar(t, h, l) : l \in KnownIds(t)} \cup {bar}
    OBVIOUS
  <2> QED BY <2>1 DEF Taskbar
<1>2. ASSUME NEW i \in KnownIds(r), NEW j \in KnownIds(r),
             Bar(r, g, i) = Bar(r, g, j), Bar(r, g, i) # 0
      PROVE  i = j
  <2>1. \A l \in KnownIds(t) : Bar(r, g, l) # 0 => Bar(r, g, l) # bar
    BY DEF Taskbar
  <2>2. CASE i \in KnownIds(t) /\ j \in KnownIds(t)
    BY <2>2, <1>2 DEF Taskbar
  <2>3. CASE i = k \/ j = k
    BY <2>1, <2>3, <1>2
  <2> QED BY <2>2, <2>3
<1>3. Cardinality(KnownIds(r)) <= Cardinality(c) + e
  <2>1. IsFiniteSet(KnownIds(t))
    BY EntriesCount
  <2>2. Cardinality(KnownIds(r)) = Cardinality(KnownIds(t)) + 1
    BY <2>1, FS_AddElement
  <2>3. Cardinality(KnownIds(t)) \in Nat /\ Cardinality(b) \in Nat
    BY <2>1, FS_CardinalityType
  <2>4. Cardinality(KnownIds(t)) <= Cardinality(b) + f
    BY DEF Taskbar
  <2>5. CASE bar = 0
    <3>1. c = b /\ e = f + 1
      BY <2>5
    <3> QED BY <3>1, <2>2, <2>3, <2>4
  <2>6. CASE bar # 0
    <3>1. c = b \cup {bar} /\ e = f
      BY <2>6
    <3>2. Cardinality(c) = Cardinality(b) + 1
      BY <3>1, FS_AddElement
    <3> QED BY <3>1, <3>2, <2>2, <2>3, <2>4
  <2> QED BY <2>5, <2>6
<1> QED BY <1>1, <1>2, <1>3 DEF Taskbar

LEMMA TaskbarDestroyed ==
    ASSUME NEW t, TableOK(t), NEW h, NEW b, IsFiniteSet(b), NEW f \in Nat, Taskbar(t, h, b, f),
           NEW k \in KnownIds(t),
           NEW r, NEW g, KnownIds(r) = KnownIds(t) \ {k},
           \A l \in KnownIds(r) : Bar(r, g, l) = Bar(t, h, l),
           NEW c, c = b \ {Bar(t, h, k)}
    PROVE  Taskbar(r, g, c, f)
<1>1. c = {Bar(r, g, l) : l \in KnownIds(r)} \ {0}
  <2>1. b = {Bar(t, h, l) : l \in KnownIds(t)} \ {0}
    BY DEF Taskbar
  <2>2. \A l \in KnownIds(r) : Bar(t, h, l) # 0 => Bar(t, h, l) # Bar(t, h, k)
    BY DEF Taskbar
  <2>3. ASSUME NEW x \in c PROVE x \in {Bar(r, g, l) : l \in KnownIds(r)} \ {0}
    <3>1. PICK l \in KnownIds(t) : x = Bar(t, h, l)
      BY <2>1, <2>3
    <3>2. l \in KnownIds(r) /\ x # 0
      BY <3>1, <2>1, <2>3
    <3> QED BY <3>1, <3>2
  <2>4. ASSUME NEW x \in {Bar(r, g, l) : l \in KnownIds(r)} \ {0} PROVE x \in c
    <3>1. PICK l \in KnownIds(r) : x = Bar(r, g, l) /\ x # 0
      BY <2>4
    <3>2. x = Bar(t, h, l) /\ l \in KnownIds(t)
      BY <3>1
    <3> QED BY <3>1, <3>2, <2>1, <2>2
  <2> QED BY <2>3, <2>4
<1>2. ASSUME NEW i \in KnownIds(r), NEW j \in KnownIds(r),
             Bar(r, g, i) = Bar(r, g, j), Bar(r, g, i) # 0
      PROVE  i = j
  BY <1>2 DEF Taskbar
<1>3. Cardinality(KnownIds(r)) <= Cardinality(c) + f
  <2>1. IsFiniteSet(KnownIds(t))
    BY EntriesCount
  <2>2. Cardinality(KnownIds(r)) = Cardinality(KnownIds(t)) - 1
    BY <2>1, FS_RemoveElement
  <2>3. Cardinality(KnownIds(t)) \in Nat /\ Cardinality(b) \in Nat
    BY <2>1, FS_CardinalityType
  <2>5. PICK x : x = Bar(t, h, k)
    OBVIOUS
  <2>6. Cardinality(c) = IF x \in b THEN Cardinality(b) - 1 ELSE Cardinality(b)
    <3>1. Cardinality(b \ {x}) = IF x \in b THEN Cardinality(b) - 1 ELSE Cardinality(b)
      BY FS_RemoveElement
    <3> QED BY <3>1, <2>5
  <2>4. Cardinality(KnownIds(t)) <= Cardinality(b) + f
    BY DEF Taskbar
  <2> QED BY <2>2, <2>3, <2>4, <2>6
<1> QED BY <1>1, <1>2, <1>3 DEF Taskbar

-----------------------------------------------------------------------------
(***************************************************************************)
(* The count of the table.                                                 *)
(***************************************************************************)

CountOK(t) == t.count = Cardinality(KnownIds(t))

LEMMA InsertCount ==
    ASSUME NEW t, TableOK(t), t.size # 0, NEW k \in Ids, NEW d \in Nat, NEW fails \in BOOLEAN
    PROVE  hash_insert(k, d, t, fails).table.count
              = IF hash_lookup(k, t) = Null /\ ~ fails THEN t.count + 1 ELSE t.count
<1>r. PICK r : r = hash_insert(k, d, t, fails).table
  OBVIOUS
<1>1. t = [size |-> t.size, count |-> t.count, chain |-> t.chain]
  BY DEF TableOK
<1>2. hash_lookup(k, t) = Null <=> At(k, t) = 0
  BY LookupIs
<1>3. CASE At(k, t) # 0
  <2>1. r = [t EXCEPT !.chain[Val(k, t)][At(k, t)].data = d]
    BY <1>3, <1>r DEF hash_insert
  <2> QED BY <2>1, <1>1, <1>2, <1>3, <1>r
<1>4. CASE At(k, t) = 0 /\ fails
  <2>1. r = t
    BY <1>4, <1>r DEF hash_insert
  <2> QED BY <2>1, <1>4, <1>r
<1>5. CASE At(k, t) = 0 /\ ~ fails
  <2>1. r = [t EXCEPT !.chain[Val(k, t)] = <<[key |-> k, data |-> d]>> \o @, !.count = @ + 1]
    BY <1>5, <1>r DEF hash_insert
  <2> QED BY <2>1, <1>1, <1>2, <1>5, <1>r
<1> QED BY <1>3, <1>4, <1>5, <1>r

LEMMA DelCount ==
    ASSUME NEW t, TableOK(t), t.size # 0, NEW k \in Ids, NEW r, r = hash_del(k, t).table
    PROVE  r.count = IF hash_lookup(k, t) = Null THEN t.count ELSE t.count - 1
<1>1. t = [size |-> t.size, count |-> t.count, chain |-> t.chain]
  BY DEF TableOK
<1>2. hash_lookup(k, t) = Null <=> At(k, t) = 0
  BY LookupIs
<1>3. CASE At(k, t) = 0
  <2>1. r = t
    BY <1>3 DEF hash_del
  <2> QED BY <2>1, <1>2, <1>3
<1>4. CASE At(k, t) # 0
  <2>1. r = [t EXCEPT !.chain[Val(k, t)] = RemoveAt(@, At(k, t)), !.count = @ - 1]
    BY <1>4 DEF hash_del
  <2> QED BY <2>1, <1>1, <1>2, <1>4
<1> QED BY <1>3, <1>4

\* hash_insert and hash_del keep the count right.
LEMMA InsertCounts ==
    ASSUME NEW t, TableOK(t), t.size # 0, CountOK(t),
           NEW k \in Ids, NEW d \in Nat, NEW fails \in BOOLEAN
    PROVE  CountOK(hash_insert(k, d, t, fails).table)
<1>r. PICK r : r = hash_insert(k, d, t, fails).table
  OBVIOUS
<1>1. /\ TableOK(r) /\ r.size = t.size
      /\ IF hash_lookup(k, t) = Null /\ fails THEN r = t
         ELSE \A l \in Ids : hash_lookup(l, r) = IF l = k THEN d ELSE hash_lookup(l, t)
  BY <1>r, InsertIs
<1>2. r.count = IF hash_lookup(k, t) = Null /\ ~ fails THEN t.count + 1 ELSE t.count
  BY <1>r, InsertCount
<1>3. /\ KnownIds(t) = {l \in Ids : hash_lookup(l, t) # Null}
      /\ KnownIds(r) = {l \in Ids : hash_lookup(l, r) # Null}
  BY <1>1 DEF KnownIds, Data
<1>4. d # Null /\ IsFiniteSet(KnownIds(t)) /\ Cardinality(KnownIds(t)) = t.count
  BY EntriesCount, ClipperAssumption DEF CountOK
<1>5. CASE hash_lookup(k, t) = Null /\ fails
  BY <1>1, <1>5, <1>r
<1>6. CASE ~ (hash_lookup(k, t) = Null /\ fails)
  <2>1. KnownIds(r) = KnownIds(t) \cup {k}
    BY <1>1, <1>3, <1>4, <1>6
  <2>2. k \in KnownIds(t) <=> hash_lookup(k, t) # Null
    BY <1>3
  <2>3. Cardinality(KnownIds(t) \cup {k}) = IF k \in KnownIds(t) THEN t.count ELSE t.count + 1
    BY <1>4, FS_AddElement
  <2>4. CountOK(r)
    BY <2>1, <2>2, <2>3, <1>2, <1>6 DEF CountOK
  <2> QED BY <2>4, <1>r
<1> QED BY <1>5, <1>6

LEMMA DelCounts ==
    ASSUME NEW t, TableOK(t), t.size # 0, CountOK(t), NEW k \in Ids
    PROVE  CountOK(hash_del(k, t).table)
<1>r. PICK r : r = hash_del(k, t).table
  OBVIOUS
<1>1. /\ TableOK(r) /\ r.size = t.size
      /\ \A l \in Ids : hash_lookup(l, r) = IF l = k THEN Null ELSE hash_lookup(l, t)
  BY <1>r, DelIs
<1>2. r.count = IF hash_lookup(k, t) = Null THEN t.count ELSE t.count - 1
  BY <1>r, DelCount
<1>3. /\ KnownIds(t) = {l \in Ids : hash_lookup(l, t) # Null}
      /\ KnownIds(r) = {l \in Ids : hash_lookup(l, r) # Null}
  BY <1>1 DEF KnownIds, Data
<1>4. IsFiniteSet(KnownIds(t)) /\ Cardinality(KnownIds(t)) = t.count
  BY EntriesCount DEF CountOK
<1>5. KnownIds(r) = KnownIds(t) \ {k}
  BY <1>1, <1>3
<1>6. k \in KnownIds(t) <=> hash_lookup(k, t) # Null
  BY <1>3
<1>7. Cardinality(KnownIds(t) \ {k}) = IF k \in KnownIds(t) THEN t.count - 1 ELSE t.count
  BY <1>4, FS_RemoveElement
<1>8. CountOK(r)
  BY <1>2, <1>5, <1>6, <1>7 DEF CountOK
<1> QED BY <1>8, <1>r

-----------------------------------------------------------------------------
(***************************************************************************)
(* Sorting: by their ranks, the numbers of those that are not above them,  *)
(* things in an order can be put one behind the other.                     *)
(***************************************************************************)

LEMMA Ranking ==
    ASSUME NEW n \in Nat, NEW R,
           \A i, j \in 1 .. n : i # j <=> <<i, j>> \in R \/ <<j, i>> \in R,
           \A i, j, k \in 1 .. n : <<i, j>> \in R /\ <<j, k>> \in R => <<i, k>> \in R
    PROVE  \E p \in Bijection(1 .. n, 1 .. n) : \A i, j \in 1 .. n : i < j => <<p[j], p[i]>> \notin R
<1>. DEFINE Below(i) == {j \in 1 .. n : j = i \/ <<j, i>> \in R}
            f == [i \in 1 .. n |-> Cardinality(Below(i))]
<1>1. IsFiniteSet(1 .. n) /\ Cardinality(1 .. n) = n
  BY FS_Interval
<1>2. ASSUME NEW i \in 1 .. n
      PROVE  IsFiniteSet(Below(i)) /\ Cardinality(Below(i)) \in 1 .. n
  <2>1. Below(i) \in SUBSET (1 .. n) /\ i \in Below(i)
    OBVIOUS
  <2>. HIDE DEF Below
  <2>2. IsFiniteSet(Below(i)) /\ Cardinality(Below(i)) <= n
    BY <1>1, <2>1, FS_Subset
  <2>3. Cardinality(Below(i)) \in Nat /\ Cardinality(Below(i)) # 0
    BY <2>1, <2>2, FS_CardinalityType, FS_EmptySet
  <2> QED BY <2>2, <2>3
<1>3. ASSUME NEW i \in 1 .. n, NEW j \in 1 .. n, <<i, j>> \in R
      PROVE  Cardinality(Below(i)) < Cardinality(Below(j))
  <2>1. <<j, i>> \notin R /\ i # j
    BY <1>3
  <2>2. Below(i) \in SUBSET Below(j) /\ j \notin Below(i) /\ j \in Below(j)
    BY <1>3, <2>1
  <2>. HIDE DEF Below
  <2>3. /\ IsFiniteSet(Below(j))
        /\ Cardinality(Below(i)) \in Nat /\ Cardinality(Below(j)) \in Nat
    BY <1>2
  <2>4. /\ Cardinality(Below(i)) <= Cardinality(Below(j))
        /\ Cardinality(Below(j)) = Cardinality(Below(i)) => Below(j) = Below(i)
    BY <2>2, <2>3, FS_Subset
  <2> QED BY <2>2, <2>3, <2>4
<1>4. /\ f \in [1 .. n -> 1 .. n]
      /\ \A i, j \in 1 .. n : <<i, j>> \in R => f[i] < f[j]
  <2>. HIDE DEF Below
  <2> QED BY <1>2, <1>3
<1>. HIDE DEF f, Below
<1>5. \A i, j \in 1 .. n : f[i] = f[j] => i = j
  <2>1. ASSUME NEW i \in 1 .. n, NEW j \in 1 .. n, f[i] = f[j], i # j PROVE FALSE
    <3>1. f[i] < f[j] \/ f[j] < f[i]
      BY <2>1, <1>4
    <3>2. f[i] \in 1 .. n
      BY <1>4
    <3> QED BY <2>1, <3>1, <3>2
  <2> QED BY <2>1
<1>6. f \in Injection(1 .. n, 1 .. n)
  BY <1>4, <1>5 DEF Injection, IsInjective
<1>7. f \in Surjection(1 .. n, 1 .. n)
  BY <1>1, <1>6, FS_Injection
<1>8. \A k \in 1 .. n : \E i \in 1 .. n : f[i] = k
  BY <1>7 DEF Surjection
<1>. DEFINE p == [k \in 1 .. n |-> CHOOSE i \in 1 .. n : f[i] = k]
<1>9. p \in [1 .. n -> 1 .. n] /\ \A k \in 1 .. n : f[p[k]] = k
  BY <1>8
<1>. HIDE DEF p
<1>10. \A i \in 1 .. n : p[f[i]] = i
  BY <1>4, <1>5, <1>9
<1>11. p \in Bijection(1 .. n, 1 .. n)
  <2>1. p \in Injection(1 .. n, 1 .. n)
    <3>1. \A k, l \in 1 .. n : p[k] = p[l] => k = l
      BY <1>9
    <3> QED BY <3>1, <1>9 DEF Injection, IsInjective
  <2>2. p \in Surjection(1 .. n, 1 .. n)
    <3>1. \A i \in 1 .. n : \E k \in 1 .. n : p[k] = i
      BY <1>4, <1>10
    <3> QED BY <3>1, <1>9 DEF Surjection
  <2> QED BY <2>1, <2>2 DEF Bijection
<1>12. ASSUME NEW i \in 1 .. n, NEW j \in 1 .. n, i < j, <<p[j], p[i]>> \in R PROVE FALSE
  <2>1. p[i] \in 1 .. n /\ p[j] \in 1 .. n
    BY <1>9
  <2>2. f[p[j]] < f[p[i]]
    BY <2>1, <1>4, <1>12
  <2>3. j < i
    BY <2>2, <1>9
  <2> QED BY <2>3, <1>12
<1> QED BY <1>11, <1>12

\* hash_sorted_enum's qsort gives the same buckets in the order of their keys.
LEMMA qsortIs ==
    ASSUME NEW s, Keyed(s), NEW r, r = qsort(s)
    PROVE  /\ Len(r) = Len(s) /\ ToSet(r) = ToSet(s)
           /\ \A i \in 1 .. Len(r) - 1 : Less(r[i].key, r[i + 1].key)
<1>n. PICK n : n = Len(s)
  OBVIOUS
<1>1. /\ n \in Nat /\ DOMAIN s = 1 .. n
      /\ \A i \in 1 .. n : s[i].key \in Ids
      /\ \A i, j \in 1 .. n : s[i].key = s[j].key => i = j
  <2>1. s \in Seq(Bucket) /\ n \in Nat /\ DOMAIN s = 1 .. n
    BY <1>n DEF Keyed
  <2>2. \A i \in 1 .. n : s[i] \in Bucket
    BY <2>1, <1>n
  <2> QED BY <2>1, <2>2, <1>n DEF Keyed, Bucket
<1>. DEFINE R == {e \in (1 .. n) \X (1 .. n) : Less(s[e[1]].key, s[e[2]].key)}
            Ordered(p) == \A i, j \in 1 .. n : i < j => ~ Less(s[p[j]].key, s[p[i]].key)
            order == CHOOSE p \in Bijection(1 .. n, 1 .. n) : Ordered(p)
<1>2. \A i, j \in 1 .. n : <<i, j>> \in R <=> Less(s[i].key, s[j].key)
  OBVIOUS
<1>3. /\ \A i, j \in 1 .. n : i # j <=> <<i, j>> \in R \/ <<j, i>> \in R
      /\ \A i, j, k \in 1 .. n : <<i, j>> \in R /\ <<j, k>> \in R => <<i, k>> \in R
  <2>. HIDE DEF R
  <2>1. \A i, j \in 1 .. n : i # j <=> s[i].key # s[j].key
    BY <1>1
  <2> QED BY <2>1, <1>1, <1>2, OrderAssumption
<1>4. \E p \in Bijection(1 .. n, 1 .. n) : Ordered(p)
  <2>. HIDE DEF R
  <2>1. PICK p \in Bijection(1 .. n, 1 .. n) :
            \A i, j \in 1 .. n : i < j => <<p[j], p[i]>> \notin R
    BY <1>1, <1>3, Ranking
  <2>2. p \in [1 .. n -> 1 .. n]
    BY <2>1 DEF Bijection, Injection
  <2>3. Ordered(p)
    BY <2>1, <2>2, <1>2
  <2> QED BY <2>3
<1>5. order \in Bijection(1 .. n, 1 .. n) /\ Ordered(order)
  <2>. HIDE DEF Ordered
  <2> QED BY <1>4
<1>6. r = [i \in 1 .. n |-> s[order[i]]]
  BY <1>1 DEF qsort
<1>. HIDE DEF order, R
<1>7. /\ order \in [1 .. n -> 1 .. n]
      /\ \A i, j \in 1 .. n : order[i] = order[j] => i = j
      /\ \A j \in 1 .. n : \E i \in 1 .. n : order[i] = j
  BY <1>5 DEF Bijection, Injection, IsInjective, Surjection
<1>8. Len(r) = n /\ DOMAIN r = 1 .. n /\ \A i \in 1 .. n : r[i] = s[order[i]]
  BY <1>1, <1>6
<1>9. ToSet(r) = ToSet(s)
  BY SMTT(30), <1>1, <1>7, <1>8 DEF ToSet
<1>10. ASSUME NEW i \in 1 .. n - 1 PROVE Less(r[i].key, r[i + 1].key)
  <2>1. i \in 1 .. n /\ i + 1 \in 1 .. n /\ i < i + 1 /\ i # i + 1
    BY <1>1
  <2>2. order[i] # order[i + 1] /\ order[i] \in 1 .. n /\ order[i + 1] \in 1 .. n
    BY <2>1, <1>7
  <2>3. ~ Less(s[order[i + 1]].key, s[order[i]].key)
    BY <2>1, <1>5
  <2>4. Less(s[order[i]].key, s[order[i + 1]].key)
    BY <2>2, <2>3, <1>2, <1>3
  <2> QED BY <2>1, <2>4, <1>8
<1> QED BY <1>8, <1>9, <1>10, <1>n

-----------------------------------------------------------------------------
(***************************************************************************)
(* Freeing the table.  FoldLeft is a recursive function of a set of        *)
(* positions; that there is one is shown of the least number of positions  *)
(* for which there were none.                                              *)
(***************************************************************************)

FoldUpTo(f, base, s, n) ==
    f = [u \in SUBSET (1 .. n) |->
            IF u = {} THEN base ELSE free_node(f[u \ {Max(u)}], s[Max(u)])]

\* A set of numbers up to n + 1 is one of numbers up to n without its greatest.
LEMMA WithoutMax ==
    ASSUME NEW n \in Nat, NEW u \in SUBSET (1 .. n + 1), u # {}
    PROVE  u \ {Max(u)} \in SUBSET (1 .. n) /\ Max(u) \in u
<1>. DEFINE Above == {m \in Nat : \A x \in u : x <= m}
<1>1. PICK m \in Above : \A k \in Above : m <= k
  <2>1. n + 1 \in Above /\ Above \in SUBSET Nat
    OBVIOUS
  <2>. HIDE DEF Above
  <2> QED BY <2>1, LeastNumber
<1>2. m \in u
  <2>1. SUFFICES ASSUME m \notin u PROVE FALSE
    OBVIOUS
  <2>2. \A x \in u : x \in 1 .. n + 1 /\ x <= m /\ x # m
    BY <1>1, <2>1
  <2>3. PICK x \in u : x \in 1 .. n + 1 /\ x <= m /\ x # m
    BY <2>2
  <2>4. m - 1 \in Nat /\ ~ m <= m - 1
    BY <2>3, <1>1
  <2>5. \A y \in u : y <= m - 1
    BY <2>2, <1>1
  <2> QED BY <2>4, <2>5, <1>1
<1>3. \E x \in u : \A y \in u : x >= y
  BY <1>1, <1>2
<1>4. Max(u) \in u /\ \A y \in u : Max(u) >= y
  BY <1>3, Zenon DEF Max
<1>5. ASSUME NEW x \in u, x # Max(u) PROVE x \in 1 .. n
  <2>1. Max(u) \in 1 .. n + 1 /\ x \in 1 .. n + 1 /\ Max(u) >= x
    BY <1>4
  <2> QED BY <2>1, <1>5
<1> QED BY <1>4, <1>5

LEMMA FoldLonger ==
    ASSUME NEW base, NEW s, NEW n \in Nat, \E f : FoldUpTo(f, base, s, n)
    PROVE  \E g : FoldUpTo(g, base, s, n + 1)
<1>1. PICK f : FoldUpTo(f, base, s, n)
  OBVIOUS
<1>. DEFINE G(u) == IF u = {} THEN base ELSE free_node(f[u \ {Max(u)}], s[Max(u)])
            g == [u \in SUBSET (1 .. n + 1) |-> G(u)]
<1>2. \A u \in SUBSET (1 .. n) : f[u] = G(u)
  <2>. HIDE DEF G
  <2>1. f = [u \in SUBSET (1 .. n) |-> G(u)]
    BY <1>1 DEF FoldUpTo, G
  <2> QED BY <2>1
<1>3. \A u \in SUBSET (1 .. n + 1) : g[u] = G(u)
  <2>. HIDE DEF G
  <2> QED OBVIOUS
<1>4. ASSUME NEW u \in SUBSET (1 .. n + 1)
      PROVE  G(u) = IF u = {} THEN base ELSE free_node(g[u \ {Max(u)}], s[Max(u)])
  <2>1. CASE u = {}
    BY <2>1
  <2>2. CASE u # {}
    <3>1. u \ {Max(u)} \in SUBSET (1 .. n)
      BY <2>2, WithoutMax
    <3>2. SUBSET (1 .. n) \subseteq SUBSET (1 .. n + 1)
      OBVIOUS
    <3>3. g[u \ {Max(u)}] = f[u \ {Max(u)}]
      <4>1. PICK v : v = u \ {Max(u)}
        OBVIOUS
      <4>. HIDE DEF g, G
      <4>2. v \in SUBSET (1 .. n) /\ v \in SUBSET (1 .. n + 1)
        BY <3>1, <3>2, <4>1
      <4>3. f[v] = G(v) /\ g[v] = G(v)
        BY <4>2, <1>2, <1>3
      <4> QED BY <4>1, <4>3
    <3>. HIDE DEF g
    <3> QED BY <2>2, <3>3
  <2> QED BY <2>1, <2>2
<1>5. FoldUpTo(g, base, s, n + 1)
  <2>. HIDE DEF G
  <2>1. [u \in SUBSET (1 .. n + 1) |-> G(u)]
           = [u \in SUBSET (1 .. n + 1) |->
                 IF u = {} THEN base ELSE free_node(g[u \ {Max(u)}], s[Max(u)])]
    <3>. HIDE DEF g
    <3> QED BY <1>4
  <2> QED BY <2>1 DEF FoldUpTo
<1> QED BY <1>5

LEMMA FoldExists ==
    ASSUME NEW base, NEW s, NEW m \in Nat
    PROVE  \E f : FoldUpTo(f, base, s, m)
<1>. DEFINE Bad == {n \in Nat : ~ \E f : FoldUpTo(f, base, s, n)}
<1>1. SUFFICES ASSUME Bad # {} PROVE FALSE
  OBVIOUS
<1>2. PICK n \in Bad : \A k \in Bad : n <= k
  <2>1. Bad \in SUBSET Nat
    OBVIOUS
  <2>. HIDE DEF Bad
  <2> QED BY <1>1, <2>1, LeastNumber
<1>3. CASE n = 0
  <2>. DEFINE f == [u \in SUBSET (1 .. 0) |-> base]
  <2>1. FoldUpTo(f, base, s, 0)
    <3>1. 1 .. 0 = {} /\ \A u \in SUBSET (1 .. 0) : u = {}
      OBVIOUS
    <3>. HIDE DEF f
    <3>2. [u \in SUBSET (1 .. 0) |-> base]
             = [u \in SUBSET (1 .. 0) |->
                   IF u = {} THEN base ELSE free_node(f[u \ {Max(u)}], s[Max(u)])]
      BY <3>1
    <3> QED BY <3>2 DEF FoldUpTo, f
  <2>2. \E g : FoldUpTo(g, base, s, 0)
    BY <2>1
  <2> QED BY <2>2, <1>3
<1>4. CASE n # 0
  <2>1. n - 1 \in Nat /\ ~ n <= n - 1 /\ (n - 1) + 1 = n
    BY <1>4
  <2>2. \E f : FoldUpTo(f, base, s, n - 1)
    BY <2>1, <1>2
  <2>3. \E f : FoldUpTo(f, base, s, (n - 1) + 1)
    BY <2>1, <2>2, FoldLonger
  <2> QED BY <2>1, <2>3
<1> QED BY <1>3, <1>4

LEMMA FoldLeftIs ==
    ASSUME NEW base, NEW s, NEW n \in Nat, DOMAIN s = 1 .. n
    PROVE  \E f : FoldUpTo(f, base, s, n) /\ FoldLeft(free_node, base, s) = f[1 .. n]
<1>. DEFINE fold == CHOOSE f : FoldUpTo(f, base, s, n)
<1>1. FoldUpTo(fold, base, s, n)
  <2>1. \E f : FoldUpTo(f, base, s, n)
    BY FoldExists
  <2> QED BY <2>1, Zenon
<1>2. FoldLeft(free_node, base, s) = fold[1 .. n]
  BY Zenon DEF FoldLeft, MapThenFoldSet, FoldUpTo
<1> QED BY <1>1, <1>2

\* One position after the other.
BySteps(g, base, s, n) ==
    /\ g[0] = base /\ FoldLeft(free_node, base, s) = g[n]
    /\ \A i \in 1 .. n : g[i] = free_node(g[i - 1], s[i])

LEMMA FoldBySteps ==
    ASSUME NEW base, NEW s, NEW n \in Nat, DOMAIN s = 1 .. n
    PROVE  \E g : BySteps(g, base, s, n)
<1>1. PICK f : FoldUpTo(f, base, s, n) /\ FoldLeft(free_node, base, s) = f[1 .. n]
  BY FoldLeftIs
<1>. DEFINE g == [i \in 0 .. n |-> f[1 .. i]]
<1>2. \A u \in SUBSET (1 .. n) :
          f[u] = IF u = {} THEN base ELSE free_node(f[u \ {Max(u)}], s[Max(u)])
  <2>. DEFINE G(u) == IF u = {} THEN base ELSE free_node(f[u \ {Max(u)}], s[Max(u)])
  <2>1. f = [u \in SUBSET (1 .. n) |-> G(u)]
    BY <1>1 DEF FoldUpTo
  <2>. HIDE DEF G
  <2>2. \A u \in SUBSET (1 .. n) : f[u] = G(u)
    BY <2>1
  <2> QED BY <2>2 DEF G
<1>3. g[0] = base
  <2>1. 1 .. 0 = {} /\ {} \in SUBSET (1 .. n) /\ 0 \in 0 .. n
    OBVIOUS
  <2>2. f[{}] = base
    BY <2>1, <1>2
  <2> QED BY <2>1, <2>2
<1>4. g[n] = f[1 .. n]
  OBVIOUS
<1>5. ASSUME NEW i \in 1 .. n PROVE g[i] = free_node(g[i - 1], s[i])
  <2>1. /\ 1 .. i \in SUBSET (1 .. n) /\ 1 .. i # {} /\ i \in Nat /\ i - 1 \in 0 .. n /\ i \in 0 .. n
        /\ (1 .. i) \ {i} = 1 .. i - 1
    <3>1. i \in Nat /\ i - 1 \in 0 .. n /\ i \in 0 .. n /\ i \in 1 .. i
      OBVIOUS
    <3>2. \A x \in 1 .. i : x \in 1 .. n
      OBVIOUS
    <3>3. \A x : x \in (1 .. i) \ {i} <=> x \in 1 .. i - 1
      BY <3>1
    <3> QED BY <3>1, <3>2, <3>3
  <2>2. Max(1 .. i) = i
    <3>1. i \in 1 .. i /\ (\A y \in 1 .. i : i >= y)
          /\ \A x \in 1 .. i : (\A y \in 1 .. i : x >= y) => x = i
      OBVIOUS
    <3> QED BY <3>1 DEF Max
  <2>3. PICK u : u = 1 .. i
    OBVIOUS
  <2>4. f[u] = free_node(f[u \ {Max(u)}], s[Max(u)])
    BY <2>1, <2>3, <1>2
  <2>5. f[1 .. i] = free_node(f[1 .. i - 1], s[i])
    BY <2>1, <2>2, <2>3, <2>4
  <2>6. g[i] = f[1 .. i] /\ g[i - 1] = f[1 .. i - 1]
    BY <2>1
  <2>. HIDE DEF g
  <2> QED BY <2>5, <2>6
<1>. HIDE DEF g
<1> QED BY <1>1, <1>3, <1>4, <1>5 DEF BySteps

\* hash_free_table deletes bucket by bucket what hash_enumerate passes; after the
\* i-th the others are still known, and their data have been given out in order.
LEMMA FreeTableIs ==
    ASSUME NEW t, TableOK(t), CountOK(t), NEW all, all = hash_enumerate(t)
    PROVE  /\ hash_free_table(t).left = 0
           /\ hash_free_table(t).freed = [i \in DOMAIN all |-> all[i].data]
<1>n. PICK n : n = Len(all)
  OBVIOUS
<1>1. /\ n \in Nat /\ DOMAIN all = 1 .. n
      /\ \A i \in 1 .. n : all[i].key \in KnownIds(t) /\ all[i].data = Data(t, all[i].key)
      /\ \A k \in KnownIds(t) : \E i \in 1 .. n : all[i].key = k
      /\ \A i, j \in 1 .. n : all[i].key = all[j].key => i = j
  BY <1>n, EntriesAre
<1>b. PICK base : base = [table |-> t, freed |-> <<>>]
  OBVIOUS
<1>g. PICK g : BySteps(g, base, all, n)
  <2>1. n \in Nat /\ DOMAIN all = 1 .. n
    BY <1>1
  <2> QED BY <2>1, FoldBySteps
<1>2. g[0] = base /\ \A i \in 1 .. n : g[i] = free_node(g[i - 1], all[i])
  BY <1>g DEF BySteps
<1>3. /\ hash_free_table(t).left = g[n].table.count
      /\ hash_free_table(t).freed = g[n].freed
  <2>1. FoldLeft(free_node, [table |-> t, freed |-> <<>>], hash_enumerate(t)) = g[n]
    BY <1>g, <1>b DEF BySteps
  <2> QED BY <2>1 DEF hash_free_table
<1>. DEFINE Good(i) ==
        /\ TableOK(g[i].table) /\ g[i].table.size = t.size /\ CountOK(g[i].table)
        /\ \A k \in Ids : Data(g[i].table, k)
                             = IF \E j \in 1 .. i : all[j].key = k THEN Null ELSE Data(t, k)
        /\ g[i].freed = [j \in 1 .. i |-> all[j].data]
<1>4. Good(0)
  <2>1. g[0].table = t /\ g[0].freed = <<>>
    BY <1>2, <1>b
  <2>2. 1 .. 0 = {} /\ <<>> = [j \in 1 .. 0 |-> all[j].data]
    OBVIOUS
  <2> QED BY <2>1, <2>2
<1>5. ASSUME NEW i \in 1 .. n, Good(i - 1) PROVE Good(i)
  <2>1. PICK u, k, d, s, f : u = g[i - 1].table /\ k = all[i].key /\ d = all[i].data
                             /\ s = g[i].table /\ f = g[i - 1].freed
    OBVIOUS
  <2>2. /\ TableOK(u) /\ u.size = t.size /\ CountOK(u)
        /\ \A l \in Ids : Data(u, l)
                             = IF \E j \in 1 .. i - 1 : all[j].key = l THEN Null ELSE Data(t, l)
        /\ f = [j \in 1 .. i - 1 |-> all[j].data]
    BY <1>5, <2>1
  <2>3. k \in Ids /\ k \in KnownIds(t) /\ d = Data(t, k) /\ d # Null /\ t.size # 0
    BY <1>1, <2>1 DEF KnownIds, Data
  <2>4. i \in Nat /\ i - 1 \in Nat /\ \A j : j \in 1 .. i <=> j \in 1 .. i - 1 \/ j = i
    BY <1>1
  <2>5. ~ \E j \in 1 .. i - 1 : all[j].key = k
    <3>1. \A j \in 1 .. i - 1 : j \in 1 .. n /\ j # i
      BY <1>1
    <3> QED BY <3>1, <1>1, <2>1
  <2>6. Data(u, k) = d /\ hash_lookup(k, u) = d
    BY <2>2, <2>3, <2>5 DEF Data
  <2>7. s = hash_del(k, u).table /\ g[i].freed = Append(f, hash_del(k, u).result)
    <3>1. g[i] = free_node(g[i - 1], all[i])
      BY <1>2
    <3> QED BY <3>1, <2>1 DEF free_node
  <2>8. /\ hash_del(k, u).result = d /\ TableOK(s) /\ s.size = t.size /\ CountOK(s)
        /\ \A l \in Ids : hash_lookup(l, s) = IF l = k THEN Null ELSE hash_lookup(l, u)
    BY <2>2, <2>3, <2>6, <2>7, DelIs, DelCounts
  <2>9. \A l \in Ids : Data(s, l)
                          = IF \E j \in 1 .. i : all[j].key = l THEN Null ELSE Data(t, l)
    <3>1. ASSUME NEW l \in Ids
          PROVE  Data(s, l) = IF \E j \in 1 .. i : all[j].key = l THEN Null ELSE Data(t, l)
      <4>1. Data(s, l) = IF l = k THEN Null ELSE Data(u, l)
        BY <2>2, <2>3, <2>8 DEF Data
      <4>2. (\E j \in 1 .. i : all[j].key = l) <=> l = k \/ \E j \in 1 .. i - 1 : all[j].key = l
        BY <2>1, <2>4
      <4> QED BY <4>1, <4>2, <2>2
    <3> QED BY <3>1
  <2>10. g[i].freed = [j \in 1 .. i |-> all[j].data]
    <3>1. g[i].freed = Append(f, d)
      BY <2>7, <2>8
    <3>2. /\ Len(f) = i - 1 /\ DOMAIN f = 1 .. i - 1
          /\ \A j \in 1 .. i - 1 : f[j] = all[j].data
      BY <2>2, <2>4
    <3>3. PICK h, S : h = Append(f, d) /\ S = {all[j].data : j \in 1 .. n}
      OBVIOUS
    <3>4. f \in Seq(S) /\ d \in S
      <4>1. \A j \in 1 .. i - 1 : all[j].data \in S
        BY <3>3, <1>1
      <4>2. f \in [1 .. i - 1 -> S]
        BY <4>1, <2>2
      <4>3. d \in S
        BY <3>3, <2>1
      <4>. QED BY <4>2, <4>3, <2>4
    <3>5. h \in Seq(S) /\ Len(h) = i /\ \A j \in 1 .. i - 1 : h[j] = f[j]
      BY <3>2, <3>3, <3>4, <2>4, AppendProperties
    <3>6. h[i] = d
      BY <3>2, <3>3, <3>4, <2>4, AppendProperties
    <3>7. \A j \in 1 .. i : h[j] = all[j].data
      BY <3>2, <3>5, <3>6, <2>1, <2>4
    <3>8. h = [j \in 1 .. i |-> all[j].data]
      <4>1. h = [j \in 1 .. i |-> h[j]]
        BY <3>5, <2>4
      <4> QED BY <4>1, <3>7
    <3> QED BY <3>1, <3>3, <3>8
  <2> QED BY <2>1, <2>8, <2>9, <2>10
<1>6. Good(n)
  <2>. DEFINE Bad == {i \in 0 .. n : ~ Good(i)}
  <2>. HIDE DEF Good
  <2>1. SUFFICES ASSUME Bad # {} PROVE FALSE
    BY <1>1
  <2>2. PICK i \in Bad : \A j \in Bad : i <= j
    <3>1. Bad \in SUBSET Nat
      BY <1>1
    <3>. HIDE DEF Bad
    <3> QED BY <2>1, <3>1, LeastNumber
  <2>3. i \in 0 .. n /\ ~ Good(i) /\ i # 0
    BY <2>2, <1>4
  <2>4. i \in 1 .. n /\ i - 1 \in 0 .. n /\ ~ i <= i - 1
    BY <2>3, <1>1
  <2>5. Good(i - 1)
    BY <2>2, <2>4
  <2> QED BY <2>3, <2>4, <2>5, <1>5
<1>7. g[n].table.count = 0
  <2>1. PICK s : s = g[n].table
    OBVIOUS
  <2>2. KnownIds(s) = {}
    <3>1. \A k \in KnownIds(t) : \E j \in 1 .. n : all[j].key = k
      BY <1>1
    <3>2. \A k \in Ids : Data(s, k)
                            = IF \E j \in 1 .. n : all[j].key = k THEN Null ELSE Data(t, k)
      BY <1>6, <2>1
    <3> QED BY <3>1, <3>2 DEF KnownIds
  <2>3. s.count = Cardinality({})
    BY <1>6, <2>1, <2>2 DEF CountOK
  <2> QED BY <2>1, <2>3, FS_EmptySet
<1> QED BY <1>1, <1>3, <1>6, <1>7

-----------------------------------------------------------------------------
(***************************************************************************)
(* The inductive invariant.                                                *)
(***************************************************************************)

\* The client knows the server's windows.
Follows(t, h, s) ==
    \A k \in Ids : Windows(t, h)[k] = IF s[k] = Null THEN Null ELSE Rect(s[k])

TypeInv ==
    /\ state \in {"new", "initialized", "failed", "open", "terminated", "crashed"}
    /\ m_ht.size = 0 <=> state = "new"
    /\ Objects(m_ht, heap, sent)
    /\ bars \subseteq 1 .. sent /\ sent \in 0 .. MaxMessages
    /\ m_mainWindow \in BOOLEAN /\ region \subseteq Screen
    /\ server \in [Ids -> Places \cup {Null}]
    /\ failures \in Nat /\ lost \in BOOLEAN

IInv ==
    /\ TypeInv
    /\ m_mainWindow => region = Region(m_ht, heap)
    /\ ~ lost => Follows(m_ht, heap, server) /\ Taskbar(m_ht, heap, bars, failures)
    /\ CrashOnlyAfterLoss

-----------------------------------------------------------------------------
(***************************************************************************)
(* The handlers.                                                           *)
(***************************************************************************)

\* What a message about the window id does; at is where the window is then.
Effect(id, at) ==
    /\ Objects(m_ht', heap', sent')
    /\ m_ht'.size = m_ht.size /\ bars' \subseteq 1 .. sent'
    /\ failures' \in Nat /\ lost' \in BOOLEAN /\ m_mainWindow' \in BOOLEAN
    /\ region' \subseteq Screen /\ (m_mainWindow' => region' = Region(m_ht', heap'))
    /\ \A l \in Ids \ {id} : Windows(m_ht', heap')[l] = Windows(m_ht, heap)[l]
    /\ ~ lost' => /\ ~ lost /\ Taskbar(m_ht', heap', bars', failures')
                  /\ Windows(m_ht', heap')[id] = IF at = Null THEN Null ELSE Rect(at)
    /\ state' = state \/ (state = "open" /\ state' = "crashed" /\ lost')

\* Of a message as it is parsed.
Wid(type, id, at) == [type |-> <<type>>, id |-> <<id>>, pos |-> Rect(at)]

LEMMA KeyIs ==
    ASSUME NEW type, NEW id, NEW at
    PROVE  Key(Wid(type, id, at)) = id /\ Wid(type, id, at).pos = Rect(at)
<1>1. Wid(type, id, at).id = <<id>> /\ 1 \in DOMAIN <<id>> /\ <<id>>[1] = id
  BY DEF Wid
<1>2. Wid(type, id, at).pos = Rect(at)
  BY DEF Wid
<1> QED BY <1>1, <1>2 DEF Key, Token

LEMMA RegionOnScreen ==
    ASSUME NEW t, NEW h PROVE Region(t, h) \subseteq Screen
<1>. DEFINE all == hash_enumerate(t)
            rect(i) == LET d == h[all[i].data].pos IN Box(d[1], d[2], d[3], d[4])
<1>1. \A i : rect(i) \subseteq Screen
  BY DEF Box
<1>2. Region(t, h) = IF all = <<>> /\ ~ ALWAYS_CLIP THEN Screen
                     ELSE UNION {rect(i) : i \in DOMAIN all}
  BY DEF Region
<1>. HIDE DEF rect, all
<1> QED BY <1>1, <1>2

LEMMA ClippingIs ==
    ASSUME TypeInv, DoClipping
    PROVE  /\ m_mainWindow' \in BOOLEAN /\ region' \subseteq Screen
           /\ m_mainWindow' => region' = Region(m_ht', heap')
BY RegionOnScreen DEF DoClipping, FindProcessMainWindow, TypeInv

\* The known windows are those of the map.
LEMMA KnownIs ==
    ASSUME NEW t, NEW h, NEW n, Objects(t, h, n), NEW k \in Ids
    PROVE  k \in KnownIds(t) <=> Windows(t, h)[k] # Null
<1>1. ASSUME k \in KnownIds(t) PROVE Windows(t, h)[k] \in Rects
  BY <1>1 DEF Objects, Windows, KnownIds
<1> QED BY <1>1, TitlesAssumption DEF Windows, KnownIds, Rects

\* Time goes by: more messages have been sent.
LEMMA ObjectsLater ==
    ASSUME NEW t, NEW h, NEW n \in Nat, Objects(t, h, n)
    PROVE  Objects(t, h, n + 1)
<1>1. [pos : Rects, bar : 0 .. n] \subseteq [pos : Rects, bar : 0 .. n + 1]
  OBVIOUS
<1>2. /\ DOMAIN h \subseteq 1 .. n + 1
      /\ h \in [DOMAIN h -> [pos : Rects, bar : 0 .. n]]
  BY DEF Objects
<1>3. h \in [DOMAIN h -> [pos : Rects, bar : 0 .. n + 1]]
  BY <1>1, <1>2
<1> QED BY <1>2, <1>3 DEF Objects

LEMMA FinitePart ==
    ASSUME NEW n \in Nat, NEW S \in SUBSET (1 .. n) PROVE IsFiniteSet(S)
<1>1. IsFiniteSet(1 .. n)
  BY FS_Interval
<1> QED BY <1>1, FS_Subset

LEMMA CreatedStep ==
    ASSUME IInv, state = "open", sent < MaxMessages, sent' = sent + 1,
           NEW id \in Ids, NEW at \in Places, server[id] = Null,
           NEW wid, Key(wid) = id, wid.pos = Rect(at), HandleCreated(wid)
    PROVE  Effect(id, at)
<1>v. PICK n, t, h, b : n = sent /\ t = m_ht /\ h = heap /\ b = bars
  OBVIOUS
<1>a. PICK a : a = New(DOMAIN h)
  OBVIOUS
<1>1. PICK mallocFails \in BOOLEAN, createFails \in BOOLEAN :
         /\ failures' = failures + (IF mallocFails THEN 1 ELSE 0) + (IF createFails THEN 1 ELSE 0)
         /\ m_ht' = hash_insert(id, a, t, mallocFails).table
         /\ heap' = With(h, a, [pos |-> Rect(at), bar |-> CreateAndShowWindow(createFails)])
         /\ bars' = b \cup ({CreateAndShowWindow(createFails)} \ {0})
         /\ lost' = (lost \/ mallocFails)
         /\ DoClipping /\ UNCHANGED state
  BY <1>v, <1>a DEF HandleCreated
<1>2. PICK bar : bar = CreateAndShowWindow(createFails)
  OBVIOUS
<1>3. /\ n \in Nat /\ n < MaxMessages /\ Objects(t, h, n) /\ t.size # 0 /\ sent' = n + 1
      /\ b \in SUBSET (1 .. n) /\ lost \in BOOLEAN /\ failures \in Nat
  BY <1>v, ClipperAssumption DEF IInv, TypeInv
<1>4. /\ bar \in 0 .. n + 1 /\ bar \notin b /\ (bar = 0 <=> createFails)
      /\ b \cup ({bar} \ {0}) \subseteq 1 .. n + 1
  <2>1. New(b) \in 1 .. n + 1 /\ New(b) \notin b
    BY <1>3, NewIs
  <2>2. bar = IF createFails THEN 0 ELSE New(b)
    BY <1>v, <1>2 DEF CreateAndShowWindow
  <2>3. CASE createFails
    <3>1. bar = 0 /\ 0 \notin 1 .. n /\ 0 \in 0 .. n + 1
      BY <2>2, <2>3, <1>3
    <3>2. {bar} \ {0} = {} /\ bar \notin b /\ b \subseteq 1 .. n + 1
      BY <3>1, <1>3
    <3> QED BY <3>1, <3>2, <2>3
  <2>4. CASE ~ createFails
    <3>1. bar \in 1 .. n + 1 /\ bar \notin b
      BY <2>1, <2>2, <2>4
    <3>2. bar \in 0 .. n + 1 /\ bar # 0 /\ 1 .. n \subseteq 1 .. n + 1
      BY <3>1, <1>3
    <3> QED BY <3>1, <3>2, <2>4, <1>3
  <2> QED BY <2>3, <2>4
<1>w. PICK wd : wd = [pos |-> Rect(at), bar |-> bar]
  OBVIOUS
<1>5. wd \in [pos : Rects, bar : 0 .. n + 1] /\ wd.bar = bar /\ wd.pos = Rect(at)
  BY <1>4, <1>w DEF Rects
<1>r. PICK r, g : r = m_ht' /\ g = heap'
  OBVIOUS
<1>6. r = hash_insert(id, a, t, mallocFails).table /\ g = With(h, a, wd)
  BY <1>1, <1>2, <1>w, <1>r
<1>7. /\ Objects(r, g, n + 1) /\ r.size = t.size
      /\ Others(t, h, r, g, id)
      /\ \A l \in Ids \ {id} : Windows(r, g)[l] = Windows(t, h)[l]
      /\ ~ mallocFails => Data(r, id) = a /\ g[a] = wd /\ Windows(r, g)[id] = wd.pos
  BY <1>a, <1>3, <1>5, <1>6, CreatedIs
<1>8. /\ m_mainWindow' \in BOOLEAN /\ region' \subseteq Screen
      /\ m_mainWindow' => region' = Region(m_ht', heap')
  BY <1>1, ClippingIs DEF IInv
<1>9. ASSUME ~ lost'
      PROVE  ~ lost /\ Taskbar(r, g, bars', failures') /\ Windows(r, g)[id] = Rect(at)
  <2>1. ~ lost /\ ~ mallocFails
    BY <1>1, <1>3, <1>9
  <2>2. Taskbar(t, h, b, failures) /\ Windows(t, h)[id] = Null
    BY <2>1, <1>v DEF IInv, Follows
  <2>3. id \notin KnownIds(t)
    BY <2>2, <1>3, KnownIs
  <2>4. Data(r, id) = a /\ g[a] = wd /\ a # Null
    <3>1. a \in 1 .. n + 1
      BY <1>a, <1>3, NewIs DEF Objects
    <3> QED BY <3>1, <2>1, <1>7, ClipperAssumption
  <2>5. KnownIds(r) = KnownIds(t) \cup {id} /\ Bar(r, g, id) = bar
    BY <2>4, <1>5, <1>7 DEF KnownIds, Others, Bar
  <2>6. \A l \in KnownIds(t) : Bar(r, g, l) = Bar(t, h, l)
    BY <2>3, <1>7 DEF Others, KnownIds, Bar
  <2>7. /\ bars' = b \cup ({bar} \ {0}) /\ failures' = failures + (IF bar = 0 THEN 1 ELSE 0)
        /\ bar \in Nat /\ TableOK(t) /\ IsFiniteSet(b)
    <3>1. IsFiniteSet(b)
      BY <1>3, FinitePart
    <3> QED BY <3>1, <1>1, <1>2, <1>3, <1>4, <2>1 DEF Objects
  <2>8. Taskbar(r, g, bars', failures')
    <3>1. PICK f : f = failures
      OBVIOUS
    <3>2. PICK c, e : c = bars' /\ e = failures'
      OBVIOUS
    <3>3. Taskbar(t, h, b, f) /\ f \in Nat /\ c = b \cup ({bar} \ {0})
          /\ e = f + (IF bar = 0 THEN 1 ELSE 0)
      BY <3>1, <3>2, <2>2, <2>7, <1>3
    <3>4. Taskbar(r, g, c, e)
      BY <3>3, <2>3, <2>5, <2>6, <2>7, <1>4, TaskbarCreated
    <3> QED BY <3>2, <3>4
  <2> QED BY <2>1, <2>8, <1>5, <1>7
<1>10. failures' \in Nat /\ lost' \in BOOLEAN
  BY <1>1, <1>3
<1>11. at # Null
  BY ClipperAssumption
<1>12. bars' \subseteq 1 .. n + 1
  BY <1>1, <1>2, <1>4
<1> QED BY <1>v, <1>r, <1>1, <1>3, <1>7, <1>8, <1>9, <1>10, <1>11, <1>12 DEF Effect

LEMMA DestroyedStep ==
    ASSUME IInv, state = "open", sent < MaxMessages, sent' = sent + 1,
           NEW id \in Ids, NEW at \in Places, server[id] # Null,
           NEW wid, Key(wid) = id, wid.pos = Rect(at), HandleDestroyed(wid)
    PROVE  Effect(id, Null)
<1>v. PICK n, t, h, b, f : n = sent /\ t = m_ht /\ h = heap /\ b = bars /\ f = failures
  OBVIOUS
<1>r. PICK r, g : r = hash_del(id, t).table /\ g = With(h, New(DOMAIN h), [pos |-> Rect(at), bar |-> 0])
  OBVIOUS
<1>1. /\ m_ht' = r /\ failures' = f /\ lost' = lost
      /\ IF hash_del(id, t).result = Null
         THEN state' = "crashed" /\ UNCHANGED <<heap, bars, clipVars>>
         ELSE /\ bars' = b \ {h[hash_del(id, t).result].bar}
              /\ heap' = Without(g, hash_del(id, t).result)
              /\ DoClipping /\ UNCHANGED state
  BY <1>v, <1>r DEF HandleDestroyed, DestroyTaskbarWindow
<1>2. /\ n \in Nat /\ n < MaxMessages /\ Objects(t, h, n) /\ t.size # 0 /\ sent' = n + 1
      /\ b \in SUBSET (1 .. n) /\ lost \in BOOLEAN /\ f \in Nat /\ TableOK(t)
  BY <1>v, ClipperAssumption DEF IInv, TypeInv, Objects
<1>3. /\ hash_del(id, t).result = Data(t, id)
      /\ Data(t, id) = Null => r = t
  BY <1>2, <1>r, DelIs DEF Data
<1>4. bars' \subseteq 1 .. n + 1 /\ failures' \in Nat /\ lost' \in BOOLEAN
  <2>1. CASE hash_del(id, t).result = Null
    <3>1. bars' = b
      BY <2>1, <1>1, <1>v
    <3> QED BY <3>1, <1>1, <1>2
  <2>2. CASE hash_del(id, t).result # Null
    <3>1. bars' \subseteq b
      BY <2>2, <1>1
    <3> QED BY <3>1, <1>1, <1>2
  <2> QED BY <2>1, <2>2
<1>5. CASE Data(t, id) = Null
  <2>1. /\ m_ht' = t /\ heap' = h /\ bars' = b /\ state' = "crashed"
        /\ m_mainWindow' = m_mainWindow /\ region' = region
    BY <1>1, <1>3, <1>5, <1>v DEF clipVars
  <2>2. Windows(t, h)[id] = Null
    BY <1>5 DEF Windows
  <2>3. lost
    <3>1. server[id] \in Places
      BY DEF IInv, TypeInv
    <3>2. ASSUME ~ lost PROVE FALSE
      <4>1. Windows(t, h)[id] = Rect(server[id])
        BY <3>2, <1>v DEF IInv, Follows
      <4> QED BY <4>1, <3>1, <2>2, TitlesAssumption
    <3> QED BY <3>2
  <2>4. Objects(t, h, n + 1)
    BY <1>2, ObjectsLater
  <2>5. m_mainWindow \in BOOLEAN /\ region \subseteq Screen /\ (m_mainWindow => region = Region(t, h))
    BY <1>v DEF IInv, TypeInv
  <2> QED BY <2>1, <2>3, <2>4, <2>5, <1>1, <1>2, <1>4, <1>v DEF Effect
<1>6. CASE Data(t, id) # Null
  <2>1. id \in KnownIds(t)
    BY <1>6 DEF KnownIds
  <2>2. /\ bars' = b \ {Bar(t, h, id)} /\ heap' = Without(g, Data(t, id))
        /\ DoClipping /\ state' = state
    BY <1>1, <1>3, <1>6 DEF Bar
  <2>3. /\ Objects(t, g, n + 1) /\ Windows(t, g) = Windows(t, h)
        /\ \A k \in KnownIds(t) : g[Data(t, k)] = h[Data(t, k)]
    <3>w. PICK wd : wd = [pos |-> Rect(at), bar |-> 0]
      OBVIOUS
    <3>1. wd \in [pos : Rects, bar : 0 .. n + 1]
      BY <1>2, <3>w DEF Rects
    <3>2. g = With(h, New(DOMAIN h), wd)
      BY <1>r, <3>w
    <3> QED BY <3>1, <3>2, <1>2, LeakedIs
  <2>e. PICK e : e = heap'
    OBVIOUS
  <2>4. /\ Objects(r, e, n + 1) /\ r.size = t.size
        /\ Others(t, g, r, e, id) /\ Data(r, id) = Null
        /\ \A l \in Ids \ {id} : Windows(r, e)[l] = Windows(t, g)[l]
        /\ Windows(r, e)[id] = Null
    <3>1. e = Without(g, Data(t, id))
      BY <2>2, <2>e
    <3> QED BY <3>1, <2>1, <2>3, <1>2, <1>r, DestroyedIs
  <2>5. /\ m_mainWindow' \in BOOLEAN /\ region' \subseteq Screen
        /\ m_mainWindow' => region' = Region(m_ht', heap')
    BY <2>2, ClippingIs DEF IInv
  <2>6. ASSUME ~ lost' PROVE ~ lost /\ Taskbar(r, e, bars', f)
    <3>1. ~ lost /\ Taskbar(t, h, b, f)
      BY <2>6, <1>1, <1>v DEF IInv
    <3>2. KnownIds(r) = KnownIds(t) \ {id}
      BY <2>4 DEF Others, KnownIds
    <3>3. \A l \in KnownIds(r) : Bar(r, e, l) = Bar(t, h, l)
      <4>1. ASSUME NEW l \in KnownIds(r) PROVE Bar(r, e, l) = Bar(t, h, l)
        <5>1. l \in Ids \ {id} /\ l \in KnownIds(t)
          BY <3>2 DEF KnownIds
        <5>2. Data(r, l) = Data(t, l) /\ e[Data(t, l)] = g[Data(t, l)]
          BY <5>1, <2>4 DEF Others, KnownIds
        <5>3. g[Data(t, l)] = h[Data(t, l)]
          BY <5>1, <2>3
        <5> QED BY <5>2, <5>3 DEF Bar
      <4> QED BY <4>1
    <3>4. IsFiniteSet(b)
      BY <1>2, FinitePart
    <3>5. PICK c : c = b \ {Bar(t, h, id)}
      OBVIOUS
    <3>6. Taskbar(r, e, c, f)
      BY <3>1, <3>2, <3>3, <3>4, <3>5, <2>1, <1>2, TaskbarDestroyed
    <3> QED BY <3>1, <3>5, <3>6, <2>2
  <2> QED BY <2>2, <2>3, <2>4, <2>5, <2>6, <2>e, <1>1, <1>2, <1>4, <1>v DEF Effect
<1> QED BY <1>5, <1>6

LEMMA MovedStep ==
    ASSUME IInv, state = "open", sent' = sent + 1,
           NEW id \in Ids, NEW at \in Places, server[id] # Null,
           NEW wid, Key(wid) = id, wid.pos = Rect(at), HandleMoved(wid)
    PROVE  Effect(id, at)
<1>v. PICK n, t, h, d : n = sent /\ t = m_ht /\ h = heap /\ d = Data(t, id)
  OBVIOUS
<1>1. /\ n \in Nat /\ Objects(t, h, n) /\ t.size # 0 /\ sent' = n + 1
      /\ bars \in SUBSET (1 .. n) /\ lost \in BOOLEAN /\ failures \in Nat
      /\ m_mainWindow \in BOOLEAN /\ region \subseteq Screen
      /\ m_mainWindow => region = Region(t, h)
  BY <1>v, ClipperAssumption DEF IInv, TypeInv
<1>2. /\ m_ht' = t /\ bars' = bars /\ state' = state /\ failures' = failures /\ lost' = lost
      /\ IF d = Null THEN heap' = h /\ m_mainWindow' = m_mainWindow /\ region' = region
         ELSE heap' = [h EXCEPT ![d].pos = Rect(at)] /\ DoClipping
  BY <1>v, <1>1 DEF HandleMoved, Data, clipVars
<1>3. bars' \subseteq 1 .. n + 1 /\ at # Null
  BY <1>1, <1>2, ClipperAssumption
<1>4. CASE d = Null
  <2>1. Windows(t, h)[id] = Null
    BY <1>4, <1>v DEF Windows
  <2>2. lost
    <3>1. server[id] \in Places
      BY DEF IInv, TypeInv
    <3>2. ASSUME ~ lost PROVE FALSE
      <4>1. Windows(t, h)[id] = Rect(server[id])
        BY <3>2, <1>v DEF IInv, Follows
      <4> QED BY <4>1, <3>1, <2>1, TitlesAssumption
    <3> QED BY <3>2
  <2>3. Objects(t, h, n + 1)
    BY <1>1, ObjectsLater
  <2> QED BY <2>2, <2>3, <1>1, <1>2, <1>3, <1>4, <1>v DEF Effect
<1>5. CASE d # Null
  <2>1. id \in KnownIds(t) /\ d \in DOMAIN h
    BY <1>v, <1>1, <1>5 DEF KnownIds, Objects
  <2>g. PICK g : g = heap'
    OBVIOUS
  <2>2. /\ DOMAIN g = DOMAIN h /\ g[d] = [pos |-> Rect(at), bar |-> h[d].bar]
        /\ \A e \in DOMAIN h : e # d => g[e] = h[e]
        /\ g = [e \in DOMAIN g |-> g[e]]
    <3>1. heap' = [h EXCEPT ![d].pos = Rect(at)] /\ h \in [DOMAIN h -> [pos : Rects, bar : 0 .. n]]
      BY <1>1, <1>2, <1>5 DEF Objects
    <3>2. [h[d] EXCEPT !.pos = Rect(at)] = [pos |-> Rect(at), bar |-> h[d].bar]
      BY <3>1, <2>1
    <3>3. heap' = [h EXCEPT ![d] = [h[d] EXCEPT !.pos = Rect(at)]]
      BY <3>1, <2>1
    <3> QED BY <3>1, <3>2, <3>3, <2>1, <2>g
  <2>3. /\ Objects(t, g, n) /\ Others(t, h, t, g, id)
        /\ \A l \in Ids \ {id} : Windows(t, g)[l] = Windows(t, h)[l]
        /\ Windows(t, g)[id] = Rect(at)
    <3>1. Rect(at) \in Rects
      BY DEF Rects
    <3> QED BY <3>1, <2>1, <2>2, <1>v, <1>1, MovedIs
  <2>4. Objects(t, g, n + 1)
    BY <2>3, <1>1, ObjectsLater
  <2>5. /\ m_mainWindow' \in BOOLEAN /\ region' \subseteq Screen
        /\ m_mainWindow' => region' = Region(m_ht', heap')
    BY <1>2, <1>5, ClippingIs DEF IInv
  <2>6. ASSUME ~ lost' PROVE Taskbar(t, g, bars', failures')
    <3>1. PICK b, f : b = bars /\ f = failures
      OBVIOUS
    <3>2. Taskbar(t, h, b, f)
      BY <2>6, <3>1, <1>2, <1>v DEF IInv
    <3>3. ASSUME NEW l \in KnownIds(t) PROVE Bar(t, g, l) = Bar(t, h, l)
      <4>1. CASE l = id
        BY <4>1, <2>2, <1>v DEF Bar
      <4>2. CASE l # id
        BY <4>2, <2>3 DEF Bar, Others, KnownIds
      <4> QED BY <4>1, <4>2
    <3>4. Taskbar(t, g, b, f)
      BY <3>2, <3>3, TaskbarKept
    <3> QED BY <3>1, <3>4, <1>2
  <2> QED BY <2>3, <2>4, <2>5, <2>6, <2>g, <1>1, <1>2, <1>3, <1>v DEF Effect
<1> QED BY <1>4, <1>5

\* A message that the client makes nothing of, about a window that stays.
LEMMA OtherStep ==
    ASSUME IInv, state = "open", sent < MaxMessages, sent' = sent + 1,
           NEW id \in Ids, server[id] # Null,
           NEW wid, NEW at \in Places, wid.pos = Rect(at), HandleOther(wid)
    PROVE  Effect(id, server[id])
<1>v. PICK n, t, h : n = sent /\ t = m_ht /\ h = heap
  OBVIOUS
<1>1. /\ n \in Nat /\ n < MaxMessages /\ Objects(t, h, n) /\ sent' = n + 1
      /\ bars \in SUBSET (1 .. n) /\ lost \in BOOLEAN /\ failures \in Nat
      /\ m_mainWindow \in BOOLEAN /\ region \subseteq Screen
      /\ m_mainWindow => region = Region(t, h)
  BY <1>v, ClipperAssumption DEF IInv, TypeInv
<1>g. PICK g, wd : g = heap' /\ wd = [pos |-> Rect(at), bar |-> 0]
  OBVIOUS
<1>2. /\ m_ht' = t /\ bars' = bars /\ state' = state /\ failures' = failures /\ lost' = lost
      /\ m_mainWindow' = m_mainWindow /\ region' = region
      /\ g = With(h, New(DOMAIN h), wd)
  BY <1>v, <1>g DEF HandleOther, clipVars
<1>3. bars' \subseteq 1 .. n + 1
  BY <1>1, <1>2
<1>4. /\ Objects(t, g, n + 1) /\ Windows(t, g) = Windows(t, h)
      /\ \A k \in KnownIds(t) : g[Data(t, k)] = h[Data(t, k)]
  <2>1. wd \in [pos : Rects, bar : 0 .. n + 1]
    BY <1>1, <1>g DEF Rects
  <2> QED BY <2>1, <1>1, <1>2, LeakedIs
<1>5. Region(t, g) = Region(t, h)
  BY <1>1, <1>4, RegionIs
<1>6. ASSUME ~ lost'
      PROVE  /\ Taskbar(t, g, bars', failures') /\ Windows(t, g)[id] = Rect(server[id])
  <2>1. PICK b, f : b = bars /\ f = failures
    OBVIOUS
  <2>2. Taskbar(t, h, b, f) /\ Windows(t, h)[id] = Rect(server[id])
    BY <1>6, <2>1, <1>2, <1>v DEF IInv, Follows
  <2>3. Taskbar(t, g, b, f)
    BY <2>2, <1>4, TaskbarKept DEF Bar
  <2> QED BY <2>1, <2>2, <2>3, <1>2, <1>4
<1> QED BY <1>1, <1>2, <1>3, <1>4, <1>5, <1>6, <1>g, <1>v DEF Effect

\* A message that does not arrive.
LEMMA LostStep ==
    ASSUME IInv, sent' = sent + 1,
           NEW id \in Ids, NEW at, NEW concerns \in BOOLEAN, concerns \/ at = server[id],
           Lose(concerns)
    PROVE  Effect(id, at)
<1>1. /\ UNCHANGED <<state, m_ht, heap, bars, m_mainWindow, region, failures>>
      /\ lost' = (lost \/ concerns)
  BY DEF Lose, tableVars, clipVars
<1>2. Objects(m_ht', heap', sent')
  BY <1>1, ObjectsLater DEF IInv, TypeInv
<1>3. bars' \subseteq 1 .. sent' /\ m_mainWindow' \in BOOLEAN /\ region' \subseteq Screen
      /\ (m_mainWindow' => region' = Region(m_ht', heap')) /\ lost' \in BOOLEAN /\ failures' \in Nat
  BY <1>1 DEF IInv, TypeInv
<1>4. ASSUME ~ lost'
      PROVE  /\ ~ lost /\ Taskbar(m_ht, heap, bars, failures)
             /\ Windows(m_ht, heap)[id] = IF at = Null THEN Null ELSE Rect(at)
  BY <1>1, <1>4 DEF IInv, Follows
<1> QED BY <1>1, <1>2, <1>3, <1>4 DEF Effect

LEMMA Received ==
    ASSUME NEW id \in Ids, NEW title \in Titles \cup {<<>>}, NEW at \in Places,
           NEW type \in {"HSHELL_WINDOWCREATED", "HSHELL_WINDOWDESTROYED", "HCBT_MINMAX",
                         "HCBT_MOVESIZE", "CALLWNDPROC_WM_MOVING"},
           VirtualChannelOpenEvent(Text([type |-> type, id |-> id, title |-> title, at |-> at]))
    PROVE  LET wid == Wid(type, id, at)
           IN  /\ type = "HSHELL_WINDOWCREATED" => HandleCreated(wid)
               /\ type = "HSHELL_WINDOWDESTROYED" => HandleDestroyed(wid)
               /\ type \in {"HCBT_MOVESIZE", "CALLWNDPROC_WM_MOVING"} => HandleMoved(wid)
               /\ type = "HCBT_MINMAX" => HandleOther(wid)
<1>w. PICK wid : wid = Wid(type, id, at)
  OBVIOUS
<1>1. Parsed(Text([type |-> type, id |-> id, title |-> title, at |-> at])) = wid
  BY <1>w, TitlesAssumption DEF Wid
<1>2. wid.type = <<type>>
  BY <1>w DEF Wid
<1>3. /\ <<type>> = <<"HSHELL_WINDOWCREATED">> <=> type = "HSHELL_WINDOWCREATED"
      /\ <<type>> = <<"HSHELL_WINDOWDESTROYED">> <=> type = "HSHELL_WINDOWDESTROYED"
      /\ <<type>> \in Moving <=> type \in {"HCBT_MOVESIZE", "CALLWNDPROC_WM_MOVING"}
  BY DEF Moving
<1>4. CASE type = "HSHELL_WINDOWCREATED"
  <2>1. HandleCreated(wid)
    BY <1>1, <1>2, <1>3, <1>4 DEF VirtualChannelOpenEvent
  <2> QED BY <2>1, <1>4, <1>w
<1>5. CASE type = "HSHELL_WINDOWDESTROYED"
  <2>1. HandleDestroyed(wid)
    BY <1>1, <1>2, <1>3, <1>5 DEF VirtualChannelOpenEvent
  <2> QED BY <2>1, <1>5, <1>w
<1>6. CASE type \in {"HCBT_MOVESIZE", "CALLWNDPROC_WM_MOVING"}
  <2>1. HandleMoved(wid)
    BY <1>1, <1>2, <1>3, <1>6 DEF VirtualChannelOpenEvent
  <2> QED BY <2>1, <1>6, <1>w
<1>7. CASE type = "HCBT_MINMAX"
  <2>1. HandleOther(wid)
    BY <1>1, <1>2, <1>3, <1>7 DEF VirtualChannelOpenEvent
  <2> QED BY <2>1, <1>7, <1>w
<1> QED BY <1>4, <1>5, <1>6, <1>7

-----------------------------------------------------------------------------
(***************************************************************************)
(* The steps.                                                              *)
(***************************************************************************)

\* One window changes, at most.
OneChanges ==
    \/ Windows(m_ht', heap') = Windows(m_ht, heap)
    \/ \E id \in Ids : \A l \in Ids \ {id} : Windows(m_ht', heap')[l] = Windows(m_ht, heap)[l]

LEMMA InitiallyIInv == Init => IInv
<1>1. SUFFICES ASSUME Init PROVE IInv
  OBVIOUS
<1>2. /\ TableOK(m_ht) /\ m_ht.size = 0 /\ \A k \in Ids : Data(m_ht, k) = Null
  BY <1>1, EmptyTable DEF Init
<1>3. KnownIds(m_ht) = {}
  BY <1>2 DEF KnownIds
<1>4. Objects(m_ht, heap, sent)
  <2>1. DOMAIN heap = {} /\ heap = [a \in DOMAIN heap |-> heap[a]]
    BY <1>1 DEF Init
  <2> QED BY <2>1, <1>2, <1>3 DEF Objects
<1>5. TypeInv
  <2>1. server \in [Ids -> Places \cup {Null}] /\ sent \in 0 .. MaxMessages /\ failures \in Nat
    BY <1>1, ClipperAssumption DEF Init
  <2>2. /\ state = "new" /\ bars \subseteq 1 .. sent /\ m_mainWindow \in BOOLEAN
        /\ region \subseteq Screen /\ lost \in BOOLEAN
    BY <1>1 DEF Init
  <2> QED BY <2>1, <2>2, <1>2, <1>4 DEF TypeInv
<1>6. Follows(m_ht, heap, server)
  BY <1>1, <1>2 DEF Init, Follows, Windows
<1>7. Taskbar(m_ht, heap, bars, failures)
  <2>1. Cardinality({}) = 0
    BY FS_EmptySet
  <2> QED BY <2>1, <1>1, <1>3 DEF Init, Taskbar
<1> QED BY <1>1, <1>5, <1>6, <1>7 DEF Init, IInv, CrashOnlyAfterLoss

LEMMA EntryStep ==
    ASSUME IInv, VirtualChannelEntry
    PROVE  IInv' /\ Windows(m_ht', heap') = Windows(m_ht, heap)
<1>v. PICK t, r, h : t = m_ht /\ r = m_ht' /\ h = heap
  OBVIOUS
<1>1. /\ state = "new" /\ state' \in {"initialized", "failed"} /\ r = hash_construct_table(10)
      /\ heap' = h /\ UNCHANGED <<bars, server, sent, failures, lost>>
      /\ (DoClipping \/ UNCHANGED clipVars)
  BY <1>v DEF VirtualChannelEntry
<1>2. /\ TableOK(r) /\ r.size = 10 /\ \A k \in Ids : Data(r, k) = Null
  BY <1>1, EmptyTable
<1>3. t.size = 0 /\ \A k \in Ids : Data(t, k) = Null
  BY <1>1, <1>v DEF IInv, TypeInv, Data
<1>4. KnownIds(r) = {} /\ KnownIds(t) = {} /\ Windows(r, h) = Windows(t, h)
  BY <1>2, <1>3 DEF KnownIds, Windows
<1>5. Objects(r, h, sent) /\ Objects(t, h, sent)
  BY <1>2, <1>4, <1>v DEF IInv, TypeInv, Objects
<1>6. Region(r, h) = Region(t, h)
  BY <1>4, <1>5, RegionIs
<1>7. /\ m_mainWindow' \in BOOLEAN /\ region' \subseteq Screen
      /\ m_mainWindow' => region' = Region(r, h)
  <2>1. CASE DoClipping
    BY <2>1, <1>1, <1>v, ClippingIs DEF IInv
  <2>2. CASE UNCHANGED clipVars
    BY <2>2, <1>6, <1>v DEF IInv, TypeInv, clipVars
  <2> QED BY <2>1, <2>2, <1>1
<1>8. TypeInv'
  BY <1>1, <1>2, <1>5, <1>7, <1>v DEF IInv, TypeInv
<1>9. ASSUME ~ lost' PROVE Follows(r, h, server) /\ Taskbar(r, h, bars, failures)
  <2>1. Follows(t, h, server) /\ Taskbar(t, h, bars, failures)
    BY <1>1, <1>9, <1>v DEF IInv
  <2>2. PICK b, f : b = bars /\ f = failures
    OBVIOUS
  <2>3. Taskbar(r, h, b, f)
    BY <2>1, <2>2, <1>4, TaskbarKept
  <2> QED BY <2>1, <2>2, <2>3, <1>4 DEF Follows
<1> QED BY <1>1, <1>4, <1>7, <1>8, <1>9, <1>v DEF IInv, CrashOnlyAfterLoss

LEMMA QuietStep ==
    ASSUME IInv, UNCHANGED <<tableVars, clipVars, server, sent, failures, lost>>,
           state' = state \/ (state # "new" /\ state' \in {"initialized", "open", "terminated"})
    PROVE  IInv' /\ Windows(m_ht', heap') = Windows(m_ht, heap)
<1>1. UNCHANGED <<m_ht, heap, bars, m_mainWindow, region, server, sent, failures, lost>>
  BY DEF tableVars, clipVars
<1>2. TypeInv'
  BY <1>1 DEF IInv, TypeInv
<1> QED BY <1>1, <1>2 DEF IInv, CrashOnlyAfterLoss

LEMMA MessageStep ==
    ASSUME IInv, sent < MaxMessages, sent' = sent + 1,
           NEW id \in Ids, NEW at \in Places \cup {Null}, Effect(id, at),
           server' = [server EXCEPT ![id] = at]
    PROVE  IInv' /\ OneChanges
<1>1. /\ server \in [Ids -> Places \cup {Null}] /\ sent' \in 0 .. MaxMessages
      /\ m_ht'.size = 0 <=> state' = "new"
      /\ state' \in {"new", "initialized", "failed", "open", "terminated", "crashed"}
  BY ClipperAssumption DEF IInv, TypeInv, Effect
<1>2. TypeInv'
  BY <1>1 DEF TypeInv, Effect
<1>3. ASSUME ~ lost' PROVE Follows(m_ht', heap', server')
  <2>1. ASSUME NEW k \in Ids
        PROVE  Windows(m_ht', heap')[k] = IF server'[k] = Null THEN Null ELSE Rect(server'[k])
    <3>1. CASE k = id
      BY <3>1, <1>1, <1>3 DEF Effect
    <3>2. CASE k # id
      <4>1. Windows(m_ht', heap')[k] = Windows(m_ht, heap)[k] /\ server'[k] = server[k]
        BY <3>2, <1>1 DEF Effect
      <4> QED BY <4>1, <1>3 DEF IInv, Effect, Follows
    <3> QED BY <3>1, <3>2
  <2> QED BY <2>1 DEF Follows
<1>4. (CrashOnlyAfterLoss)'
  <2>1. lost => lost'
    BY DEF Effect, IInv, TypeInv
  <2> QED BY <2>1 DEF IInv, CrashOnlyAfterLoss, Effect
<1>5. IInv'
  BY <1>2, <1>3, <1>4 DEF IInv, Effect
<1>6. OneChanges
  BY DEF OneChanges, Effect
<1> QED BY <1>5, <1>6

LEMMA ServerStep ==
    ASSUME IInv, NEW id \in Ids,
           \/ \E at \in Places, title \in Titles : ServerCreates(id, title, at)
           \/ \E at \in Places, type \in {t[1] : t \in Moving} : ServerMoves(type, id, at)
           \/ ServerMinMax(id) \/ ServerDestroys(id)
    PROVE  IInv' /\ OneChanges
<1>. DEFINE m(y, i, e, p) == [type |-> y, id |-> i, title |-> e, at |-> p]
<1>1. /\ server \in [Ids -> Places \cup {Null}] /\ \A at \in Places : at # Null
      /\ <<>> \in Titles \cup {<<>>} /\ \A title \in Titles : title \in Titles \cup {<<>>}
  BY ClipperAssumption DEF IInv, TypeInv
<1>m. {t[1] : t \in Moving} = {"HCBT_MOVESIZE", "CALLWNDPROC_WM_MOVING"}
  <2>1. <<"HCBT_MOVESIZE">>[1] = "HCBT_MOVESIZE" /\ <<"CALLWNDPROC_WM_MOVING">>[1] = "CALLWNDPROC_WM_MOVING"
    OBVIOUS
  <2> QED BY <2>1 DEF Moving
<1>2. ASSUME NEW y, NEW i, NEW e, NEW p, Send(m(y, i, e, p))
      PROVE  /\ sent < MaxMessages /\ sent' = sent + 1
             /\ \/ state = "open" /\ VirtualChannelOpenEvent(Text(m(y, i, e, p)))
                \/ Lose(y # "HCBT_MINMAX")
  <2>1. m(y, i, e, p).type = y
    OBVIOUS
  <2>. HIDE DEF m
  <2> QED BY <1>2, <2>1 DEF Send
<1>3. ASSUME NEW at \in Places, NEW title \in Titles, ServerCreates(id, title, at) PROVE IInv' /\ OneChanges
  <2>1. /\ server[id] = Null /\ server' = [server EXCEPT ![id] = at]
        /\ sent < MaxMessages /\ sent' = sent + 1
        /\ \/ state = "open" /\ VirtualChannelOpenEvent(Text(m("HSHELL_WINDOWCREATED", id, title, at)))
           \/ Lose("HSHELL_WINDOWCREATED" # "HCBT_MINMAX")
    BY <1>2, <1>3 DEF ServerCreates
  <2>2. Effect(id, at)
    <3>1. CASE state = "open" /\ VirtualChannelOpenEvent(Text(m("HSHELL_WINDOWCREATED", id, title, at)))
      <4>1. PICK wid : wid = Wid("HSHELL_WINDOWCREATED", id, at)
        OBVIOUS
      <4>2. HandleCreated(wid)
        BY <3>1, <4>1, <1>1, Received
      <4>3. Key(wid) = id /\ wid.pos = Rect(at)
        BY <4>1, KeyIs
      <4> QED BY <4>2, <4>3, <3>1, <2>1, CreatedStep
    <3>2. CASE Lose("HSHELL_WINDOWCREATED" # "HCBT_MINMAX")
      <4>1. Lose(TRUE)
        BY <3>2
      <4> QED BY <4>1, <2>1, LostStep
    <3> QED BY <3>1, <3>2, <2>1
  <2> QED BY <2>1, <2>2, MessageStep
<1>4. ASSUME NEW at \in Places, NEW type \in {"HCBT_MOVESIZE", "CALLWNDPROC_WM_MOVING"},
             ServerMoves(type, id, at)
      PROVE  IInv' /\ OneChanges
  <2>1. /\ server[id] # Null /\ server' = [server EXCEPT ![id] = at]
        /\ sent < MaxMessages /\ sent' = sent + 1
        /\ \/ state = "open" /\ VirtualChannelOpenEvent(Text(m(type, id, <<>>, at)))
           \/ Lose(type # "HCBT_MINMAX")
    BY <1>2, <1>4 DEF ServerMoves
  <2>2. Effect(id, at)
    <3>1. CASE state = "open" /\ VirtualChannelOpenEvent(Text(m(type, id, <<>>, at)))
      <4>1. PICK wid : wid = Wid(type, id, at)
        OBVIOUS
      <4>2. HandleMoved(wid)
        BY <3>1, <4>1, <1>1, Received
      <4>3. Key(wid) = id /\ wid.pos = Rect(at)
        BY <4>1, KeyIs
      <4> QED BY <4>2, <4>3, <3>1, <2>1, MovedStep
    <3>2. CASE Lose(type # "HCBT_MINMAX")
      <4>1. Lose(TRUE)
        BY <3>2, <1>1
      <4> QED BY <4>1, <2>1, LostStep
    <3> QED BY <3>1, <3>2, <2>1
  <2> QED BY <2>1, <2>2, MessageStep
<1>5. CASE ServerMinMax(id)
  <2>1. PICK p : p = server[id]
    OBVIOUS
  <2>2. /\ p # Null /\ p \in Places /\ server' = [server EXCEPT ![id] = p]
        /\ sent < MaxMessages /\ sent' = sent + 1
        /\ \/ state = "open" /\ VirtualChannelOpenEvent(Text(m("HCBT_MINMAX", id, <<>>, p)))
           \/ Lose("HCBT_MINMAX" # "HCBT_MINMAX")
    BY <1>1, <1>2, <1>5, <2>1 DEF ServerMinMax
  <2>3. Effect(id, p)
    <3>1. CASE state = "open" /\ VirtualChannelOpenEvent(Text(m("HCBT_MINMAX", id, <<>>, p)))
      <4>1. PICK wid : wid = Wid("HCBT_MINMAX", id, p)
        OBVIOUS
      <4>2. HandleOther(wid)
        BY <3>1, <4>1, <2>2, <1>1, Received
      <4>3. wid.pos = Rect(p)
        BY <4>1, KeyIs
      <4> QED BY <4>2, <4>3, <3>1, <2>1, <2>2, OtherStep
    <3>2. CASE Lose("HCBT_MINMAX" # "HCBT_MINMAX")
      <4>1. Lose(FALSE)
        BY <3>2
      <4> QED BY <4>1, <2>1, <2>2, LostStep
    <3> QED BY <3>1, <3>2, <2>2
  <2> QED BY <2>2, <2>3, MessageStep
<1>6. CASE ServerDestroys(id)
  <2>1. PICK p : p = server[id]
    OBVIOUS
  <2>2. /\ p # Null /\ p \in Places /\ server' = [server EXCEPT ![id] = Null]
        /\ sent < MaxMessages /\ sent' = sent + 1
        /\ \/ state = "open" /\ VirtualChannelOpenEvent(Text(m("HSHELL_WINDOWDESTROYED", id, <<>>, p)))
           \/ Lose("HSHELL_WINDOWDESTROYED" # "HCBT_MINMAX")
    BY <1>1, <1>2, <1>6, <2>1 DEF ServerDestroys
  <2>3. Effect(id, Null)
    <3>1. CASE state = "open" /\ VirtualChannelOpenEvent(Text(m("HSHELL_WINDOWDESTROYED", id, <<>>, p)))
      <4>1. PICK wid : wid = Wid("HSHELL_WINDOWDESTROYED", id, p)
        OBVIOUS
      <4>2. HandleDestroyed(wid)
        BY <3>1, <4>1, <2>2, <1>1, Received
      <4>3. Key(wid) = id /\ wid.pos = Rect(p)
        BY <4>1, KeyIs
      <4> QED BY <4>2, <4>3, <3>1, <2>1, <2>2, DestroyedStep
    <3>2. CASE Lose("HSHELL_WINDOWDESTROYED" # "HCBT_MINMAX")
      <4>1. Lose(TRUE)
        BY <3>2
      <4> QED BY <4>1, <2>2, LostStep
    <3> QED BY <3>1, <3>2, <2>2
  <2> QED BY <2>2, <2>3, MessageStep
<1> QED BY <1>3, <1>4, <1>5, <1>6, <1>m

LEMMA AnyStep == IInv /\ [Next]_vars => IInv' /\ OneChanges
<1>1. SUFFICES ASSUME IInv, [Next]_vars PROVE IInv' /\ OneChanges
  OBVIOUS
<1>2. CASE VirtualChannelEntry
  BY <1>1, <1>2, EntryStep DEF OneChanges
<1>3. CASE Connected \/ Disconnected \/ Terminated
  <2>1. /\ UNCHANGED <<tableVars, clipVars, server, sent, failures, lost>>
        /\ state # "new" /\ state' \in {"initialized", "open", "terminated"}
    BY <1>3 DEF Connected, Disconnected, Terminated
  <2> QED BY <1>1, <2>1, QuietStep DEF OneChanges
<1>4. CASE UNCHANGED vars
  <2>1. UNCHANGED <<tableVars, clipVars, server, sent, failures, lost>> /\ state' = state
    BY <1>4 DEF vars
  <2> QED BY <1>1, <2>1, QuietStep DEF OneChanges
<1>5. ASSUME NEW id \in Ids,
             \/ \E at \in Places, title \in Titles : ServerCreates(id, title, at)
             \/ \E at \in Places, type \in {t[1] : t \in Moving} : ServerMoves(type, id, at)
             \/ ServerMinMax(id) \/ ServerDestroys(id)
      PROVE  IInv' /\ OneChanges
  BY <1>1, <1>5, ServerStep
<1> QED BY <1>1, <1>2, <1>3, <1>4, <1>5 DEF Next

-----------------------------------------------------------------------------
(***************************************************************************)
(* The table the DLL has.                                                  *)
(***************************************************************************)

\* What a message does to the table.
Served(id) ==
    \/ m_ht' = m_ht
    \/ \E d \in Nat, fails \in BOOLEAN : m_ht' = hash_insert(id, d, m_ht, fails).table
    \/ m_ht' = hash_del(id, m_ht).table

LEMMA MessageServed ==
    ASSUME TypeInv, sent < MaxMessages, state = "open",
           NEW id \in Ids, NEW title \in Titles \cup {<<>>}, NEW at \in Places,
           NEW type \in {"HSHELL_WINDOWCREATED", "HSHELL_WINDOWDESTROYED", "HCBT_MINMAX",
                         "HCBT_MOVESIZE", "CALLWNDPROC_WM_MOVING"},
           VirtualChannelOpenEvent(Text([type |-> type, id |-> id, title |-> title, at |-> at]))
    PROVE  Served(id)
<1>w. PICK wid : wid = Wid(type, id, at)
  OBVIOUS
<1>1. HandleCreated(wid) \/ HandleDestroyed(wid) \/ HandleMoved(wid) \/ HandleOther(wid)
  BY <1>w, Received
<1>2. Key(wid) = id
  BY <1>w, KeyIs
<1>3. CASE HandleCreated(wid)
  <2>1. PICK mallocFails \in BOOLEAN :
            m_ht' = hash_insert(id, New(DOMAIN heap), m_ht, mallocFails).table
    BY <1>2, <1>3 DEF HandleCreated
  <2>2. New(DOMAIN heap) \in Nat
    <3>1. sent \in Nat /\ DOMAIN heap \in SUBSET (1 .. sent)
      BY DEF TypeInv, Objects
    <3>2. New(DOMAIN heap) \in 1 .. sent + 1
      BY <3>1, NewIs
    <3> QED BY <3>1, <3>2
  <2> QED BY <2>1, <2>2 DEF Served
<1>4. CASE HandleDestroyed(wid)
  BY <1>2, <1>4 DEF HandleDestroyed, Served
<1>5. CASE HandleMoved(wid) \/ HandleOther(wid)
  BY <1>5 DEF HandleMoved, HandleOther, Served
<1> QED BY <1>1, <1>3, <1>4, <1>5

LEMMA SendServed ==
    ASSUME TypeInv, NEW id \in Ids, NEW title \in Titles \cup {<<>>}, NEW at \in Places,
           NEW type \in {"HSHELL_WINDOWCREATED", "HSHELL_WINDOWDESTROYED", "HCBT_MINMAX",
                         "HCBT_MOVESIZE", "CALLWNDPROC_WM_MOVING"},
           Send([type |-> type, id |-> id, title |-> title, at |-> at])
    PROVE  Served(id)
<1>m. PICK m : m = [type |-> type, id |-> id, title |-> title, at |-> at]
  OBVIOUS
<1>1. /\ sent < MaxMessages
      /\ (state = "open" /\ VirtualChannelOpenEvent(Text(m))) \/ Lose(m.type # "HCBT_MINMAX")
  BY <1>m DEF Send
<1>2. CASE state = "open" /\ VirtualChannelOpenEvent(Text(m))
  BY <1>1, <1>2, <1>m, MessageServed
<1>3. CASE Lose(m.type # "HCBT_MINMAX")
  BY <1>3 DEF Lose, tableVars, Served
<1> QED BY <1>1, <1>2, <1>3

LEMMA ServerServed ==
    ASSUME TypeInv, NEW id \in Ids,
           \/ \E at \in Places, title \in Titles : ServerCreates(id, title, at)
           \/ \E at \in Places, type \in {t[1] : t \in Moving} : ServerMoves(type, id, at)
           \/ ServerMinMax(id) \/ ServerDestroys(id)
    PROVE  Served(id)
<1>1. /\ server[id] # Null => server[id] \in Places
      /\ <<>> \in Titles \cup {<<>>} /\ \A title \in Titles : title \in Titles \cup {<<>>}
  BY DEF TypeInv
<1>m. {t[1] : t \in Moving} = {"HCBT_MOVESIZE", "CALLWNDPROC_WM_MOVING"}
  <2>1. <<"HCBT_MOVESIZE">>[1] = "HCBT_MOVESIZE" /\ <<"CALLWNDPROC_WM_MOVING">>[1] = "CALLWNDPROC_WM_MOVING"
    OBVIOUS
  <2> QED BY <2>1 DEF Moving
<1>2. ASSUME NEW at \in Places, NEW title \in Titles, ServerCreates(id, title, at) PROVE Served(id)
  BY <1>1, <1>2, SendServed DEF ServerCreates
<1>3. ASSUME NEW at \in Places, NEW type \in {"HCBT_MOVESIZE", "CALLWNDPROC_WM_MOVING"},
             ServerMoves(type, id, at)
      PROVE  Served(id)
  BY <1>1, <1>3, SendServed DEF ServerMoves
<1>4. CASE ServerMinMax(id)
  BY <1>1, <1>4, SendServed DEF ServerMinMax
<1>5. CASE ServerDestroys(id)
  BY <1>1, <1>5, SendServed DEF ServerDestroys
<1> QED BY <1>2, <1>3, <1>4, <1>5, <1>m

LEMMA NewTableCounts ==
    ASSUME NEW n \in Nat PROVE CountOK(hash_construct_table(n))
<1>1. /\ hash_construct_table(n).count = 0
      /\ KnownIds(hash_construct_table(n)) = {}
  BY EmptyTable DEF hash_construct_table, KnownIds
<1> QED BY <1>1, FS_EmptySet DEF CountOK

LEMMA CountKept == IInv /\ CountOK(m_ht) /\ [Next]_vars => CountOK(m_ht')
<1>1. SUFFICES ASSUME IInv, CountOK(m_ht), [Next]_vars PROVE CountOK(m_ht')
  OBVIOUS
<1>2. TypeInv /\ TableOK(m_ht)
  BY <1>1 DEF IInv, TypeInv, Objects
<1>3. CASE VirtualChannelEntry
  BY <1>3, NewTableCounts DEF VirtualChannelEntry
<1>4. CASE Connected \/ Disconnected \/ Terminated \/ UNCHANGED vars
  BY <1>1, <1>4 DEF Connected, Disconnected, Terminated, vars, tableVars
<1>5. ASSUME NEW id \in Ids, Served(id), m_ht.size # 0 PROVE CountOK(m_ht')
  BY <1>1, <1>2, <1>5, InsertCounts, DelCounts DEF Served
<1>6. ASSUME NEW id \in Ids, m_ht.size = 0,
             \/ \E at \in Places, title \in Titles : ServerCreates(id, title, at)
             \/ \E at \in Places, type \in {t[1] : t \in Moving} : ServerMoves(type, id, at)
             \/ ServerMinMax(id) \/ ServerDestroys(id)
      PROVE  m_ht' = m_ht
  <2>1. state # "open"
    BY <1>2, <1>6 DEF TypeInv
  <2>2. \A m : Send(m) => m_ht' = m_ht
    BY <2>1 DEF Send, Lose, tableVars
  <2> QED BY <2>2, <1>6 DEF ServerCreates, ServerMoves, ServerMinMax, ServerDestroys
<1>7. ASSUME NEW id \in Ids,
             \/ \E at \in Places, title \in Titles : ServerCreates(id, title, at)
             \/ \E at \in Places, type \in {t[1] : t \in Moving} : ServerMoves(type, id, at)
             \/ ServerMinMax(id) \/ ServerDestroys(id)
      PROVE  CountOK(m_ht')
  <2>1. Served(id)
    BY <1>2, <1>7, ServerServed
  <2> QED BY <2>1, <1>1, <1>5, <1>6, <1>7
<1> QED BY <1>1, <1>3, <1>4, <1>7 DEF Next

LEMMA TableRight == IInv /\ CountOK(m_ht) => TableFunctionsAgree
<1>1. SUFFICES ASSUME IInv, CountOK(m_ht) PROVE TableFunctionsAgree
  OBVIOUS
<1>e. PICK all, n : all = Entries /\ n = Len(all)
  OBVIOUS
<1>2. TableOK(m_ht) /\ \A k \in KnownIds(m_ht) : Data(m_ht, k) \in DOMAIN heap
  BY <1>1 DEF IInv, TypeInv, Objects
<1>3. /\ Keyed(all) /\ n \in Nat /\ DOMAIN all = 1 .. n
      /\ \A i \in 1 .. n : all[i].data \in DOMAIN heap
  <2>1. Keyed(all) /\ all \in Seq(Bucket)
    BY <1>2, <1>e, EnumerateIs DEF Entries, Keyed
  <2>2. \A i \in 1 .. n : all[i].key \in KnownIds(m_ht) /\ all[i].data = Data(m_ht, all[i].key)
    BY <1>2, <1>e, EntriesAre DEF Entries
  <2> QED BY <2>1, <2>2, <1>2, <1>e
<1>4. m_ht.count = n
  BY <1>1, <1>2, <1>e, EntriesCount DEF CountOK, Entries
<1>5. PICK sorted : sorted = hash_sorted_enum(m_ht)
  OBVIOUS
<1>6. /\ Len(sorted) = n /\ ToSet(sorted) = ToSet(all)
      /\ \A i \in 1 .. Len(sorted) - 1 : Less(sorted[i].key, sorted[i + 1].key)
  <2>1. CASE n = 0
    <3>1. sorted = <<>> /\ all = <<>>
      BY <2>1, <1>3, <1>4, <1>5, <1>e DEF hash_sorted_enum, Keyed
    <3> QED BY <3>1, <2>1
  <2>2. CASE n # 0
    <3>1. SubSeq(all, 1, n) = all
      BY <1>3, <1>e DEF Keyed
    <3>2. sorted = qsort(all)
      BY <3>1, <2>2, <1>4, <1>5, <1>e DEF hash_sorted_enum, Entries
    <3> QED BY <3>2, <1>3, <1>e, qsortIs
  <2> QED BY <2>1, <2>2
<1>7. /\ hash_free_table(m_ht).left = 0
      /\ hash_free_table(m_ht).freed = [i \in DOMAIN all |-> all[i].data]
  BY <1>1, <1>2, <1>e, FreeTableIs DEF Entries
<1> QED BY <1>3, <1>4, <1>5, <1>6, <1>7, <1>e DEF TableFunctionsAgree

-----------------------------------------------------------------------------
(***************************************************************************)
(* The theorems.                                                           *)
(***************************************************************************)

\* The table is in order, its data are different objects that exist, and as long
\* as nothing was lost it follows the server's windows, with their taskbar
\* windows.
THEOREM Invariance == Spec => []IInv
BY InitiallyIInv, AnyStep, PTL DEF Spec

\* The client falls over a HSHELL_WINDOWDESTROYED only if it missed something.
THEOREM CrashNeedsLoss == Spec => []CrashOnlyAfterLoss
<1>1. IInv => CrashOnlyAfterLoss
  BY DEF IInv
<1> QED BY <1>1, Invariance, PTL

\* On the desktop it makes no difference that negative coordinates count as zero
\* (the comment at clipper.cpp:93).
LEMMA ClampedAlike ==
    ASSUME NEW at \in Places
    PROVE  LET r == Rect(at) IN Box(r[1], r[2], r[3], r[4]) = OnScreen(at)
<1>1. ASSUME NEW i \in 1 .. 4
      PROVE  /\ Atoi(at[i]) \in Int
             /\ Rect(at)[i] = IF Atoi(at[i]) < 0 THEN 0 ELSE Atoi(at[i])
  <2>1. <<at[i]>> # <<>> /\ <<at[i]>>[1] = at[i]
    OBVIOUS
  <2> QED BY <2>1, ClipperAssumption DEF Rect, Coordinate
<1>c. PICK a, b, c, d : a = Atoi(at[1]) /\ b = Atoi(at[2]) /\ c = Atoi(at[3]) /\ d = Atoi(at[4])
  OBVIOUS
<1>r. PICK e, f, g, h : e = Rect(at)[1] /\ f = Rect(at)[2] /\ g = Rect(at)[3] /\ h = Rect(at)[4]
  OBVIOUS
<1>2. /\ a \in Int /\ b \in Int /\ c \in Int /\ d \in Int
      /\ e = IF a < 0 THEN 0 ELSE a
      /\ f = IF b < 0 THEN 0 ELSE b
      /\ g = IF c < 0 THEN 0 ELSE c
      /\ h = IF d < 0 THEN 0 ELSE d
  BY <1>1, <1>c, <1>r
<1>3. Width \in Nat /\ Height \in Nat
  BY ClipperAssumption
<1>4. ASSUME NEW p \in Screen
      PROVE  /\ e <= p[1] <=> a <= p[1]
             /\ p[1] < g <=> p[1] < c
             /\ f <= p[2] <=> b <= p[2]
             /\ p[2] < h <=> p[2] < d
  <2>1. p[1] \in Nat /\ p[2] \in Nat
    BY <1>3 DEF Screen
  <2> QED BY <2>1, <1>2
<1>5. Box(e, f, g, h) = Box(a, b, c, d)
  BY <1>4 DEF Box
<1> QED BY <1>5, <1>c, <1>r DEF OnScreen

\* As long as nothing was lost, what is shown is what the server's windows cover
\* of the desktop, wherever they are, ...
LEMMA ShowsRight == IInv => ShowsTheWindows
<1>. DEFINE w == Windows(m_ht, heap)
            there == {id \in Ids : server[id] # Null}
            known == {id \in Ids : w[id] # Null}
<1>1. SUFFICES ASSUME IInv, ~ lost, m_mainWindow
               PROVE  region = IF there = {} /\ ~ ALWAYS_CLIP THEN Screen
                               ELSE UNION {OnScreen(server[id]) : id \in there}
  BY DEF ShowsTheWindows
<1>2. \A k \in Ids : w[k] = IF server[k] = Null THEN Null ELSE Rect(server[k])
  BY <1>1 DEF IInv, Follows
<1>3. \A k \in Ids : server[k] # Null => server[k] \in Places
  BY <1>1 DEF IInv, TypeInv
<1>4. region = Map!Shown(w)
  <2>1. region = Region(m_ht, heap) /\ Objects(m_ht, heap, sent)
    BY <1>1 DEF IInv, TypeInv
  <2> QED BY <2>1, RegionIs
<1>5. Map!Shown(w) = IF known = {} /\ ~ ALWAYS_CLIP THEN Screen
                     ELSE UNION {Box(w[k][1], w[k][2], w[k][3], w[k][4]) : k \in known}
  BY Zenon DEF Map!Shown
<1>. HIDE DEF w
<1>6. known = there
  BY <1>2, <1>3, TitlesAssumption
<1>7. ASSUME NEW k \in there
      PROVE  Box(w[k][1], w[k][2], w[k][3], w[k][4]) = OnScreen(server[k])
  <2>1. PICK at \in Places : at = server[k]
    BY <1>3
  <2>2. w[k] = Rect(at)
    BY <1>2, <2>1
  <2> QED BY <2>1, <2>2, ClampedAlike
<1>8. {Box(w[k][1], w[k][2], w[k][3], w[k][4]) : k \in there} = {OnScreen(server[k]) : k \in there}
  <2>. HIDE DEF there
  <2> QED BY <1>7
<1>. HIDE DEF there, known
<1> QED BY <1>4, <1>5, <1>6, <1>8

\* ... and there is one taskbar window for each window of the table, but for those
\* for which CreateWindow failed, and no other.
LEMMA TaskbarRight == IInv => TaskbarMatches
<1>1. SUFFICES ASSUME IInv, ~ lost PROVE TaskbarMatches
  BY DEF TaskbarMatches
<1>v. PICK t, h, b, f : t = m_ht /\ h = heap /\ b = bars /\ f = failures
  OBVIOUS
<1>a. PICK all : all = hash_enumerate(t)
  OBVIOUS
<1>2. /\ TableOK(t) /\ Taskbar(t, h, b, f)
      /\ f \in Nat /\ IsFiniteSet(b)
  <2>1. sent \in Nat /\ b \in SUBSET (1 .. sent)
    BY <1>1, <1>v, ClipperAssumption DEF IInv, TypeInv
  <2>2. IsFiniteSet(b)
    BY <2>1, FinitePart
  <2> QED BY <2>2, <1>1, <1>v DEF IInv, TypeInv, Objects
<1>3. /\ all \in Seq(Bucket)
      /\ \A i \in 1 .. Len(all) :
            all[i].key \in KnownIds(t) /\ all[i].data = Data(t, all[i].key)
      /\ \A k \in KnownIds(t) : \E i \in 1 .. Len(all) : all[i].key = k
  BY <1>2, <1>a, EntriesAre
<1>4. {h[all[i].data].bar : i \in DOMAIN all} = {Bar(t, h, k) : k \in KnownIds(t)}
  <2>1. ASSUME NEW i \in DOMAIN all
        PROVE  \E k \in KnownIds(t) : h[all[i].data].bar = Bar(t, h, k)
    BY <1>3 DEF Bar
  <2>2. ASSUME NEW k \in KnownIds(t)
        PROVE  \E i \in DOMAIN all : h[all[i].data].bar = Bar(t, h, k)
    BY <1>3 DEF Bar
  <2> QED BY <2>1, <2>2
<1>5. /\ b = {h[all[i].data].bar : i \in DOMAIN all} \ {0}
      /\ Cardinality(KnownIds(t)) <= Cardinality(b) + f
  BY <1>2, <1>4 DEF Taskbar
<1>6. Cardinality(b) + f >= Len(all)
  <2>1. Cardinality(KnownIds(t)) = Len(all) /\ Cardinality(b) \in Nat /\ Len(all) \in Nat
    BY <1>2, <1>3, <1>a, EntriesCount, FS_CardinalityType
  <2> QED BY <2>1, <1>2, <1>5
<1>7. Entries = all
  BY <1>a, <1>v DEF Entries
<1> QED BY <1>5, <1>6, <1>7, <1>v DEF TaskbarMatches

\* What the user sees of the server is what there is.
THEOREM ScreenIsRight == Spec => []ScreenMatches
<1>1. IInv => ScreenMatches
  BY ShowsRight, TaskbarRight DEF ScreenMatches
<1> QED BY <1>1, Invariance, PTL

\* The functions of the table are right on every table that can occur: its count,
\* hash_sorted_enum, and hash_free_table, which deletes while it enumerates
\* (hash.cpp lines 239-275, 342-394).
THEOREM TableFunctionsAreRight == Spec => []TableFunctionsAgree
<1>1. Init => CountOK(m_ht)
  BY NewTableCounts DEF Init
<1>2. IInv /\ CountOK(m_ht) /\ [Next]_vars => CountOK(m_ht)'
  BY CountKept
<1> QED BY <1>1, <1>2, Invariance, TableRight, PTL DEF Spec

LEMMA MapIs ==
    ASSUME NEW t, NEW h, NEW n, Objects(t, h, n), NEW found, NEW r, found => r = Region(t, h)
    PROVE  /\ Windows(t, h) \in [Ids -> Rects \cup {Null}]
           /\ (IF found THEN r ELSE Region(t, h)) = Map!Shown(Windows(t, h))
<1>1. ASSUME NEW k \in Ids PROVE Windows(t, h)[k] \in Rects \cup {Null}
  BY DEF Objects, Windows, KnownIds
<1>2. Windows(t, h) \in [Ids -> Rects \cup {Null}]
  BY <1>1 DEF Windows
<1> QED BY <1>2, RegionIs

LEMMA MapInitially == Init => Map!MapInit
<1>1. SUFFICES ASSUME Init PROVE Map!MapInit
  OBVIOUS
<1>2. Objects(m_ht, heap, sent) /\ (m_mainWindow => region = Region(m_ht, heap))
  BY <1>1, InitiallyIInv DEF IInv, TypeInv
<1>3. Shows = Map!Shown(Windows(m_ht, heap))
  BY <1>2, MapIs DEF Shows
<1>4. \A k \in Ids : Data(m_ht, k) = Null
  BY <1>1, EmptyTable DEF Init
<1>5. Windows(m_ht, heap) = [k \in Ids |-> Null]
  BY <1>4 DEF Windows
<1> QED BY <1>3, <1>5 DEF Map!MapInit

LEMMA MapStep ==
    IInv /\ IInv' /\ OneChanges => [Map!Change]_(<<Windows(m_ht, heap), Shows>>)
<1>1. SUFFICES ASSUME IInv, IInv', OneChanges
               PROVE  [Map!Change]_(<<Windows(m_ht, heap), Shows>>)
  OBVIOUS
<1>2. /\ Objects(m_ht, heap, sent) /\ (m_mainWindow => region = Region(m_ht, heap))
      /\ Objects(m_ht', heap', sent') /\ (m_mainWindow' => region' = Region(m_ht', heap'))
  BY <1>1 DEF IInv, TypeInv
<1>3. Shows = Map!Shown(Windows(m_ht, heap))
  BY <1>2, MapIs DEF Shows
<1>4. /\ Windows(m_ht', heap') \in [Ids -> Rects \cup {Null}]
      /\ (IF m_mainWindow' THEN region' ELSE Region(m_ht', heap')) = Map!Shown(Windows(m_ht', heap'))
  BY <1>2, MapIs
<1>5. Shows' = Map!Shown(Windows(m_ht', heap'))
  BY <1>4 DEF Shows
<1>6. CASE Windows(m_ht', heap') = Windows(m_ht, heap)
  BY <1>3, <1>5, <1>6
<1>7. CASE \E id \in Ids : \A l \in Ids \ {id} : Windows(m_ht', heap')[l] = Windows(m_ht, heap)[l]
  BY <1>4, <1>5, <1>7 DEF Map!Change, Rects
<1> QED BY <1>1, <1>6, <1>7 DEF OneChanges

\* The table and the region implement the map of windows: each message changes one
\* window, and what is shown follows.
THEOREM TableImplementsMap == Spec => ImplementsMap
BY MapInitially, Invariance, AnyStep, MapStep, PTL DEF Spec, ImplementsMap, Map!MapSpec
=============================================================================
