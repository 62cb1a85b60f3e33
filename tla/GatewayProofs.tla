---------------------------- MODULE GatewayProofs ---------------------------
(***************************************************************************)
(* What holds of the gateway's hash ring and of its breakers, for any       *)
(* number of nodes, virtual nodes, keys and requests.  The ring: Routing.   *)
(* The breaker of one node: Breaker, at the end of the module.              *)
(*                                                                          *)
(* The ring's points are the only list of their set that goes up by hash    *)
(* (OnlyOrder), so a ring is known by its nodes.  A walk from a key goes    *)
(* through that list clockwise (TourAhead), the owner of the key is the     *)
(* first node on it, and the replicas come in the order in which the walk   *)
(* meets their nodes first (MetInTurn).                                     *)
(***************************************************************************)
EXTENDS Routing, Breaker, SequenceTheorems, FiniteSetTheorems, FunctionTheorems, TLAPS

Meeting == INSTANCE SequenceFolds WITH Op <- Meet
Leaving == INSTANCE SequenceFolds WITH Op <- Stays

Point == [hash : Nat, node : Nodes]

\* Points at different places of the circle.
Spread(P) == P \subseteq Point /\ \A p, q \in P : p.hash = q.hash => p = q

\* A list of the set P, each element once; and the one in the order of the hashes.
Lists(s, P) ==
    /\ s \in Seq(P) /\ \A p \in P : \E i \in 1..Len(s) : s[i] = p
    /\ \A i, j \in 1..Len(s) : s[i] = s[j] => i = j
InOrder(s, P) ==
    /\ s \in Seq(P) /\ \A p \in P : \E i \in 1..Len(s) : s[i] = p
    /\ \A i, j \in 1..Len(s) : i < j => s[i].hash < s[j].hash

-----------------------------------------------------------------------------
\* Lists and their order.

LEMMA SeqFrom ==
  ASSUME NEW S, NEW n \in Nat, NEW s \in [1..n -> S] PROVE s \in Seq(S) /\ Len(s) = n
  OBVIOUS

LEMMA SeqIn ==
  ASSUME NEW S, NEW T, S \subseteq T, NEW s \in Seq(S) PROVE s \in Seq(T)
  OBVIOUS

LEMMA FirstOnes ==
  ASSUME NEW S, NEW s \in Seq(S), NEW m \in Nat, m <= Len(s)
  PROVE  /\ SubSeq(s, 1, m) \in Seq(S) /\ Len(SubSeq(s, 1, m)) = m
         /\ \A i \in 1..m : SubSeq(s, 1, m)[i] = s[i]
<1>1. SubSeq(s, 1, m) \in Seq(S) /\ Len(SubSeq(s, 1, m)) = m
  OBVIOUS
<1>2. \A i \in 1..m : SubSeq(s, 1, m)[i] = s[i]
  OBVIOUS
<1> QED
  BY <1>1, <1>2

\* A set of indices without gaps is an interval.
LEMMA Initial ==
  ASSUME NEW n \in Nat, NEW A \in SUBSET (1..n), \A i \in A : 1..i \subseteq A
  PROVE  Cardinality(A) \in 0..n /\ A = 1..Cardinality(A)
<1> DEFINE T == {m \in Nat : A \subseteq 1..m => \E k \in 0..m : A = 1..k}
<1>1. 0 \in T
  <2>1. 1..0 = {} /\ 0 \in 0..0
    OBVIOUS
  <2> QED
    BY <2>1
<1>2. ASSUME NEW m \in Nat, m \in T PROVE m + 1 \in T
  <2> SUFFICES ASSUME A \subseteq 1..(m + 1) PROVE \E k \in 0..(m + 1) : A = 1..k
    OBVIOUS
  <2>1. CASE m + 1 \in A
    <3>1. 1..(m + 1) \subseteq A /\ m + 1 \in 0..(m + 1)
      BY <2>1
    <3>2. A = 1..(m + 1)
      BY <3>1, Zenon
    <3> QED
      BY <3>1, <3>2
  <2>2. CASE m + 1 \notin A
    <3>1. A \subseteq 1..m
      BY <2>2
    <3>2. PICK k \in 0..m : A = 1..k
      BY <1>2, <3>1
    <3> QED
      BY <3>2
  <2> QED
    BY <2>1, <2>2
<1> HIDE DEF T
<1>3. n \in T
  BY <1>1, <1>2, Meeting!Induction
<1>4. PICK k \in 0..n : A = 1..k
  BY <1>3 DEF T
<1>5. Cardinality(A) = k
  BY <1>4, FS_Interval
<1> QED
  BY <1>4, <1>5

\* The points before a hash, counted.
LEMMA BeforeIs ==
  ASSUME NEW P, NEW s \in Seq(P), NEW h
  PROVE  /\ Before(s, h) \in SUBSET (1..Len(s)) /\ IsFiniteSet(Before(s, h))
         /\ Cardinality(Before(s, h)) \in 0..Len(s)
<1>1. Before(s, h) \in SUBSET (1..Len(s))
  BY DEF Before
<1>2. Len(s) \in Nat /\ IsFiniteSet(1..Len(s)) /\ Cardinality(1..Len(s)) = Len(s)
  <2>1. Len(s) \in Nat
    OBVIOUS
  <2> QED
    BY <2>1, FS_Interval
<1>3. IsFiniteSet(Before(s, h)) /\ Cardinality(Before(s, h)) <= Len(s)
  BY <1>1, <1>2, FS_Subset
<1>4. Cardinality(Before(s, h)) \in Nat
  BY <1>3, FS_CardinalityType
<1> QED
  BY <1>1, <1>3, <1>4

\* In a list in order they come first: Search (sort.Search) finds the next.
LEMMA BeforeFirst ==
  ASSUME NEW P, Spread(P), NEW s, InOrder(s, P), NEW h \in Nat
  PROVE  /\ Cardinality(Before(s, h)) \in 0..Len(s)
         /\ \A i \in 1..Len(s) : s[i].hash < h <=> i <= Cardinality(Before(s, h))
<1>1. /\ s \in Seq(P) /\ Len(s) \in Nat /\ \A i \in 1..Len(s) : s[i].hash \in Nat
      /\ \A i, j \in 1..Len(s) : i < j => s[i].hash < s[j].hash
  <2>1. s \in Seq(P) /\ \A p \in P : p.hash \in Nat
    BY DEF InOrder, Spread, Point
  <2>2. Len(s) \in Nat /\ \A i \in 1..Len(s) : s[i] \in P
    BY <2>1
  <2> QED
    BY <2>1, <2>2 DEF InOrder
<1>2. Before(s, h) = {i \in 1..Len(s) : s[i].hash < h}
  BY <1>1 DEF Before
<1>3. \A i \in Before(s, h) : 1..i \subseteq Before(s, h)
  <2> SUFFICES ASSUME NEW i \in Before(s, h), NEW j \in 1..i PROVE j \in Before(s, h)
    OBVIOUS
  <2>1. i \in 1..Len(s) /\ j \in 1..Len(s) /\ (j = i \/ j < i)
    BY <1>1, <1>2
  <2>2. s[i].hash < h /\ s[j].hash <= s[i].hash
    BY <1>1, <1>2, <2>1
  <2> QED
    BY <1>1, <1>2, <2>1, <2>2
<1>4. Cardinality(Before(s, h)) \in 0..Len(s) /\ Before(s, h) = 1..Cardinality(Before(s, h))
  BY <1>1, <1>2, <1>3, Initial
<1> QED
  BY <1>2, <1>4

\* Which place a point takes is told by the points before it.
LEMMA Ranks ==
  ASSUME NEW P, Spread(P), NEW s, Lists(s, P)
  PROVE  /\ \A p \in P : /\ Cardinality(Before(s, p.hash)) \in Nat
                         /\ Cardinality(Before(s, p.hash)) < Len(s)
                         /\ Cardinality(Before(s, p.hash + 1)) = Cardinality(Before(s, p.hash)) + 1
         /\ \A p, q \in P : p.hash < q.hash =>
              Cardinality(Before(s, p.hash)) < Cardinality(Before(s, q.hash))
         /\ \A i \in 1..Len(s) : \E p \in P : Cardinality(Before(s, p.hash)) = i - 1
<1> DEFINE n == Len(s)
           r(p) == Cardinality(Before(s, p.hash))
<1>1. /\ s \in Seq(P) /\ n \in Nat /\ DOMAIN s = 1..n /\ \A i \in 1..n : s[i] \in P
      /\ \A p \in P : p.hash \in Nat
  <2>1. s \in Seq(P) /\ \A p \in P : p.hash \in Nat
    BY DEF Lists, Spread, Point
  <2> QED
    BY <2>1
<1>2. \A h : /\ IsFiniteSet(Before(s, h)) /\ Cardinality(Before(s, h)) \in 0..n
             /\ Before(s, h) = {i \in 1..n : s[i].hash < h}
  BY <1>1, BeforeIs DEF Before
<1>3. ASSUME NEW p \in P
      PROVE  r(p) \in Nat /\ r(p) < n /\ Cardinality(Before(s, p.hash + 1)) = r(p) + 1
  <2>1. PICK j \in 1..n : s[j] = p
    BY DEF Lists
  <2>2. \A i \in 1..n : s[i].hash \in Nat /\ (s[i].hash = p.hash <=> i = j)
    BY <1>1, <2>1 DEF Lists, Spread
  <2>3. p.hash \in Nat
    BY <1>1
  <2>4. Before(s, p.hash + 1) = Before(s, p.hash) \cup {j} /\ j \notin Before(s, p.hash)
    <3>1. \A i \in 1..n : s[i].hash < p.hash + 1 <=> s[i].hash < p.hash \/ i = j
      BY <2>2, <2>3
    <3>2. ~(s[j].hash < p.hash)
      BY <2>1, <2>3
    <3> QED
      BY <1>2, <3>1, <3>2
  <2>5. Cardinality(Before(s, p.hash + 1)) = Cardinality(Before(s, p.hash)) + 1
    BY <1>2, <2>4, FS_AddElement
  <2> QED
    BY <1>1, <1>2, <2>5
<1>4. ASSUME NEW p \in P, NEW q \in P, p.hash < q.hash PROVE r(p) < r(q)
  <2>1. Before(s, p.hash + 1) \subseteq Before(s, q.hash)
    <3>1. \A i \in 1..n : s[i].hash \in Nat /\ p.hash \in Nat /\ q.hash \in Nat
      BY <1>1
    <3>2. \A i \in 1..n : s[i].hash < p.hash + 1 => s[i].hash < q.hash
      BY <1>4, <3>1
    <3> QED
      BY <1>2, <3>2
  <2>2. Cardinality(Before(s, p.hash + 1)) <= Cardinality(Before(s, q.hash))
    BY <1>2, <2>1, FS_Subset
  <2> QED
    BY <1>2, <1>3, <2>2
<1>5. \A i \in 1..n : \E p \in P : r(p) = i - 1
  <2> DEFINE f == [i \in 1..n |-> r(s[i]) + 1]
  <2>1. ASSUME NEW i \in 1..n PROVE r(s[i]) + 1 \in 1..n
    BY <1>1, <1>3
  <2>2. ASSUME NEW i \in 1..n, NEW j \in 1..n, r(s[i]) + 1 = r(s[j]) + 1 PROVE i = j
    <3>1. s[i] \in P /\ s[j] \in P /\ s[i].hash \in Nat /\ s[j].hash \in Nat
      BY <1>1
    <3>2. r(s[i]) = r(s[j])
      BY <1>3, <2>2, <3>1
    <3>3. ~(s[i].hash < s[j].hash) /\ ~(s[j].hash < s[i].hash)
      BY <1>3, <1>4, <3>1, <3>2
    <3>4. s[i] = s[j]
      BY <3>1, <3>3 DEF Spread
    <3> QED
      BY <3>4 DEF Lists
  <2> HIDE DEF r
  <2>3. f \in [1..n -> 1..n] /\ \A i, j \in 1..n : f[i] = f[j] => i = j
    BY <2>1, <2>2
  <2>4. f \in Injection(1..n, 1..n)
    BY <2>3, Fun_IsInj
  <2>5. IsFiniteSet(1..n)
    BY <1>1, FS_Interval
  <2>6. f \in Surjection(1..n, 1..n)
    BY <2>4, <2>5, FS_Injection
  <2>7. ASSUME NEW i \in 1..n PROVE \E p \in P : r(p) = i - 1
    <3>1. PICK j \in 1..n : f[j] = i
      BY <2>6 DEF Surjection
    <3>2. r(s[j]) + 1 = i /\ r(s[j]) \in Nat /\ s[j] \in P
      BY <1>1, <1>3, <3>1 DEF r
    <3> QED
      BY <3>2
  <2> QED
    BY <2>7
<1> QED
  BY <1>3, <1>4, <1>5

\* Sorting puts any list of a set in order.
LEMMA SortedInOrder ==
  ASSUME NEW P, Spread(P), NEW s, Lists(s, P) PROVE InOrder(Sorted(s), P)
<1> DEFINE n == Len(s)
           r(p) == Cardinality(Before(s, p.hash))
           t == Sorted(s)
<1>1. /\ s \in Seq(P) /\ n \in Nat /\ DOMAIN s = 1..n /\ Range(s) = P
      /\ \A p \in P : p.hash \in Nat
  <2>1. s \in Seq(P) /\ \A p \in P : p.hash \in Nat
    BY DEF Lists, Spread, Point
  <2>2. n \in Nat /\ DOMAIN s = 1..n
    BY <2>1
  <2> QED
    BY <2>1, <2>2 DEF Lists, Range
<1>2. /\ \A p \in P : r(p) \in Nat /\ r(p) < n /\ Cardinality(Before(s, p.hash + 1)) = r(p) + 1
      /\ \A p, q \in P : p.hash < q.hash => r(p) < r(q)
      /\ \A i \in 1..n : \E p \in P : r(p) = i - 1
  BY Ranks
<1>3. t = [i \in 1..n |-> CHOOSE p \in P : r(p) < i /\ i <= Cardinality(Before(s, p.hash + 1))]
  BY <1>1 DEF Sorted
<1>4. ASSUME NEW i \in 1..n PROVE t[i] \in P /\ r(t[i]) = i - 1
  <2>1. \E p \in P : r(p) < i /\ i <= Cardinality(Before(s, p.hash + 1))
    <3>1. PICK p \in P : r(p) = i - 1
      BY <1>2
    <3>2. Cardinality(Before(s, p.hash + 1)) = r(p) + 1
      BY <1>2
    <3> HIDE DEF r
    <3> QED
      BY <3>1, <3>2
  <2>2. t[i] \in P /\ r(t[i]) < i /\ i <= Cardinality(Before(s, t[i].hash + 1))
    <3>1. t[i] = CHOOSE p \in P : r(p) < i /\ i <= Cardinality(Before(s, p.hash + 1))
      BY <1>3
    <3> HIDE DEF t, r
    <3> QED
      BY <2>1, <3>1
  <2>3. r(t[i]) \in Nat /\ Cardinality(Before(s, t[i].hash + 1)) = r(t[i]) + 1
    BY <1>2, <2>2
  <2> HIDE DEF t, r
  <2> QED
    BY <2>2, <2>3
<1> HIDE DEF t
<1>5. t \in [1..n -> P]
  <2>1. t = [i \in 1..n |-> t[i]]
    BY <1>3
  <2> QED
    BY <1>4, <2>1
<1>6. t \in Seq(P) /\ Len(t) = n
  BY <1>1, <1>5
<1> HIDE DEF r
<1>7. ASSUME NEW p \in P, NEW q \in P, r(p) = r(q) PROVE p = q
  <2>1. ~(p.hash < q.hash) /\ ~(q.hash < p.hash)
    BY <1>2, <1>7
  <2>2. p.hash = q.hash
    BY <1>1, <2>1
  <2> QED
    BY <2>2 DEF Spread
<1>8. ASSUME NEW p \in P PROVE \E i \in 1..Len(t) : t[i] = p
  <2>1. r(p) + 1 \in 1..n
    BY <1>1, <1>2
  <2>2. t[r(p) + 1] \in P /\ r(t[r(p) + 1]) = r(p)
    BY <1>2, <1>4, <2>1
  <2> QED
    BY <1>6, <1>7, <2>1, <2>2
<1>9. ASSUME NEW i \in 1..n, NEW j \in 1..n, i < j PROVE t[i].hash < t[j].hash
  <2>1. t[i] \in P /\ t[j] \in P /\ r(t[i]) < r(t[j]) /\ t[i].hash \in Nat /\ t[j].hash \in Nat
    BY <1>1, <1>4, <1>9
  <2>2. ~(r(t[j]) < r(t[i])) /\ r(t[i]) # r(t[j])
    BY <1>4, <1>9
  <2>3. ~(t[j].hash < t[i].hash)
    BY <1>2, <2>1, <2>2
  <2>4. t[i].hash # t[j].hash
    BY <2>1, <2>2 DEF Spread
  <2> QED
    BY <2>1, <2>3, <2>4
<1> QED
  BY <1>6, <1>8, <1>9 DEF InOrder, t

\* There is only one order.
LEMMA OnlyOrder ==
  ASSUME NEW P, Spread(P), NEW s, InOrder(s, P), NEW t, InOrder(t, P) PROVE s = t
<1>1. /\ s \in Seq(P) /\ Len(s) \in Nat /\ \A i \in 1..Len(s) : s[i] \in P
      /\ t \in Seq(P) /\ Len(t) \in Nat /\ \A i \in 1..Len(t) : t[i] \in P
  BY DEF InOrder
<1>2. \A p \in P : p.hash \in Nat
  BY DEF Spread, Point
<1>3. /\ \A p \in P : (\E i \in 1..Len(s) : s[i] = p) /\ (\E i \in 1..Len(t) : t[i] = p)
      /\ \A i, j \in 1..Len(s) : i < j => s[i].hash < s[j].hash
      /\ \A i, j \in 1..Len(t) : i < j => t[i].hash < t[j].hash
      /\ \A p, q \in P : p.hash = q.hash => p = q
  BY DEF InOrder, Spread
<1> DEFINE T == {n \in Nat : \A i \in 1..n :
                   (i <= Len(s) <=> i <= Len(t)) /\ (i <= Len(s) => s[i] = t[i])}
<1>4. 0 \in T
  OBVIOUS
<1>5. ASSUME NEW n \in Nat, n \in T PROVE n + 1 \in T
  <2> DEFINE m == n + 1
  <2>1. ASSUME m <= Len(s) PROVE m <= Len(t) /\ t[m].hash <= s[m].hash
    <3>1. m \in 1..Len(s)
      BY <2>1
    <3>2. PICK j \in 1..Len(t) : t[j] = s[m]
      BY <1>1, <1>3, <3>1
    <3>3. ~(j < m)
      <4> SUFFICES ASSUME j < m PROVE FALSE
        OBVIOUS
      <4>1. j \in 1..n /\ j \in 1..Len(s)
        BY <1>1, <3>1
      <4>2. s[j] = t[j]
        BY <1>5, <4>1
      <4>3. s[j].hash < s[m].hash
        BY <1>3, <3>1, <4>1
      <4> QED
        BY <1>1, <1>2, <3>1, <3>2, <4>2, <4>3
    <3>4. m <= Len(t) /\ m \in 1..Len(t)
      BY <1>1, <3>2, <3>3
    <3>5. t[m].hash <= t[j].hash
      <4>1. m = j \/ m < j
        BY <1>1, <3>2, <3>3, <3>4
      <4>2. t[m].hash \in Nat /\ t[j].hash \in Nat
        BY <1>1, <1>2, <3>2, <3>4
      <4> HIDE DEF m
      <4> QED
        BY <1>3, <3>2, <3>4, <4>1, <4>2
    <3> QED
      BY <3>2, <3>4, <3>5
  <2>2. ASSUME m <= Len(t) PROVE m <= Len(s) /\ s[m].hash <= t[m].hash
    <3>1. m \in 1..Len(t)
      BY <2>2
    <3>2. PICK j \in 1..Len(s) : s[j] = t[m]
      BY <1>1, <1>3, <3>1
    <3>3. ~(j < m)
      <4> SUFFICES ASSUME j < m PROVE FALSE
        OBVIOUS
      <4>1. j \in 1..n /\ j \in 1..Len(t)
        BY <1>1, <3>1
      <4>2. s[j] = t[j]
        BY <1>5, <4>1
      <4>3. t[j].hash < t[m].hash
        BY <1>3, <3>1, <4>1
      <4> QED
        BY <1>1, <1>2, <3>1, <3>2, <4>2, <4>3
    <3>4. m <= Len(s) /\ m \in 1..Len(s)
      BY <1>1, <3>2, <3>3
    <3>5. s[m].hash <= s[j].hash
      <4>1. m = j \/ m < j
        BY <1>1, <3>2, <3>3, <3>4
      <4>2. s[m].hash \in Nat /\ s[j].hash \in Nat
        BY <1>1, <1>2, <3>2, <3>4
      <4> HIDE DEF m
      <4> QED
        BY <1>3, <3>2, <3>4, <4>1, <4>2
    <3> QED
      BY <3>2, <3>4, <3>5
  <2>3. ASSUME m <= Len(s) PROVE s[m] = t[m]
    <3>1. m \in 1..Len(s) /\ m \in 1..Len(t)
      BY <2>1, <2>3
    <3>2. s[m] \in P /\ t[m] \in P
      BY <1>1, <3>1
    <3>3. s[m].hash = t[m].hash
      BY <1>2, <2>1, <2>2, <2>3, <3>1, <3>2
    <3> QED
      BY <1>3, <3>2, <3>3
  <2>4. \A i \in 1..m : i \in 1..n \/ i = m
    OBVIOUS
  <2> HIDE DEF m
  <2>5. \A i \in 1..m : (i <= Len(s) <=> i <= Len(t)) /\ (i <= Len(s) => s[i] = t[i])
    BY <1>5, <2>1, <2>2, <2>3, <2>4
  <2> QED
    BY <2>5 DEF m
<1> HIDE DEF T
<1>6. \A n \in Nat : n \in T
  BY <1>4, <1>5, Meeting!Induction
<1>7. \A i \in Nat \ {0} : (i <= Len(s) <=> i <= Len(t)) /\ (i <= Len(s) => s[i] = t[i])
  BY <1>6 DEF T
<1>8. Len(s) = Len(t)
  BY <1>1, <1>7
<1> QED
  BY <1>1, <1>7, <1>8, SeqEqual

-----------------------------------------------------------------------------
\* Rings.

\* The virtual nodes of some nodes, and the ring that New, Add and Remove keep: the
\* virtual nodes of its nodes, in order.
PointSet(ns) ==
    {p \in Point : p.node \in ns /\ \E i \in DOMAIN hash[p.node] : p.hash = hash[p.node][i]}
IsRing(r) ==
    /\ r = [nodes |-> r.nodes, points |-> r.points]
    /\ r.nodes \subseteq Nodes
    /\ InOrder(r.points, PointSet(r.nodes))

LEMMA SpreadPoints ==
  ASSUME hash \in Layouts, NEW ns PROVE Spread(PointSet(ns))
<1>1. PointSet(ns) \subseteq Point
  BY DEF PointSet
<1>2. ASSUME NEW p \in PointSet(ns), NEW q \in PointSet(ns), p.hash = q.hash PROVE p = q
  <2>1. PICK i \in DOMAIN hash[p.node] : p.hash = hash[p.node][i]
    BY DEF PointSet
  <2>2. PICK j \in DOMAIN hash[q.node] : q.hash = hash[q.node][j]
    BY DEF PointSet
  <2>3. p \in Point /\ q \in Point
    BY <1>1
  <2>4. p.node \in Nodes /\ q.node \in Nodes
    BY <2>3 DEF Point
  <2>5. p.node = q.node
    BY <1>2, <2>1, <2>2, <2>4, RoutingAssumption
  <2> QED
    BY <1>2, <2>3, <2>5 DEF Point
<1> QED
  BY <1>1, <1>2 DEF Spread

\* What a node brings to the ring.
LEMMA PointsListed ==
  ASSUME hash \in Layouts, NEW n \in Nodes
  PROVE  /\ Lists(PointsOf(hash, n), PointSet({n}))
         /\ PointSet({n}) # {}
<1> DEFINE s == PointsOf(hash, n)
<1>1. hash[n] \in Seq(Nat) /\ hash[n] # <<>>
  BY RoutingAssumption
<1>2. /\ Len(hash[n]) \in Nat /\ DOMAIN hash[n] = 1..Len(hash[n])
      /\ \A i \in 1..Len(hash[n]) : hash[n][i] \in Nat
  BY <1>1
<1>3. s = [i \in 1..Len(hash[n]) |-> [hash |-> hash[n][i], node |-> n]]
  BY <1>2 DEF PointsOf
<1>4. \A i \in 1..Len(hash[n]) : s[i] \in PointSet({n}) /\ s[i].hash = hash[n][i]
  <2> SUFFICES ASSUME NEW i \in 1..Len(hash[n])
               PROVE  s[i] \in PointSet({n}) /\ s[i].hash = hash[n][i]
    OBVIOUS
  <2>1. s[i] = [hash |-> hash[n][i], node |-> n]
    BY <1>3
  <2>2. s[i] \in Point /\ s[i].hash = hash[n][i] /\ s[i].node = n
    BY <1>2, <2>1 DEF Point
  <2> HIDE DEF s
  <2> QED
    BY <1>2, <2>2 DEF PointSet
<1>5. \A p \in PointSet({n}) : \E i \in 1..Len(hash[n]) : s[i] = p
  <2> SUFFICES ASSUME NEW p \in PointSet({n}) PROVE \E i \in 1..Len(hash[n]) : s[i] = p
    OBVIOUS
  <2>1. p \in Point /\ p.node = n
    BY DEF PointSet
  <2>2. PICK i \in 1..Len(hash[n]) : p.hash = hash[n][i]
    BY <1>2, <2>1 DEF PointSet
  <2>3. p = [hash |-> hash[n][i], node |-> n]
    BY <2>1, <2>2 DEF Point
  <2> QED
    BY <1>3, <2>3
<1>6. \A i, j \in 1..Len(hash[n]) : hash[n][i] = hash[n][j] => i = j
  BY <1>2, RoutingAssumption
<1> HIDE DEF s
<1>7. s \in Seq(PointSet({n})) /\ Len(s) = Len(hash[n])
  <2>1. s = [i \in 1..Len(hash[n]) |-> s[i]]
    BY <1>3
  <2>2. s \in [1..Len(hash[n]) -> PointSet({n})]
    BY <1>4, <2>1
  <2> QED
    BY <1>2, <2>2, SeqFrom
<1>8. Lists(s, PointSet({n}))
  <2>1. \A i, j \in 1..Len(s) : s[i] = s[j] => i = j
    <3> SUFFICES ASSUME NEW i \in 1..Len(s), NEW j \in 1..Len(s), s[i] = s[j] PROVE i = j
      OBVIOUS
    <3>1. s[i].hash = hash[n][i] /\ s[j].hash = hash[n][j]
      BY <1>4, <1>7
    <3> QED
      BY <1>6, <1>7, <3>1
  <2> QED
    BY <1>5, <1>7, <2>1 DEF Lists
<1>9. PointSet({n}) # {}
  <2>1. Len(hash[n]) # 0
    BY <1>1
  <2>2. 1 \in 1..Len(hash[n])
    BY <1>2, <2>1
  <2> QED
    BY <1>4, <2>2
<1> QED
  BY <1>8, <1>9 DEF s

\* Putting two lists together, when they share nothing.
LEMMA ListsTogether ==
  ASSUME NEW P, NEW Q, P \cap Q = {}, NEW s, Lists(s, P), NEW t, Lists(t, Q)
  PROVE  Lists(s \o t, P \cup Q)
<1> DEFINE u == s \o t
<1>1. /\ s \in Seq(P) /\ Len(s) \in Nat /\ \A i \in 1..Len(s) : s[i] \in P
      /\ t \in Seq(Q) /\ Len(t) \in Nat /\ \A i \in 1..Len(t) : t[i] \in Q
  BY DEF Lists
<1>2. s \in Seq(P \cup Q) /\ t \in Seq(P \cup Q)
  BY <1>1
<1>3. /\ u \in Seq(P \cup Q) /\ Len(u) = Len(s) + Len(t)
      /\ \A i \in 1..Len(s) : u[i] = s[i]
      /\ \A i \in 1..Len(t) : u[Len(s) + i] = t[i]
  BY <1>1, <1>2
<1> HIDE DEF u
<1>4. \A p \in P \cup Q : \E i \in 1..Len(u) : u[i] = p
  <2>1. ASSUME NEW p \in P PROVE \E i \in 1..Len(u) : u[i] = p
    <3>1. PICK i \in 1..Len(s) : s[i] = p
      BY DEF Lists
    <3>2. i \in 1..Len(u) /\ u[i] = p
      BY <1>1, <1>3, <3>1
    <3> QED
      BY <3>2
  <2>2. ASSUME NEW p \in Q PROVE \E i \in 1..Len(u) : u[i] = p
    <3>1. PICK i \in 1..Len(t) : t[i] = p
      BY DEF Lists
    <3>2. Len(s) + i \in 1..Len(u) /\ u[Len(s) + i] = p
      BY <1>1, <1>3, <3>1
    <3> QED
      BY <3>2
  <2> QED
    BY <2>1, <2>2
<1>5. \A i, j \in 1..Len(u) : u[i] = u[j] => i = j
  <2> SUFFICES ASSUME NEW i \in 1..Len(u), NEW j \in 1..Len(u), u[i] = u[j] PROVE i = j
    OBVIOUS
  <2>1. \A k \in 1..Len(u) : \/ k \in 1..Len(s) /\ u[k] = s[k] /\ u[k] \in P
                             \/ k - Len(s) \in 1..Len(t) /\ u[k] = t[k - Len(s)] /\ u[k] \in Q
    <3> SUFFICES ASSUME NEW k \in 1..Len(u), k \notin 1..Len(s)
                 PROVE  k - Len(s) \in 1..Len(t) /\ u[k] = t[k - Len(s)] /\ u[k] \in Q
      BY <1>1, <1>3
    <3>1. k - Len(s) \in 1..Len(t) /\ Len(s) + (k - Len(s)) = k
      BY <1>1, <1>3
    <3>2. u[Len(s) + (k - Len(s))] = t[k - Len(s)]
      BY <1>3, <3>1
    <3> QED
      BY <1>1, <3>1, <3>2
  <2>2. \A k, l \in 1..Len(s) : s[k] = s[l] => k = l
    BY DEF Lists
  <2>3. \A k, l \in 1..Len(t) : t[k] = t[l] => k = l
    BY DEF Lists
  <2>4. CASE u[i] \in P
    <3>1. u[i] \notin Q
      BY <2>4
    <3> QED
      BY <2>1, <2>2, <3>1
  <2>5. CASE u[i] \notin P
    <3>1. i - Len(s) = j - Len(s)
      BY <2>1, <2>3, <2>5
    <3> QED
      BY <1>1, <3>1
  <2> QED
    BY <2>4, <2>5
<1> QED
  BY <1>3, <1>4, <1>5 DEF Lists, u

LEMMA OrderLists ==
  ASSUME NEW P, Spread(P), NEW s, InOrder(s, P) PROVE Lists(s, P)
<1>1. s \in Seq(P) /\ \A p \in P : p.hash \in Nat
  BY DEF InOrder, Spread, Point
<1>2. Len(s) \in Nat /\ \A i \in 1..Len(s) : s[i] \in P /\ s[i].hash \in Nat
  BY <1>1
<1>3. \A i, j \in 1..Len(s) : i < j => s[i].hash < s[j].hash
  BY DEF InOrder
<1>4. ASSUME NEW i \in 1..Len(s), NEW j \in 1..Len(s), s[i] = s[j] PROVE i = j
  <2>1. ~(i < j) /\ ~(j < i)
    BY <1>2, <1>3, <1>4
  <2> QED
    BY <1>2, <2>1
<1> QED
  BY <1>1, <1>4 DEF Lists, InOrder

LEMMA PointSetOf ==
  ASSUME NEW ns, NEW n
  PROVE  /\ PointSet(ns \cup {n}) = PointSet(ns) \cup PointSet({n})
         /\ n \notin ns => PointSet(ns) \cap PointSet({n}) = {}
         /\ PointSet(ns \ {n}) = {p \in PointSet(ns) : p.node # n}
  BY DEF PointSet

\* New lists the points of its nodes, whatever the order of the nodes, and sorts them.
ListStep(ps, n) == ps \o PointsOf(hash, n)
Listing == INSTANCE SequenceFolds WITH Op <- ListStep

LEMMA NewIsRing ==
  ASSUME hash \in Layouts, NEW ns \in SUBSET Nodes
  PROVE  IsRing(NewRing(hash, ns)) /\ NewRing(hash, ns).nodes = ns
<1> DEFINE R == {x \in (SUBSET ns) \X Seq(Point) : Lists(x[2], PointSet(x[1]))}
<1>1. IsFiniteSet(ns)
  BY RoutingAssumption, FS_Subset
<1>2. <<{}, <<>>>> \in R
  <2>1. PointSet({}) = {} /\ <<>> \in Seq({}) /\ <<>> \in Seq(Point) /\ Len(<<>>) = 0
    BY DEF PointSet
  <2>2. Lists(<<>>, PointSet({}))
    BY <2>1 DEF Lists
  <2> QED
    BY <2>1, <2>2
<1>3. ASSUME NEW t \in SUBSET ns, NEW n \in ns, NEW v, n \notin t, <<t, v>> \in R
      PROVE  <<t \cup {n}, ListStep(v, n)>> \in R
  <2>1. Lists(v, PointSet(t))
    BY <1>3
  <2>2. Lists(PointsOf(hash, n), PointSet({n}))
    BY PointsListed
  <2>3. Lists(ListStep(v, n), PointSet(t \cup {n}))
    <3>1. /\ PointSet(t) \cap PointSet({n}) = {}
          /\ PointSet(t \cup {n}) = PointSet(t) \cup PointSet({n})
      BY <1>3, PointSetOf
    <3>2. Lists(ListStep(v, n), PointSet(t) \cup PointSet({n}))
      BY <2>1, <2>2, <3>1, ListsTogether DEF ListStep
    <3> QED
      BY <3>1, <3>2
  <2>4. ListStep(v, n) \in Seq(Point)
    <3>1. ListStep(v, n) \in Seq(PointSet(t \cup {n})) /\ PointSet(t \cup {n}) \subseteq Point
      BY <2>3 DEF Lists, PointSet
    <3> QED
      BY <3>1, SeqIn
  <2> QED
    BY <2>3, <2>4
<1> HIDE DEF R
<1>4. <<ns, Listing!FoldOver(<<>>, ns)>> \in R
  <2>1. \A t \in SUBSET ns : \A x \in ns \ t : \A v :
          <<t, v>> \in R => <<t \cup {x}, ListStep(v, x)>> \in R
    BY <1>3
  <2>2. Listing!IsFiniteSet(ns)
    BY <1>1 DEF IsFiniteSet, Listing!IsFiniteSet
  <2> QED
    BY <1>2, <2>1, <2>2, Listing!FoldOverRelates
<1>5. Listed(hash, ns) = Listing!FoldOver(<<>>, ns)
  BY DEF Listed, ListStep, Listing!FoldOver, FoldSet, Listing!FoldSet, MapThenFoldSet,
         Listing!MapThenFoldSet
<1>6. Lists(Listed(hash, ns), PointSet(ns))
  BY <1>4, <1>5 DEF R
<1>7. InOrder(Sorted(Listed(hash, ns)), PointSet(ns))
  BY <1>6, SpreadPoints, SortedInOrder
<1> QED
  BY <1>7 DEF NewRing, IsRing

\* Add.
LEMMA AddIsRing ==
  ASSUME hash \in Layouts, NEW r, IsRing(r), NEW n \in Nodes
  PROVE  IsRing(AddNode(hash, r, n)) /\ AddNode(hash, r, n).nodes = r.nodes \cup {n}
<1>1. CASE n \in r.nodes
  BY <1>1 DEF AddNode
<1>2. CASE n \notin r.nodes
  <2>1. Lists(r.points, PointSet(r.nodes))
    BY SpreadPoints, OrderLists DEF IsRing
  <2>2. Lists(PointsOf(hash, n), PointSet({n}))
    BY PointsListed
  <2>3. Lists(r.points \o PointsOf(hash, n), PointSet(r.nodes \cup {n}))
    <3>1. /\ PointSet(r.nodes) \cap PointSet({n}) = {}
          /\ PointSet(r.nodes \cup {n}) = PointSet(r.nodes) \cup PointSet({n})
      BY <1>2, PointSetOf
    <3>2. Lists(r.points \o PointsOf(hash, n), PointSet(r.nodes) \cup PointSet({n}))
      BY <2>1, <2>2, <3>1, ListsTogether
    <3> QED
      BY <3>1, <3>2
  <2>4. InOrder(Sorted(r.points \o PointsOf(hash, n)), PointSet(r.nodes \cup {n}))
    BY <2>3, SpreadPoints, SortedInOrder
  <2>5. AddNode(hash, r, n) = [nodes  |-> r.nodes \cup {n},
                               points |-> Sorted(r.points \o PointsOf(hash, n))]
    BY <1>2 DEF AddNode
  <2> QED
    BY <2>4, <2>5 DEF IsRing
<1> QED
  BY <1>1, <1>2

\* Remove.
LEMMA WithoutInOrder ==
  ASSUME NEW P, Spread(P), NEW s, InOrder(s, P), NEW n
  PROVE  InOrder(Without(s, n), {p \in P : p.node # n})
<1> DEFINE start == [gone |-> n, points |-> <<>>]
           L(k) == Leaving!Fold(start, SubSeq(s, 1, k))
           Met(k) == {p \in P : p.node # n /\ \E i \in 1..k : s[i] = p}
           Reached(k) == \E t : L(k) = [gone |-> n, points |-> t] /\ InOrder(t, Met(k))
           T == {k \in Nat : k <= Len(s) => Reached(k)}
<1>1. /\ s \in Seq(P) /\ Len(s) \in Nat /\ \A i \in 1..Len(s) : s[i] \in P
      /\ \A p \in P : p.hash \in Nat
  <2>1. s \in Seq(P) /\ \A p \in P : p.hash \in Nat
    BY DEF InOrder, Spread, Point
  <2> QED
    BY <2>1
<1>2. /\ L(0) = start /\ L(Len(s)) = Leaving!Fold(start, s)
      /\ \A k \in Nat : k < Len(s) => L(k + 1) = Stays(L(k), s[k + 1])
  <2> HIDE DEF start
  <2> QED
    BY <1>1, Leaving!FoldPrefix
<1> HIDE DEF L
<1>3. Reached(0)
  <2>1. Met(0) = {} /\ <<>> \in Seq({}) /\ Len(<<>>) = 0
    OBVIOUS
  <2>2. InOrder(<<>>, Met(0))
    BY <2>1 DEF InOrder
  <2> QED
    BY <1>2, <2>2
<1>4. ASSUME NEW k \in Nat, k + 1 <= Len(s), Reached(k) PROVE Reached(k + 1)
  <2> DEFINE p == s[k + 1]
  <2>1. k < Len(s) /\ k + 1 \in 1..Len(s) /\ p \in P /\ k <= Len(s)
    BY <1>1, <1>4
  <2>2. PICK t : L(k) = [gone |-> n, points |-> t] /\ InOrder(t, Met(k))
    BY <1>4, <2>1
  <2>3. L(k + 1) = Stays(L(k), p)
    BY <1>2, <2>1
  <2>4. \A i \in 1..(k + 1) : i \in 1..k \/ i = k + 1
    OBVIOUS
  <2>5. \A i \in 1..k : i \in 1..(k + 1)
    OBVIOUS
  <2>6. CASE p.node = n
    <3>1. L(k + 1) = [gone |-> n, points |-> t]
      BY <2>2, <2>3, <2>6 DEF Stays
    <3>2. Met(k + 1) = Met(k)
      BY <2>4, <2>5, <2>6
    <3> QED
      BY <2>2, <3>1, <3>2
  <2>7. CASE p.node # n
    <3> DEFINE u == Append(t, p)
    <3>1. L(k + 1) = [gone |-> n, points |-> u]
      BY <2>2, <2>3, <2>7 DEF Stays
    <3>2. Met(k + 1) = Met(k) \cup {p} /\ k + 1 \in 1..(k + 1)
      BY <2>1, <2>4, <2>5, <2>7
    <3>3. /\ t \in Seq(Met(k)) /\ Len(t) \in Nat /\ \A i \in 1..Len(t) : t[i] \in Met(k)
      <4> HIDE DEF Met
      <4>1. t \in Seq(Met(k))
        BY <2>2 DEF InOrder
      <4> QED
        BY <4>1
    <3>4. \A q \in Met(k) : q.hash < p.hash
      <4> SUFFICES ASSUME NEW q \in Met(k) PROVE q.hash < p.hash
        OBVIOUS
      <4>1. PICK i \in 1..k : s[i] = q
        OBVIOUS
      <4>2. i < k + 1 /\ i \in 1..Len(s)
        BY <1>1, <2>1
      <4> QED
        BY <2>1, <4>1, <4>2 DEF InOrder
    <3> HIDE DEF Met, p
    <3>5. t \in Seq(Met(k + 1)) /\ p \in Met(k + 1)
      BY <3>2, <3>3
    <3>6. /\ u \in Seq(Met(k + 1)) /\ Len(u) = Len(t) + 1 /\ u[Len(t) + 1] = p
          /\ \A i \in 1..Len(t) : u[i] = t[i]
      BY <3>5
    <3> HIDE DEF u
    <3>7. \A q \in Met(k + 1) : \E i \in 1..Len(u) : u[i] = q
      <4>1. \A q \in Met(k) : \E i \in 1..Len(t) : t[i] = q
        BY <2>2 DEF InOrder
      <4>2. ASSUME NEW q \in Met(k) PROVE \E i \in 1..Len(u) : u[i] = q
        <5>1. PICK i \in 1..Len(t) : t[i] = q
          BY <4>1
        <5>2. i \in 1..Len(u) /\ u[i] = q
          BY <3>3, <3>6, <5>1
        <5> QED
          BY <5>2
      <4>3. Len(t) + 1 \in 1..Len(u)
        BY <3>3, <3>6
      <4> QED
        BY <3>2, <3>6, <4>2, <4>3
    <3>8. \A i, j \in 1..Len(u) : i < j => u[i].hash < u[j].hash
      <4> SUFFICES ASSUME NEW i \in 1..Len(u), NEW j \in 1..Len(u), i < j
                   PROVE  u[i].hash < u[j].hash
        OBVIOUS
      <4>1. i \in 1..Len(t) /\ (j \in 1..Len(t) \/ j = Len(t) + 1)
        BY <3>3, <3>6
      <4>2. CASE j \in 1..Len(t)
        <5>1. t[i].hash < t[j].hash
          BY <2>2, <4>1, <4>2 DEF InOrder
        <5> QED
          BY <3>6, <4>1, <4>2, <5>1
      <4>3. CASE j = Len(t) + 1
        BY <3>3, <3>4, <3>6, <4>1, <4>3
      <4> QED
        BY <4>1, <4>2, <4>3
    <3>9. InOrder(u, Met(k + 1))
      BY <3>6, <3>7, <3>8 DEF InOrder
    <3> QED
      BY <3>1, <3>9
  <2> QED
    BY <2>6, <2>7
<1> HIDE DEF Met, Reached
<1>5. Reached(Len(s))
  <2>1. 0 \in T /\ \A k \in Nat : k \in T => k + 1 \in T
    BY <1>1, <1>3, <1>4
  <2> HIDE DEF T
  <2>2. Len(s) \in T
    BY <1>1, <2>1, Meeting!Induction
  <2> QED
    BY <1>1, <2>2 DEF T
<1>6. PICK t : L(Len(s)) = [gone |-> n, points |-> t] /\ InOrder(t, Met(Len(s)))
  BY <1>5 DEF Reached
<1>7. Without(s, n) = Leaving!Fold(start, s).points
  BY DEF Without, Leaving!Fold, FoldLeft, Leaving!FoldLeft, MapThenFoldSet,
         Leaving!MapThenFoldSet, Max, Leaving!Max
<1>8. Met(Len(s)) = {p \in P : p.node # n}
  BY DEF InOrder, Met
<1>9. Leaving!Fold(start, s).points = t
  BY <1>2, <1>6
<1> QED
  BY <1>6, <1>7, <1>8, <1>9

LEMMA RemoveIsRing ==
  ASSUME hash \in Layouts, NEW r, IsRing(r), NEW n
  PROVE  IsRing(RemoveNode(r, n)) /\ RemoveNode(r, n).nodes = r.nodes \ {n}
<1>1. InOrder(Without(r.points, n), {p \in PointSet(r.nodes) : p.node # n})
  BY SpreadPoints, WithoutInOrder DEF IsRing
<1>2. InOrder(Without(r.points, n), PointSet(r.nodes \ {n}))
  BY <1>1, PointSetOf
<1> QED
  BY <1>2 DEF RemoveNode, IsRing

\* A ring is known by its nodes.
LEMMA RingIsNew ==
  ASSUME hash \in Layouts, NEW r, IsRing(r) PROVE r = NewRing(hash, r.nodes)
<1> DEFINE q == NewRing(hash, r.nodes)
<1>1. IsRing(q) /\ q.nodes = r.nodes
  BY NewIsRing DEF IsRing
<1> HIDE DEF q
<1>2. q.points = r.points
  BY <1>1, SpreadPoints, OnlyOrder DEF IsRing
<1> QED
  BY <1>1, <1>2 DEF IsRing, q

-----------------------------------------------------------------------------
\* Walking the ring.

LEMMA Wrap ==
  ASSUME NEW L \in Nat \ {0}, NEW x \in Nat
  PROVE  /\ x < L => x % L = x
         /\ x >= L /\ x < L + L => x % L = x - L
<1>1. x < L => x % L = x
  BY SMT
<1>2. x >= L /\ x < L + L => x % L = x - L
  BY SMT
<1> QED
  BY <1>1, <1>2

\* Of two points, one comes first on the way round from a key; and the first of a set.
Ahead(p, q, k) ==
    \/ p.hash >= k /\ q.hash < k
    \/ (p.hash >= k <=> q.hash >= k) /\ p.hash < q.hash
Next1(P, k, p) == p \in P /\ \A q \in P : q = p \/ Ahead(p, q, k)

\* The points in the order in which Owner and Replicas look at them.
Tour(s, k) ==
    [i \in DOMAIN s |-> s[((Cardinality(Before(s, k)) + i - 1) % Len(s)) + 1]]

LEMMA NextIsOne ==
  ASSUME NEW P, Spread(P), NEW k \in Nat, NEW p, Next1(P, k, p), NEW q, Next1(P, k, q)
  PROVE  p = q
<1>1. p \in P /\ q \in P /\ p.hash \in Nat /\ q.hash \in Nat
  BY DEF Next1, Spread, Point
<1> QED
  BY <1>1 DEF Next1, Ahead

LEMMA TourAhead ==
  ASSUME NEW P, Spread(P), NEW s, InOrder(s, P), NEW k \in Nat
  PROVE  /\ Tour(s, k) \in Seq(P) /\ Len(Tour(s, k)) = Len(s)
         /\ \A p \in P : \E i \in 1..Len(s) : Tour(s, k)[i] = p
         /\ \A i, j \in 1..Len(s) : i < j => Ahead(Tour(s, k)[i], Tour(s, k)[j], k)
<1> DEFINE L == Len(s)
           m == Cardinality(Before(s, k))
           at(i) == IF m + i <= L THEN m + i ELSE m + i - L
           t == Tour(s, k)
<1>1. /\ s \in Seq(P) /\ L \in Nat /\ DOMAIN s = 1..L
      /\ \A i \in 1..L : s[i] \in P /\ s[i].hash \in Nat
  <2>1. s \in Seq(P) /\ \A p \in P : p.hash \in Nat
    BY DEF InOrder, Spread, Point
  <2> QED
    BY <2>1
<1>2. m \in 0..L /\ \A i \in 1..L : s[i].hash < k <=> i <= m
  BY BeforeFirst
<1>3. t = [i \in 1..L |-> s[((m + i - 1) % L) + 1]]
  BY <1>1 DEF Tour
<1> HIDE DEF m, t, L
<1>4. ASSUME NEW i \in 1..L PROVE at(i) \in 1..L /\ t[i] = s[at(i)] /\ (at(i) > m <=> m + i <= L)
  <2>1. L \in Nat \ {0} /\ m + i - 1 \in Nat /\ m \in Nat /\ m <= L /\ i \in Nat /\ i >= 1 /\ i <= L
    BY <1>1, <1>2
  <2>2. CASE m + i <= L
    <3>1. m + i - 1 < L
      BY <2>1, <2>2
    <3>2. (m + i - 1) % L = m + i - 1
      BY <2>1, <3>1, Wrap
    <3>3. t[i] = s[(m + i - 1) + 1]
      BY <1>3, <3>2
    <3>4. (m + i - 1) + 1 = m + i
      BY <2>1
    <3> QED
      BY <2>1, <2>2, <3>3, <3>4
  <2>3. CASE ~(m + i <= L)
    <3>1. m + i - 1 >= L /\ m + i - 1 < L + L
      BY <2>1, <2>3
    <3>2. (m + i - 1) % L = (m + i - 1) - L
      BY <2>1, <3>1, Wrap
    <3>3. t[i] = s[((m + i - 1) - L) + 1]
      BY <1>3, <3>2
    <3>4. ((m + i - 1) - L) + 1 = m + i - L
      BY <2>1
    <3> QED
      BY <2>1, <2>3, <3>3, <3>4
  <2> QED
    BY <2>2, <2>3
<1>5. t \in [1..L -> P]
  <2>1. t = [i \in 1..L |-> t[i]]
    BY <1>3
  <2>2. \A i \in 1..L : t[i] \in P
    BY <1>1, <1>4
  <2> QED
    BY <2>1, <2>2
<1>6. t \in Seq(P) /\ Len(t) = L
  BY <1>1, <1>5, SeqFrom
<1>7. ASSUME NEW p \in P PROVE \E i \in 1..L : t[i] = p
  <2>1. PICK j \in 1..L : s[j] = p
    BY DEF InOrder, L
  <2> DEFINE i == IF j > m THEN j - m ELSE j + L - m
  <2>2. i \in 1..L /\ at(i) = j
    BY <1>1, <1>2
  <2> HIDE DEF i, at
  <2>3. t[i] = s[j]
    BY <1>4, <2>2
  <2> QED
    BY <2>1, <2>2, <2>3
<1>8. ASSUME NEW i \in 1..L, NEW j \in 1..L, i < j PROVE Ahead(t[i], t[j], k)
  <2>1. /\ at(i) \in 1..L /\ t[i] = s[at(i)] /\ (at(i) > m <=> m + i <= L)
        /\ at(j) \in 1..L /\ t[j] = s[at(j)] /\ (at(j) > m <=> m + j <= L)
    BY <1>4
  <2>2. /\ t[i].hash \in Nat /\ t[j].hash \in Nat
        /\ (t[i].hash < k <=> at(i) <= m) /\ (t[j].hash < k <=> at(j) <= m)
    BY <1>1, <1>2, <2>1
  <2>3. \/ at(i) > m /\ at(j) <= m
        \/ (at(i) > m <=> at(j) > m) /\ at(i) < at(j)
    BY <1>1, <1>2, <1>8, <2>1
  <2>4. at(i) < at(j) => s[at(i)].hash < s[at(j)].hash
    BY <2>1 DEF InOrder, L
  <2>5. at(i) \in Nat /\ at(j) \in Nat /\ m \in Nat
    BY <1>1, <1>2, <2>1
  <2> HIDE DEF at
  <2> QED
    BY <2>1, <2>2, <2>3, <2>4, <2>5 DEF Ahead
<1> QED
  BY <1>6, <1>7, <1>8 DEF t, L

\* Every node of the ring has points on it.
LEMMA EachHasPoints ==
  ASSUME hash \in Layouts, NEW r, IsRing(r), NEW n \in r.nodes
  PROVE  \E p \in PointSet(r.nodes) : p.node = n
<1>1. n \in Nodes
  BY DEF IsRing
<1>2. PICK p \in PointSet({n}) : TRUE
  BY <1>1, PointsListed
<1>3. p.node = n /\ p \in PointSet(r.nodes)
  BY <1>2 DEF PointSet
<1> QED
  BY <1>3

\* Owner: the node of the first point.
LEMMA OwnerIsNext ==
  ASSUME hash \in Layouts, NEW r, IsRing(r), r.nodes # {}, NEW k \in Nat
  PROVE  /\ Tour(r.points, k) \in Seq(PointSet(r.nodes)) /\ Len(Tour(r.points, k)) >= 1
         /\ Next1(PointSet(r.nodes), k, Tour(r.points, k)[1])
         /\ Owner(r, k) = Tour(r.points, k)[1].node
         /\ Owner(r, k) \in r.nodes
<1> DEFINE P == PointSet(r.nodes)
           s == r.points
           t == Tour(s, k)
<1>1. Spread(P) /\ InOrder(s, P) /\ s \in Seq(P) /\ Len(s) \in Nat /\ DOMAIN s = 1..Len(s)
  <2>1. Spread(P) /\ InOrder(s, P)
    BY SpreadPoints DEF IsRing
  <2>2. s \in Seq(P)
    BY <2>1 DEF InOrder
  <2> HIDE DEF P
  <2> QED
    BY <2>1, <2>2
<1>2. /\ t \in Seq(P) /\ Len(t) = Len(s)
      /\ \A p \in P : \E i \in 1..Len(s) : t[i] = p
      /\ \A i, j \in 1..Len(s) : i < j => Ahead(t[i], t[j], k)
  BY <1>1, TourAhead
<1>3. 1 \in 1..Len(s)
  <2>1. PICK n \in r.nodes : TRUE
    OBVIOUS
  <2>2. PICK p \in P : p.node = n
    BY EachHasPoints
  <2>3. PICK i \in 1..Len(s) : t[i] = p
    BY <1>2
  <2> HIDE DEF s
  <2> QED
    BY <1>1, <2>3
<1>4. Cardinality(Before(s, k)) \in 0..Len(s)
  BY <1>1, BeforeFirst
<1>5. t[1] = s[(Cardinality(Before(s, k)) % Len(s)) + 1]
  <2>1. t[1] = s[((Cardinality(Before(s, k)) + 1 - 1) % Len(s)) + 1]
    BY <1>1, <1>3 DEF Tour
  <2>2. Cardinality(Before(s, k)) + 1 - 1 = Cardinality(Before(s, k))
    BY <1>4
  <2> QED
    BY <2>1, <2>2
<1>6. s # <<>>
  BY <1>1, <1>3
<1>7. Owner(r, k) = t[1].node
  BY <1>5, <1>6 DEF Owner, Search
<1> HIDE DEF P, s, t
<1>8. t[1] \in P
  BY <1>2, <1>3
<1>9. ASSUME NEW q \in P PROVE q = t[1] \/ Ahead(t[1], q, k)
  <2>1. PICK i \in 1..Len(s) : t[i] = q
    BY <1>2
  <2>2. i = 1 \/ 1 < i
    BY <1>1, <2>1
  <2> QED
    BY <1>2, <1>3, <2>1, <2>2
<1>10. t[1].node \in r.nodes
  BY <1>8 DEF P, PointSet
<1>11. Len(t) >= 1
  BY <1>1, <1>2, <1>3
<1> QED
  BY <1>2, <1>7, <1>8, <1>9, <1>10, <1>11 DEF Next1, P, s, t

-----------------------------------------------------------------------------
\* The nodes of a walk, each where it is met first.

InTurn(met, w, k) ==
    /\ \A i \in 1..k : \E a \in 1..Len(met) : met[a] = w[i]
    /\ \A a \in 1..Len(met) : \E i \in 1..k : met[a] = w[i]
    /\ \A a, b \in 1..Len(met) : met[a] = met[b] => a = b
    /\ \A a, b \in 1..Len(met) : a < b =>
         \A y \in 1..k : w[y] = met[b] => \E x \in 1..k : x < y /\ w[x] = met[a]

LEMMA MeetInTurn ==
  ASSUME NEW S, NEW w, NEW k \in Nat, w[k + 1] \in S, NEW met \in Seq(S), InTurn(met, w, k)
  PROVE  Meet(met, w[k + 1]) \in Seq(S) /\ InTurn(Meet(met, w[k + 1]), w, k + 1)
<1> DEFINE n == w[k + 1]
           l == Len(met)
<1>1. l \in Nat /\ DOMAIN met = 1..l /\ (n \in Range(met) <=> \E a \in 1..l : met[a] = n)
  <2>1. l \in Nat /\ DOMAIN met = 1..l
    OBVIOUS
  <2> QED
    BY <2>1 DEF Range
<1>2. /\ k + 1 \in 1..(k + 1) /\ 1..k \subseteq 1..(k + 1)
      /\ \A i \in 1..(k + 1) : i \in 1..k \/ i = k + 1
  OBVIOUS
<1>3. CASE n \in Range(met)
  <2>1. Meet(met, n) = met
    BY <1>3 DEF Meet
  <2>2. ASSUME NEW a \in 1..l, NEW b \in 1..l, a < b, NEW y \in 1..(k + 1), w[y] = met[b]
        PROVE  \E x \in 1..(k + 1) : x < y /\ w[x] = met[a]
    <3>1. PICK z \in 1..k : z <= y /\ w[z] = met[b]
      <4>1. PICK z \in 1..k : w[z] = met[b]
        BY DEF InTurn
      <4> QED
        BY <1>2, <2>2, <4>1
    <3>2. PICK x \in 1..k : x < z /\ w[x] = met[a]
      BY <2>2, <3>1 DEF InTurn
    <3> QED
      BY <1>2, <3>1, <3>2
  <2>3. \A i \in 1..(k + 1) : \E a \in 1..l : met[a] = w[i]
    BY <1>1, <1>2, <1>3 DEF InTurn
  <2>4. \A a \in 1..l : \E i \in 1..(k + 1) : met[a] = w[i]
    BY <1>2 DEF InTurn
  <2>5. InTurn(met, w, k + 1)
    BY <2>2, <2>3, <2>4 DEF InTurn
  <2> QED
    BY <2>1, <2>5
<1>4. CASE n \notin Range(met)
  <2> DEFINE u == Append(met, n)
  <2>1. Meet(met, n) = u
    BY <1>4 DEF Meet
  <2>2. /\ u \in Seq(S) /\ Len(u) = l + 1 /\ u[l + 1] = n /\ \A a \in 1..l : u[a] = met[a]
        /\ l + 1 \in 1..(l + 1) /\ \A a \in 1..(l + 1) : a \in 1..l \/ a = l + 1
        /\ 1..l \subseteq 1..(l + 1)
    OBVIOUS
  <2> HIDE DEF u
  <2>3. \A i \in 1..k : w[i] # n
    BY <1>1, <1>4 DEF InTurn
  <2> HIDE DEF n, l
  <2>4. ASSUME NEW a \in 1..(l + 1), NEW b \in 1..(l + 1), u[a] = u[b] PROVE a = b
    <3>1. CASE a \in 1..l /\ b \in 1..l
      BY <2>2, <2>4, <3>1 DEF InTurn, l
    <3>2. CASE a = l + 1 \/ b = l + 1
      BY <1>1, <1>4, <2>2, <2>4, <3>2
    <3> QED
      BY <2>2, <3>1, <3>2
  <2>5. ASSUME NEW a \in 1..(l + 1), NEW b \in 1..(l + 1), a < b, NEW y \in 1..(k + 1), w[y] = u[b]
        PROVE  \E x \in 1..(k + 1) : x < y /\ w[x] = u[a]
    <3>1. a \in 1..l
      BY <1>1, <2>5
    <3>2. CASE b \in 1..l
      <4>1. y \in 1..k
        BY <1>1, <1>2, <1>4, <2>2, <2>5, <3>2 DEF n
      <4>2. PICK x \in 1..k : x < y /\ w[x] = met[a]
        BY <2>2, <2>5, <3>1, <3>2, <4>1 DEF InTurn, l
      <4> QED
        BY <1>2, <2>2, <3>1, <4>2
    <3>3. CASE b = l + 1
      <4>1. y = k + 1
        BY <1>2, <2>2, <2>3, <2>5, <3>3
      <4>2. PICK x \in 1..k : met[a] = w[x]
        BY <3>1 DEF InTurn, l
      <4> QED
        BY <1>2, <2>2, <3>1, <4>1, <4>2
    <3> QED
      BY <2>2, <3>2, <3>3
  <2>6. \A i \in 1..(k + 1) : \E a \in 1..(l + 1) : u[a] = w[i]
    <3>1. \A i \in 1..k : \E a \in 1..l : met[a] = w[i]
      BY DEF InTurn, l
    <3>2. w[k + 1] = n
      BY DEF n
    <3> QED
      BY <1>2, <2>2, <3>1, <3>2
  <2>7. \A a \in 1..(l + 1) : \E i \in 1..(k + 1) : u[a] = w[i]
    <3>1. \A a \in 1..l : \E i \in 1..k : met[a] = w[i]
      BY DEF InTurn, l
    <3>2. w[k + 1] = n
      BY DEF n
    <3> QED
      BY <1>2, <2>2, <3>1, <3>2
  <2>8. InTurn(u, w, k + 1)
    BY <2>2, <2>4, <2>5, <2>6, <2>7 DEF InTurn
  <2> QED
    BY <2>1, <2>2, <2>8 DEF n
<1> QED
  BY <1>3, <1>4

LEMMA MetInTurn ==
  ASSUME NEW S, NEW w \in Seq(S)
  PROVE  FirstMet(w) \in Seq(S) /\ InTurn(FirstMet(w), w, Len(w))
<1> DEFINE L(k) == Meeting!Fold(<<>>, SubSeq(w, 1, k))
           T == {k \in Nat : k <= Len(w) => L(k) \in Seq(S) /\ InTurn(L(k), w, k)}
<1>1. /\ L(0) = <<>> /\ L(Len(w)) = Meeting!Fold(<<>>, w)
      /\ \A k \in Nat : k < Len(w) => L(k + 1) = Meet(L(k), w[k + 1])
  BY Meeting!FoldPrefix
<1>2. Len(w) \in Nat /\ \A k \in Nat : k < Len(w) => w[k + 1] \in S
  OBVIOUS
<1> HIDE DEF L
<1>3. 0 \in T
  <2>1. <<>> \in Seq(S) /\ Len(<<>>) = 0
    OBVIOUS
  <2>2. InTurn(<<>>, w, 0)
    BY <2>1 DEF InTurn
  <2> QED
    BY <1>1, <2>1, <2>2
<1>4. ASSUME NEW k \in Nat, k \in T PROVE k + 1 \in T
  <2> SUFFICES ASSUME k + 1 <= Len(w) PROVE L(k + 1) \in Seq(S) /\ InTurn(L(k + 1), w, k + 1)
    OBVIOUS
  <2>1. k < Len(w) /\ k <= Len(w)
    BY <1>2
  <2>2. L(k) \in Seq(S) /\ InTurn(L(k), w, k) /\ w[k + 1] \in S
    BY <1>2, <1>4, <2>1
  <2>3. L(k + 1) = Meet(L(k), w[k + 1])
    BY <1>1, <2>1
  <2> HIDE DEF T
  <2> QED
    BY <2>2, <2>3, MeetInTurn
<1> HIDE DEF T
<1>5. Len(w) \in T
  BY <1>2, <1>3, <1>4, Meeting!Induction
<1>6. FirstMet(w) = Meeting!Fold(<<>>, w)
  BY DEF FirstMet, Meeting!Fold, FoldLeft, Meeting!FoldLeft, MapThenFoldSet,
         Meeting!MapThenFoldSet, Max, Meeting!Max
<1> QED
  BY <1>1, <1>2, <1>5, <1>6 DEF T

\* A list of a set, each element once, is as long as the set is large.
LEMMA ListLength ==
  ASSUME NEW P, NEW s, Lists(s, P) PROVE IsFiniteSet(P) /\ Cardinality(P) = Len(s)
<1>1. s \in [1..Len(s) -> P] /\ Len(s) \in Nat
  <2>1. s \in Seq(P)
    BY DEF Lists
  <2> QED
    BY <2>1
<1>2. \A p \in P : \E i \in 1..Len(s) : s[i] = p
  BY DEF Lists
<1>3. \A i, j \in 1..Len(s) : s[i] = s[j] => i = j
  BY DEF Lists
<1>4. s \in Bijection(1..Len(s), P)
  <2> HIDE DEF Lists
  <2>1. s \in Injection(1..Len(s), P)
    BY <1>1, <1>3, Fun_IsInj
  <2>2. s \in Surjection(1..Len(s), P)
    BY <1>1, <1>2, Fun_IsSurj
  <2> QED
    BY <2>1, <2>2, Fun_IsBij, <1>1, <1>2, <1>3
<1>5. IsFiniteSet(1..Len(s)) /\ Cardinality(1..Len(s)) = Len(s)
  <2>1. Len(s) \in Nat
    BY <1>1
  <2> QED
    BY <2>1, FS_Interval
<1>6. ExistsBijection(1..Len(s), P)
  BY <1>4 DEF ExistsBijection
<1> QED
  BY <1>5, <1>6, FS_Bijection

\* All nodes of the ring are met, each once, the owner first.
LEMMA NodesMet ==
  ASSUME hash \in Layouts, NEW r, IsRing(r), r.nodes # {}, NEW k \in Nat
  PROVE  LET met == FirstMet(Walk(r, k))
             t == Tour(r.points, k)
         IN /\ Lists(met, r.nodes) /\ Len(met) = Cardinality(r.nodes)
            /\ InTurn(met, [i \in 1..Len(t) |-> t[i].node], Len(t))
            /\ Len(met) >= 1 /\ met[1] = Owner(r, k)
<1> DEFINE s == r.points
           t == Tour(s, k)
           w == [i \in 1..Len(t) |-> t[i].node]
           met == FirstMet(Walk(r, k))
           P == PointSet(r.nodes)
<1>1. /\ t \in Seq(P) /\ Len(t) >= 1 /\ Owner(r, k) = t[1].node
  BY OwnerIsNext
<1>2. /\ Len(t) = Len(s) /\ \A p \in P : \E i \in 1..Len(s) : t[i] = p
  BY SpreadPoints, TourAhead DEF IsRing
<1>3. s \in Seq(P) /\ DOMAIN s = 1..Len(s) /\ Len(s) \in Nat
  <2>1. s \in Seq(P)
    BY DEF IsRing, InOrder
  <2> HIDE DEF P, s
  <2> QED
    BY <2>1
<1>4. Walk(r, k) = w
  BY <1>2, <1>3 DEF Walk, Search, Tour
<1> HIDE DEF t, s
<1>5. \A p \in P : p.node \in r.nodes
  BY DEF PointSet
<1> HIDE DEF P
<1>6. w \in Seq(r.nodes) /\ Len(w) = Len(t) /\ Len(t) \in Nat
  <2>1. Len(t) \in Nat /\ \A i \in 1..Len(t) : t[i] \in P
    BY <1>1
  <2>2. w \in [1..Len(t) -> r.nodes]
    BY <1>5, <2>1
  <2> HIDE DEF w
  <2> QED
    BY <2>1, <2>2, SeqFrom
<1>7. met \in Seq(r.nodes) /\ InTurn(met, w, Len(t))
  <2> HIDE DEF w
  <2>1. FirstMet(w) \in Seq(r.nodes) /\ InTurn(FirstMet(w), w, Len(w))
    BY <1>6, MetInTurn
  <2> QED
    BY <1>4, <1>6, <2>1
<1> HIDE DEF met
<1>8. ASSUME NEW n \in r.nodes PROVE \E a \in 1..Len(met) : met[a] = n
  <2>1. PICK p \in P : p.node = n
    BY EachHasPoints DEF P
  <2>2. PICK i \in 1..Len(t) : t[i] = p
    BY <1>2, <2>1
  <2>3. w[i] = n
    BY <2>1, <2>2
  <2> HIDE DEF w
  <2> QED
    BY <1>7, <2>3 DEF InTurn
<1>9. Lists(met, r.nodes)
  BY <1>7, <1>8 DEF Lists, InTurn
<1>10. Len(met) = Cardinality(r.nodes)
  BY <1>9, ListLength
<1>11. Len(met) >= 1 /\ met[1] = w[1]
  <2> HIDE DEF w
  <2>1. 1 \in 1..Len(t) /\ Len(met) \in Nat
    BY <1>1, <1>6, <1>7
  <2>2. PICK a \in 1..Len(met) : met[a] = w[1]
    BY <1>7, <2>1 DEF InTurn
  <2>3. 1 \in 1..Len(met)
    BY <2>1
  <2>4. CASE 1 < a
    <3>1. \E x \in 1..Len(t) : x < 1
      BY <1>7, <2>1, <2>2, <2>3, <2>4 DEF InTurn
    <3> QED
      BY <3>1
  <2> QED
    BY <2>1, <2>2, <2>3, <2>4
<1>12. w[1] = t[1].node
  BY <1>1, <1>6
<1> QED
  BY <1>1, <1>7, <1>9, <1>10, <1>11, <1>12 DEF t, s, met, w

\* When a node leaves, the next that is met is the owner.
LEMMA NextMetOwns ==
  ASSUME hash \in Layouts, NEW r, IsRing(r), r.nodes # {}, NEW k \in Nat, NEW d,
         NEW b \in 1..Len(FirstMet(Walk(r, k))), FirstMet(Walk(r, k))[b] # d,
         \A a \in 1..(b - 1) : FirstMet(Walk(r, k))[a] = d
  PROVE  Owner(RemoveNode(r, d), k) = FirstMet(Walk(r, k))[b]
<1> DEFINE met == FirstMet(Walk(r, k))
           t == Tour(r.points, k)
           P == PointSet(r.nodes)
           w == [i \in 1..Len(t) |-> t[i].node]
           q == RemoveNode(r, d)
           p == Tour(q.points, k)[1]
           Q == PointSet(q.nodes)
<1>1. Lists(met, r.nodes) /\ InTurn(met, w, Len(t))
  BY NodesMet
<1>2. /\ t \in Seq(P) /\ Spread(P)
      /\ \A x \in P : \E i \in 1..Len(t) : t[i] = x
      /\ \A i, j \in 1..Len(t) : i < j => Ahead(t[i], t[j], k)
  BY SpreadPoints, TourAhead DEF IsRing
<1>3. IsRing(q) /\ q.nodes = r.nodes \ {d}
  BY RemoveIsRing
<1>4. met[b] \in r.nodes \ {d} /\ Len(met) \in Nat
  <2>1. met \in Seq(r.nodes) /\ b \in 1..Len(met) /\ met[b] # d
    BY <1>1 DEF Lists
  <2> HIDE DEF met
  <2> QED
    BY <2>1
<1>5. Next1(Q, k, p) /\ Owner(q, k) = p.node
  <2> HIDE DEF q
  <2> QED
    BY <1>3, <1>4, OwnerIsNext
<1>6. Q = {x \in P : x.node # d}
  <2>1. Q = PointSet(r.nodes \ {d})
    BY <1>3
  <2>2. PointSet(r.nodes \ {d}) = {x \in PointSet(r.nodes) : x.node # d}
    BY PointSetOf
  <2> HIDE DEF Q
  <2> QED
    BY <2>1, <2>2
<1> HIDE DEF met, t, P, q, p, Q
<1>7. p \in P /\ p.node # d /\ \A x \in P : x.node # d => x = p \/ Ahead(p, x, k)
  BY <1>5, <1>6 DEF Next1
<1>8. PICK y \in 1..Len(t) : t[y] = p
  BY <1>2, <1>7
<1>9. PICK c \in 1..Len(met) : met[c] = p.node
  <2>1. w[y] = p.node
    BY <1>8
  <2> HIDE DEF w
  <2> QED
    BY <1>1, <2>1 DEF InTurn
<1>10. b \in 1..Len(met) /\ met[b] # d /\ \A a \in 1..(b - 1) : met[a] = d
  BY DEF met
<1>11. ~(c < b)
  BY <1>7, <1>9, <1>10
<1>12. ~(b < c)
  <2> SUFFICES ASSUME b < c PROVE FALSE
    OBVIOUS
  <2>1. w[y] = met[c]
    BY <1>8, <1>9
  <2>2. PICK x \in 1..Len(t) : x < y /\ w[x] = met[b]
    <3> HIDE DEF w
    <3> QED
      BY <1>1, <1>9, <1>10, <2>1 DEF InTurn
  <2>3. t[x] \in P /\ t[x].node # d
    <3>1. w[x] = t[x].node
      OBVIOUS
    <3> HIDE DEF w
    <3> QED
      BY <1>2, <1>10, <2>2, <3>1
  <2>4. Ahead(t[x], p, k)
    BY <1>2, <1>8, <2>2
  <2>5. t[x] = p \/ Ahead(p, t[x], k)
    BY <1>7, <2>3
  <2>6. p.hash \in Nat /\ t[x].hash \in Nat
    BY <1>2, <1>7, <2>3 DEF Spread, Point
  <2> QED
    BY <2>4, <2>5, <2>6 DEF Ahead
<1>13. b = c
  BY <1>4, <1>9, <1>10, <1>11, <1>12
<1> QED
  BY <1>5, <1>9, <1>13 DEF met, q

\* Replicas.
LEMMA ReplicasAre ==
  ASSUME hash \in Layouts, NEW r, IsRing(r), r.nodes # {}, NEW k \in Nat, NEW rf \in Nat \ {0}
  PROVE  LET rs == Replicas(r, k, rf)
         IN /\ rs \in Seq(r.nodes) /\ Len(rs) = Min2(rf, Cardinality(r.nodes)) /\ Len(rs) >= 1
            /\ rs[1] = Owner(r, k)
            /\ \A i, j \in 1..Len(rs) : rs[i] = rs[j] => i = j
            /\ \A d : \A b \in 1..Len(rs) :
                 rs[b] # d /\ (\A a \in 1..(b - 1) : rs[a] = d)
                   => Owner(RemoveNode(r, d), k) = rs[b]
<1> DEFINE met == FirstMet(Walk(r, k))
           rs == Replicas(r, k, rf)
           m == Min2(rf, Cardinality(r.nodes))
<1>1. /\ met \in Seq(r.nodes) /\ Len(met) = Cardinality(r.nodes) /\ Len(met) >= 1
      /\ met[1] = Owner(r, k) /\ \A i, j \in 1..Len(met) : met[i] = met[j] => i = j
  BY NodesMet DEF Lists
<1>2. \A d : \A b \in 1..Len(met) :
        met[b] # d /\ (\A a \in 1..(b - 1) : met[a] = d) => Owner(RemoveNode(r, d), k) = met[b]
  BY NextMetOwns
<1>3. rs = SubSeq(met, 1, IF rf > Cardinality(r.nodes) THEN Cardinality(r.nodes) ELSE rf)
  BY DEF Replicas
<1> HIDE DEF met
<1>4. m \in 1..Len(met) /\ rs = SubSeq(met, 1, m)
  <2>1. Len(met) \in Nat
    BY <1>1
  <2>2. m = IF rf > Cardinality(r.nodes) THEN Cardinality(r.nodes) ELSE rf
    BY <1>1, <2>1 DEF Min2
  <2> HIDE DEF rs, m
  <2>3. rs = SubSeq(met, 1, m)
    BY <1>3, <2>2
  <2> QED
    BY <1>1, <2>1, <2>2, <2>3
<1> HIDE DEF rs, m
<1>5. rs \in Seq(r.nodes) /\ Len(rs) = m /\ \A i \in 1..m : rs[i] = met[i]
  <2>1. met \in Seq(r.nodes) /\ Len(met) \in Nat /\ m \in Nat /\ m <= Len(met)
    BY <1>1, <1>4
  <2> QED
    BY <1>4, <2>1, FirstOnes
<1>6. \A i \in 1..m : i \in 1..Len(met) /\ 1..(i - 1) \subseteq 1..m
  BY <1>1, <1>4
<1>7. 1 \in 1..m /\ m >= 1
  BY <1>4
<1>8. ASSUME NEW d, NEW b \in 1..Len(rs), rs[b] # d, \A a \in 1..(b - 1) : rs[a] = d
      PROVE  Owner(RemoveNode(r, d), k) = rs[b]
  <2>1. b \in 1..Len(met) /\ met[b] # d /\ \A a \in 1..(b - 1) : met[a] = d
    BY <1>5, <1>6, <1>8
  <2> QED
    BY <1>2, <1>5, <1>8, <2>1
<1> QED
  BY <1>1, <1>5, <1>6, <1>7, <1>8 DEF rs, m

-----------------------------------------------------------------------------
\* The choice of the nodes to call.

LEMMA Least ==
  ASSUME NEW A \in SUBSET Nat, A # {} PROVE \E m \in A : \A y \in A : m <= y
<1> SUFFICES ASSUME \A m \in A : \E y \in A : ~(m <= y) PROVE FALSE
  OBVIOUS
<1> DEFINE T == {n \in Nat : \A i \in 0..n : i \notin A}
<1>1. \A m \in A : \E y \in A : y < m
  OBVIOUS
<1>2. 0 \in T
  <2>1. \A i \in 0..0 : i = 0
    OBVIOUS
  <2> QED
    BY <1>1, <2>1
<1>3. ASSUME NEW n \in Nat, n \in T PROVE n + 1 \in T
  <2>1. \A i \in 0..(n + 1) : i \in 0..n \/ i = n + 1
    OBVIOUS
  <2>2. \A y \in A : ~(y < n + 1)
    BY <1>3
  <2> QED
    BY <1>1, <1>3, <2>1, <2>2
<1> HIDE DEF T
<1>4. \A n \in Nat : n \in T
  BY <1>2, <1>3, Meeting!Induction
<1>5. PICK n \in A : TRUE
  OBVIOUS
<1>6. n \in T /\ n \in 0..n
  BY <1>4, <1>5
<1> QED
  BY <1>5, <1>6 DEF T

\* Changing places keeps a list without repetitions of the same nodes.
LEMMA SwapFirstKeeps ==
  ASSUME NEW S, NEW rs \in Seq(S), Len(rs) >= 1, \A i, j \in 1..Len(rs) : rs[i] = rs[j] => i = j
  PROVE  /\ SwapFirst(rs) \in Seq(S) /\ Len(SwapFirst(rs)) = Len(rs)
         /\ \A i, j \in 1..Len(rs) : SwapFirst(rs)[i] = SwapFirst(rs)[j] => i = j
         /\ \E i \in 1..Len(rs) : SwapFirst(rs)[i] = rs[1]
<1> DEFINE ok == {i \in DOMAIN rs : rs[i] \notin overloaded}
           l == CHOOSE i \in ok : \A j \in ok : i <= j
           u == [rs EXCEPT ![1] = rs[l], ![l] = rs[1]]
<1>1. /\ Len(rs) \in Nat /\ DOMAIN rs = 1..Len(rs) /\ 1 \in 1..Len(rs)
      /\ \A i \in 1..Len(rs) : rs[i] \in S
  OBVIOUS
<1>2. CASE config.primaryRepl \/ ok = {}
  <2>1. SwapFirst(rs) = rs
    BY <1>2 DEF SwapFirst
  <2> QED
    BY <1>1, <2>1
<1>3. CASE ~(config.primaryRepl \/ ok = {})
  <2>1. SwapFirst(rs) = u
    BY <1>3 DEF SwapFirst
  <2>2. l \in ok
    <3>1. ok \in SUBSET Nat /\ ok # {}
      BY <1>1, <1>3
    <3>2. \E i \in ok : \A j \in ok : i <= j
      <4> HIDE DEF ok
      <4> QED
        BY <3>1, Least
    <3> HIDE DEF ok
    <3> QED
      BY <3>2
  <2>3. l \in 1..Len(rs)
    BY <1>1, <2>2
  <2> HIDE DEF l
  <2>4. u \in [1..Len(rs) -> S]
    BY <1>1, <2>3
  <2>5. \A i \in 1..Len(rs) : u[i] = IF i = l THEN rs[1] ELSE IF i = 1 THEN rs[l] ELSE rs[i]
    BY <1>1, <2>3
  <2> HIDE DEF u
  <2>6. u \in Seq(S) /\ Len(u) = Len(rs)
    BY <1>1, <2>4, SeqFrom
  <2>7. \A i, j \in 1..Len(rs) : u[i] = u[j] => i = j
    BY <1>1, <2>3, <2>5
  <2>8. u[l] = rs[1]
    BY <2>3, <2>5
  <2> QED
    BY <2>1, <2>3, <2>6, <2>7, <2>8
<1> QED
  BY <1>2, <1>3

\* What the gateway knows: a ring, and well-formed requests.
WriteRequest ==
    [kind : {"write"}, pc : {"sending", "bumping"}, attempt : {1, 2}, key : Keys,
     targets : Seq(Nodes) \ {<<>>}, past : Nodes \cup {NoNode}]
QueryRequest ==
    [kind : {"query"}, key : Keys, todo : SUBSET Nodes, holders : SUBSET Nodes,
     counted : SUBSET Nodes]
GatewayOK ==
    /\ hash \in Layouts
    /\ config \in [rf : RFs, primaryRepl : BOOLEAN]
    /\ IsRing(ring)
    /\ turns \in Nat
    /\ request \in {Idle} \cup WriteRequest \cup QueryRequest

LEMMA ReadIs ==
  ASSUME GatewayOK, ring.nodes # {}, NEW k \in Keys
  PROVE  /\ Read(k) \in Seq(Nodes) /\ Len(Read(k)) >= 1
         /\ Len(Read(k)) = Min2(config.rf, Cardinality(ring.nodes))
         /\ Read(k)[1] = Owner(ring, k)
         /\ \A i, j \in 1..Len(Read(k)) : Read(k)[i] = Read(k)[j] => i = j
         /\ \A d : \A b \in 1..Len(Read(k)) :
              Read(k)[b] # d /\ (\A a \in 1..(b - 1) : Read(k)[a] = d)
                => Owner(RemoveNode(ring, d), k) = Read(k)[b]
<1>1. k \in Nat /\ config.rf \in Nat \ {0}
  <2>1. IsFiniteSet(Peers)
    BY RoutingAssumption, FS_Subset
  <2>2. Cardinality(Peers) \in Nat
    BY <2>1, FS_CardinalityType
  <2>3. config.rf \in 1..Cardinality(Peers)
    BY RoutingAssumption DEF GatewayOK
  <2> QED
    BY <2>2, <2>3, RoutingAssumption
<1>2. hash \in Layouts /\ IsRing(ring) /\ ring.nodes \subseteq Nodes
  BY DEF GatewayOK, IsRing
<1> DEFINE rs == Replicas(ring, k, config.rf)
<1>3. /\ rs \in Seq(ring.nodes) /\ Len(rs) >= 1
      /\ Len(rs) = Min2(config.rf, Cardinality(ring.nodes))
      /\ rs[1] = Owner(ring, k)
      /\ \A i, j \in 1..Len(rs) : rs[i] = rs[j] => i = j
      /\ \A d : \A b \in 1..Len(rs) :
           rs[b] # d /\ (\A a \in 1..(b - 1) : rs[a] = d) => Owner(RemoveNode(ring, d), k) = rs[b]
  BY <1>1, <1>2, ReplicasAre
<1>4. Read(k) = rs
  BY DEF Read
<1> HIDE DEF rs
<1>5. rs \in Seq(Nodes)
  BY <1>2, <1>3, SeqIn
<1> QED
  BY <1>3, <1>4, <1>5

LEMMA SwappedRead ==
  ASSUME GatewayOK, ring.nodes # {}, NEW k \in Keys
  PROVE  /\ SwapFirst(Read(k)) \in Seq(Nodes) \ {<<>>}
         /\ Len(SwapFirst(Read(k))) = Min2(config.rf, Cardinality(ring.nodes))
         /\ \A i, j \in 1..Len(SwapFirst(Read(k))) :
              SwapFirst(Read(k))[i] = SwapFirst(Read(k))[j] => i = j
         /\ \E i \in 1..Len(SwapFirst(Read(k))) : SwapFirst(Read(k))[i] = Owner(ring, k)
<1> DEFINE rs == Read(k)
           u == SwapFirst(rs)
<1>1. /\ rs \in Seq(Nodes) /\ Len(rs) >= 1
      /\ Len(rs) = Min2(config.rf, Cardinality(ring.nodes))
      /\ rs[1] = Owner(ring, k)
      /\ \A i, j \in 1..Len(rs) : rs[i] = rs[j] => i = j
  BY ReadIs
<1> HIDE DEF rs
<1>2. /\ u \in Seq(Nodes) /\ Len(u) = Len(rs)
      /\ \A i, j \in 1..Len(rs) : u[i] = u[j] => i = j
      /\ \E i \in 1..Len(rs) : u[i] = rs[1]
  BY <1>1, SwapFirstKeeps
<1> HIDE DEF u
<1>3. u # <<>>
  BY <1>1, <1>2
<1> QED
  BY <1>1, <1>2, <1>3 DEF rs, u

\* The failover's node is the next owner.
LEMMA PastIs ==
  ASSUME GatewayOK, ring.nodes # {}, NEW k \in Keys, NEW d, PastSuspect(Read(k), d) # {}
  PROVE  /\ FirstIn(Read(k), PastSuspect(Read(k), d)) = Owner(RemoveNode(ring, d), k)
         /\ FirstIn(Read(k), PastSuspect(Read(k), d)) \in Nodes
<1> DEFINE rs == Read(k)
           rest == PastSuspect(rs, d)
           A == {i \in 1..Len(rs) : rs[i] # d}
           b == CHOOSE i \in DOMAIN rs : rs[i] \in rest /\ \A j \in 1..(i - 1) : rs[j] \notin rest
<1>1. /\ rs \in Seq(Nodes)
      /\ \A c \in 1..Len(rs) : rs[c] # d /\ (\A a \in 1..(c - 1) : rs[a] = d)
           => Owner(RemoveNode(ring, d), k) = rs[c]
  BY ReadIs
<1> HIDE DEF rs
<1>2. Len(rs) \in Nat /\ DOMAIN rs = 1..Len(rs) /\ \A i \in 1..Len(rs) : rs[i] \in Nodes
  BY <1>1
<1>3. rest = Range(rs) \ {d} /\ \A i \in 1..Len(rs) : rs[i] \in rest <=> rs[i] # d
  BY <1>2 DEF PastSuspect, Range
<1>4. A \in SUBSET Nat /\ A # {}
  <2>1. PICK x \in rest : TRUE
    BY DEF rs
  <2>2. PICK i \in 1..Len(rs) : rs[i] = x
    BY <1>2, <1>3, <2>1 DEF Range
  <2> QED
    BY <1>2, <1>3, <2>1, <2>2
<1>5. PICK m \in A : \A y \in A : m <= y
  BY <1>4, Least
<1> HIDE DEF rest
<1>6. \E i \in DOMAIN rs : rs[i] \in rest /\ \A j \in 1..(i - 1) : rs[j] \notin rest
  <2>1. m \in 1..Len(rs) /\ rs[m] \in rest
    BY <1>3, <1>5
  <2>2. ASSUME NEW j \in 1..(m - 1) PROVE rs[j] \notin rest
    <3>1. j \in 1..Len(rs) /\ ~(m <= j)
      BY <1>2, <2>1
    <3>2. rs[j] = d
      BY <1>5, <3>1
    <3> QED
      BY <1>3, <3>1, <3>2
  <2> QED
    BY <1>2, <2>1, <2>2
<1>7. b \in 1..Len(rs) /\ rs[b] \in rest /\ \A j \in 1..(b - 1) : rs[j] \notin rest
  BY <1>2, <1>6
<1>8. FirstIn(rs, rest) = rs[b]
  BY DEF FirstIn
<1> HIDE DEF b
<1>9. rs[b] # d /\ \A a \in 1..(b - 1) : rs[a] = d
  <2>1. \A a \in 1..(b - 1) : a \in 1..Len(rs)
    BY <1>2, <1>7
  <2> QED
    BY <1>3, <1>7, <2>1
<1> QED
  BY <1>1, <1>2, <1>7, <1>8, <1>9 DEF rs, rest

-----------------------------------------------------------------------------
\* The steps of a gateway.

\* While a query is followed: the nodes counted beside the present owner are as many
\* as the changes of the ring at most, and without one the owner's answer is counted
\* when its turn has come.
Counting ==
    Querying =>
      /\ Cardinality(request.counted \ {Owner(ring, request.key)}) <= turns
      /\ turns = 0 =>
           request.counted = {Owner(ring, request.key)} \cap (request.holders \ request.todo)

LEMMA RequestKinds ==
  ASSUME GatewayOK
  PROVE  /\ Idle.kind = "none"
         /\ request.kind = "write" => request \in WriteRequest
         /\ Querying => request \in QueryRequest
  BY DEF GatewayOK, Idle, WriteRequest, QueryRequest, Querying

LEMMA RingSteps ==
  ASSUME GatewayOK, [Next]_vars
  PROVE  /\ hash' = hash /\ config' = config
         /\ \/ ring' = ring
            \/ \E n \in Nodes : ring' = AddNode(hash, ring, n) \/ ring' = RemoveNode(ring, n)
            \/ ring.nodes = {} /\ ring' = NewRing(hash, Peers)
         /\ IsRing(ring')
<1>1. ASSUME NEW n \in Nodes, Join(n)
      PROVE  hash' = hash /\ config' = config /\ ring' = AddNode(hash, ring, n)
  BY <1>1 DEF Join, Changed, Steady
<1>2. ASSUME NEW n \in Nodes, Dead(n)
      PROVE  hash' = hash /\ config' = config /\ ring' = RemoveNode(ring, n)
  BY <1>2 DEF Dead, Changed, Steady
<1>3. ASSUME NEW n \in Nodes, HealthAnswer(n)
      PROVE  hash' = hash /\ config' = config /\ ring' = ring
  BY <1>3 DEF HealthAnswer, Steady
<1>4. ASSUME NEW k \in Keys, Write(k) \/ Query(k)
      PROVE  hash' = hash /\ config' = config /\ ring' = ring
  BY <1>4 DEF Write, Query, Steady
<1>5. ASSUME Panic
      PROVE  hash' = hash /\ config' = config
             /\ \/ ring' = ring
                \/ ring.nodes = {} /\ ring' = NewRing(hash, Peers)
  BY <1>5 DEF Panic, Steady
<1>6. ASSUME Answer \/ Retry \/ Suspect \/ FailOver \/ Merge \/ QueryDone
      PROVE  hash' = hash /\ config' = config /\ ring' = ring
  BY <1>6 DEF Answer, Retry, Suspect, FailOver, Merge, QueryDone, Steady
<1>7. ASSUME UNCHANGED vars PROVE hash' = hash /\ config' = config /\ ring' = ring
  BY <1>7 DEF vars
<1>8. /\ hash' = hash /\ config' = config
      /\ \/ ring' = ring
         \/ \E n \in Nodes : ring' = AddNode(hash, ring, n) \/ ring' = RemoveNode(ring, n)
         \/ ring.nodes = {} /\ ring' = NewRing(hash, Peers)
  BY <1>1, <1>2, <1>3, <1>4, <1>5, <1>6, <1>7 DEF Next
<1>9. IsRing(ring')
  <2>1. hash \in Layouts /\ IsRing(ring) /\ Peers \in SUBSET Nodes
    BY RoutingAssumption DEF GatewayOK
  <2> QED
    BY <1>8, <2>1, AddIsRing, RemoveIsRing, NewIsRing
<1> QED
  BY <1>8, <1>9

\* An attempt is a plain one, to the replicas, or goes past a suspected node.
LEMMA AttemptSteps ==
  ASSUME GatewayOK, [Next]_vars,
         request' # request, request'.kind = "write", request'.pc = "sending"
  PROVE  /\ request' \in WriteRequest /\ ring.nodes # {} /\ turns' = turns
         /\ \/ /\ request'.past = NoNode
               /\ request'.targets \in {Read(request'.key), SwapFirst(Read(request'.key))}
            \/ /\ request'.past # NoNode
               /\ request'.targets = <<Owner(RemoveNode(ring, request'.past), request'.key)>>
<1>1. ASSUME NEW n \in Nodes, Join(n) \/ Dead(n) \/ HealthAnswer(n) PROVE FALSE
  BY <1>1 DEF Join, Dead, HealthAnswer
<1>2. ASSUME NEW k \in Keys, Query(k) PROVE FALSE
  BY <1>2 DEF Query
<1>3. ASSUME Panic \/ Answer \/ QueryDone PROVE FALSE
  BY <1>3 DEF Panic, Answer, QueryDone, Idle
<1>4. ASSUME Suspect PROVE FALSE
  <2>1. request \in WriteRequest
    BY <1>4, RequestKinds DEF Suspect, Sending
  <2> QED
    BY <1>4, <2>1 DEF Suspect, WriteRequest
<1>5. ASSUME Merge PROVE FALSE
  <2>1. request \in QueryRequest
    BY <1>5, RequestKinds DEF Merge
  <2> QED
    BY <1>5, <2>1 DEF Merge, QueryRequest
<1>6. CASE UNCHANGED vars
  BY <1>6 DEF vars
<1>7. ASSUME NEW k \in Keys, Write(k)
      PROVE  /\ request' \in WriteRequest /\ ring.nodes # {} /\ turns' = turns
             /\ request'.past = NoNode /\ request'.targets = SwapFirst(Read(request'.key))
  <2>1. /\ request' = [kind |-> "write", pc |-> "sending", attempt |-> 1, key |-> k,
                       targets |-> SwapFirst(Read(k)), past |-> NoNode]
        /\ ring.nodes # {} /\ turns' = turns
    BY <1>7 DEF Write
  <2>2. SwapFirst(Read(k)) \in Seq(Nodes) \ {<<>>}
    BY <2>1, SwappedRead
  <2> QED
    BY <2>1, <2>2 DEF WriteRequest
<1>8. ASSUME request \in WriteRequest, ring.nodes # {}, Resend(Read(request.key), NoNode)
      PROVE  /\ request' \in WriteRequest
             /\ request'.past = NoNode /\ request'.targets = Read(request'.key)
  <2>1. request.key \in Keys
    BY <1>8 DEF WriteRequest
  <2>2. Read(request.key) \in Seq(Nodes) \ {<<>>}
    <3>1. Read(request.key) \in Seq(Nodes) /\ Len(Read(request.key)) >= 1
      BY <1>8, <2>1, ReadIs
    <3> QED
      BY <3>1
  <2>3. request' = [request EXCEPT !.pc = "sending", !.attempt = 2, !.targets = Read(request.key),
                                   !.past = NoNode]
    BY <1>8 DEF Resend
  <2>4. request'.key = request.key /\ request'.targets = Read(request.key) /\ request'.past = NoNode
    BY <1>8, <2>3 DEF WriteRequest
  <2>5. request' \in WriteRequest
    BY <1>8, <2>2, <2>3 DEF WriteRequest
  <2> QED
    BY <2>4, <2>5
<1>9. ASSUME Retry
      PROVE  /\ request' \in WriteRequest /\ ring.nodes # {} /\ turns' = turns
             /\ request'.past = NoNode /\ request'.targets = Read(request'.key)
  <2>1. request \in WriteRequest
    BY <1>9, RequestKinds DEF Retry, Sending, Bumping
  <2>2. ring.nodes # {} /\ turns' = turns /\ Resend(Read(request.key), NoNode)
    BY <1>9 DEF Retry
  <2> QED
    BY <1>8, <2>1, <2>2
<1>10. ASSUME FailOver
       PROVE  /\ request' \in WriteRequest /\ ring.nodes # {} /\ turns' = turns
              /\ \/ request'.past = NoNode /\ request'.targets = Read(request'.key)
                 \/ /\ request'.past # NoNode
                    /\ request'.targets = <<Owner(RemoveNode(ring, request'.past), request'.key)>>
  <2> DEFINE rs == Read(request.key)
             d == request.targets[1]
             rest == PastSuspect(rs, d)
  <2>1. request \in WriteRequest /\ ring.nodes # {} /\ turns' = turns
    BY <1>10, RequestKinds DEF FailOver, Bumping
  <2>2. IF rest # {} THEN Resend(<<FirstIn(rs, rest)>>, d) ELSE Resend(rs, NoNode)
    BY <1>10 DEF FailOver
  <2>3. request.key \in Keys /\ d \in Nodes /\ d # NoNode
    <3>1. request.key \in Keys /\ request.targets \in Seq(Nodes) /\ request.targets # <<>>
      BY <2>1 DEF WriteRequest
    <3>2. d \in Nodes
      BY <3>1
    <3> QED
      BY <3>1, <3>2, RoutingAssumption DEF NoNode
  <2>4. CASE rest # {}
    <3> DEFINE f == FirstIn(rs, rest)
    <3>1. f = Owner(RemoveNode(ring, d), request.key) /\ f \in Nodes
      BY <2>1, <2>3, <2>4, PastIs
    <3> HIDE DEF rest, rs, d
    <3>2. request' = [request EXCEPT !.pc = "sending", !.attempt = 2, !.targets = <<f>>, !.past = d]
      BY <2>2, <2>4 DEF Resend
    <3> HIDE DEF f
    <3>3. request'.key = request.key /\ request'.targets = <<f>> /\ request'.past = d
      BY <2>1, <3>2 DEF WriteRequest
    <3>4. <<f>> \in Seq(Nodes) \ {<<>>}
      BY <3>1
    <3>5. request' \in WriteRequest
      BY <2>1, <2>3, <3>2, <3>4 DEF WriteRequest
    <3> QED
      BY <2>1, <2>3, <3>1, <3>3, <3>5
  <2>5. CASE ~(rest # {})
    <3>1. Resend(Read(request.key), NoNode)
      BY <2>2, <2>5
    <3> QED
      BY <1>8, <2>1, <3>1
  <2> QED
    BY <2>4, <2>5
<1> QED
  BY <1>1, <1>2, <1>3, <1>4, <1>5, <1>6, <1>7, <1>9, <1>10 DEF Next

LEMMA RequestSteps ==
  ASSUME GatewayOK, [Next]_vars
  PROVE  request' \in {Idle} \cup WriteRequest \cup QueryRequest /\ turns' \in Nat
<1>1. ASSUME NEW n \in Nodes, Join(n) \/ Dead(n) \/ HealthAnswer(n)
      PROVE  request' = request /\ turns' \in {turns, turns + 1}
  BY <1>1 DEF Join, Dead, HealthAnswer, Changed
<1>2. ASSUME NEW k \in Keys, Write(k) PROVE request' \in WriteRequest /\ turns' = turns
  <2>1. SwapFirst(Read(k)) \in Seq(Nodes) \ {<<>>}
    BY <1>2, SwappedRead DEF Write
  <2> QED
    BY <1>2, <2>1 DEF Write, WriteRequest
<1>3. ASSUME NEW k \in Keys, Query(k) PROVE request' \in QueryRequest /\ turns' = 0
  <2>1. ring.nodes \subseteq Nodes
    BY DEF GatewayOK, IsRing
  <2> QED
    BY <1>3, <2>1 DEF Query, QueryRequest
<1>4. ASSUME Panic \/ Answer \/ QueryDone PROVE request' = Idle /\ turns' \in {turns, 0}
  BY <1>4 DEF Panic, Answer, QueryDone
<1>5. ASSUME Suspect PROVE request' \in WriteRequest /\ turns' = turns
  <2>1. request \in WriteRequest
    BY <1>5, RequestKinds DEF Suspect, Sending
  <2> QED
    BY <1>5, <2>1 DEF Suspect, WriteRequest
<1>6. ASSUME Retry \/ FailOver
      PROVE  request' = request \/ (request'.kind = "write" /\ request'.pc = "sending")
  <2>1. request \in WriteRequest
    BY <1>6, RequestKinds DEF Retry, FailOver, Sending, Bumping
  <2>2. \E rs, past : Resend(rs, past)
    BY <1>6 DEF Retry, FailOver
  <2> QED
    BY <2>1, <2>2 DEF Resend, WriteRequest
<1>7. ASSUME Retry \/ FailOver
      PROVE  request' \in {Idle} \cup WriteRequest \cup QueryRequest /\ turns' = turns
  <2>1. turns' = turns
    BY <1>7 DEF Retry, FailOver
  <2> QED
    BY <1>6, <1>7, <2>1, AttemptSteps DEF GatewayOK
<1>8. ASSUME Merge PROVE request' \in QueryRequest /\ turns' = turns
  <2> DEFINE n == CHOOSE n \in request.todo : \A m \in request.todo : n <= m
  <2>1. request \in QueryRequest /\ request.todo # {}
    BY <1>8, RequestKinds DEF Merge
  <2>2. n \in request.todo
    <3>1. request.todo \in SUBSET Nat
      BY <2>1, RoutingAssumption DEF QueryRequest
    <3>2. \E m \in request.todo : \A y \in request.todo : m <= y
      BY <2>1, <3>1, Least
    <3> QED
      BY <3>2
  <2>3. /\ request' = [request EXCEPT
             !.todo = @ \ {n},
             !.counted = IF n \in request.holders /\ IsOwner(request.key, n) THEN @ \cup {n} ELSE @]
        /\ turns' = turns
    BY <1>8 DEF Merge
  <2> HIDE DEF n
  <2> QED
    BY <2>1, <2>2, <2>3 DEF QueryRequest
<1>9. ASSUME UNCHANGED vars PROVE request' = request /\ turns' = turns
  BY <1>9 DEF vars
<1>10. request \in {Idle} \cup WriteRequest \cup QueryRequest /\ turns \in Nat
  BY DEF GatewayOK
<1> QED
  BY <1>1, <1>2, <1>3, <1>4, <1>5, <1>7, <1>8, <1>9, <1>10 DEF Next

LEMMA GatewayKept == GatewayOK /\ [Next]_vars => GatewayOK'
<1> SUFFICES ASSUME GatewayOK, [Next]_vars PROVE GatewayOK'
  OBVIOUS
<1>1. hash' = hash /\ config' = config /\ IsRing(ring')
  BY RingSteps
<1>2. IsRing(ring)'
  BY <1>1 DEF IsRing, PointSet
<1> QED
  BY <1>1, <1>2, RequestSteps DEF GatewayOK

LEMMA GatewayStarts == Init => GatewayOK /\ Counting
<1> SUFFICES ASSUME Init PROVE GatewayOK /\ Counting
  OBVIOUS
<1>1. IsRing(ring)
  BY NewIsRing, RoutingAssumption DEF Init
<1> QED
  BY <1>1 DEF Init, GatewayOK, Counting, Querying, Idle

\* One query is merged answer by answer.
LEMMA CountingKept == GatewayOK /\ Counting /\ [Next]_vars => Counting'
<1> SUFFICES ASSUME GatewayOK, Counting, [Next]_vars, Querying' PROVE Counting'
  BY DEF Counting
<1> DEFINE o == Owner(ring, request.key)
           before == request.counted \ {o}
<1>1. ASSUME NEW k \in Keys, Query(k) PROVE Counting'
  <2>1. request'.counted = {} /\ request'.todo = ring.nodes /\ request'.holders \subseteq ring.nodes
        /\ turns' = 0
    BY <1>1 DEF Query
  <2>2. Cardinality({}) = 0
    BY FS_EmptySet
  <2>3. request'.counted \ {Owner(ring, request.key)'} = {}
    BY <2>1
  <2>4. request'.holders \ request'.todo = {}
    BY <2>1
  <2> QED
    BY <2>1, <2>2, <2>3, <2>4 DEF Counting
<1>2. CASE request' = request
  <2>1. request \in QueryRequest /\ Querying
    BY <1>2, RequestKinds DEF Querying
  <2>2. IsFiniteSet(request.counted)
    <3>1. request.counted \subseteq Nodes
      BY <2>1 DEF QueryRequest
    <3> QED
      BY <3>1, RoutingAssumption, FS_Subset
  <2>3. /\ IsFiniteSet(before) /\ Cardinality(before) \in Nat /\ Cardinality(before) <= turns
        /\ turns = 0 => request.counted = {o} \cap (request.holders \ request.todo)
    <3>1. IsFiniteSet(before)
      BY <2>2, FS_Subset
    <3> QED
      BY <2>1, <3>1, FS_CardinalityType DEF Counting
  <2>4. CASE ring' = ring /\ turns' = turns
    BY <1>2, <2>4 DEF Counting, Querying
  <2>5. CASE turns' = turns + 1
    <3> DEFINE after == request.counted \ {Owner(ring, request.key)'}
    <3>1. after \subseteq before \cup {o}
      OBVIOUS
    <3>2. IsFiniteSet(before \cup {o}) /\ Cardinality(before \cup {o}) <= Cardinality(before) + 1
      BY <2>3, FS_AddElement
    <3> HIDE DEF after, before
    <3>3. Cardinality(after) <= Cardinality(before \cup {o})
      BY <3>1, <3>2, FS_Subset
    <3>4. /\ turns \in Nat /\ Cardinality(after) \in Nat /\ Cardinality(before \cup {o}) \in Nat
      <4>1. IsFiniteSet(after)
        BY <3>1, <3>2, FS_Subset
      <4> QED
        BY <3>2, <4>1, FS_CardinalityType DEF GatewayOK
    <3>5. Cardinality(after) <= turns' /\ turns' # 0
      BY <2>3, <2>5, <3>2, <3>3, <3>4
    <3> QED
      BY <1>2, <3>5 DEF Counting, after
  <2>6. (ring' = ring /\ turns' = turns) \/ turns' = turns + 1
    <3>1. ASSUME NEW n \in Nodes, Join(n) \/ Dead(n) \/ HealthAnswer(n)
          PROVE  (ring' = ring /\ turns' = turns) \/ turns' = turns + 1
      BY <2>1, <3>1 DEF Join, Dead, HealthAnswer, Changed
    <3>2. ASSUME NEW k \in Keys, Write(k) PROVE FALSE
      BY <3>2 DEF Write, Querying
    <3>3. ASSUME Panic \/ Answer \/ QueryDone PROVE FALSE
      BY <3>3 DEF Panic, Answer, QueryDone, Idle, Querying
    <3>4. ASSUME Retry \/ FailOver \/ Suspect PROVE FALSE
      BY <2>1, <3>4 DEF Retry, FailOver, Suspect, Sending, Bumping, Querying
    <3>5. ASSUME Merge PROVE ring' = ring /\ turns' = turns
      BY <3>5 DEF Merge
    <3>6. ASSUME UNCHANGED vars PROVE ring' = ring /\ turns' = turns
      BY <3>6 DEF vars
    <3>7. ASSUME NEW k \in Keys, Query(k) PROVE FALSE
      BY <2>1, <3>7 DEF Query, Idle, Querying
    <3> QED
      BY <3>1, <3>2, <3>3, <3>4, <3>5, <3>6, <3>7 DEF Next
  <2> QED
    BY <2>4, <2>5, <2>6
<1>3. ASSUME Merge PROVE Counting'
  <2> DEFINE n == CHOOSE n \in request.todo : \A m \in request.todo : n <= m
  <2>1. request \in QueryRequest /\ request.todo # {} /\ Querying
    BY <1>3, RequestKinds DEF Merge
  <2>2. n \in request.todo
    <3>1. request.todo \in SUBSET Nat
      BY <2>1, RoutingAssumption DEF QueryRequest
    <3>2. \E m \in request.todo : \A y \in request.todo : m <= y
      BY <2>1, <3>1, Least
    <3> QED
      BY <3>2
  <2>3. /\ request' = [request EXCEPT
             !.todo = @ \ {n},
             !.counted = IF n \in request.holders /\ IsOwner(request.key, n) THEN @ \cup {n} ELSE @]
        /\ turns' = turns /\ ring' = ring
    BY <1>3 DEF Merge
  <2> HIDE DEF n
  <2>4. /\ request'.key = request.key /\ request'.holders = request.holders
        /\ request'.todo = request.todo \ {n}
        /\ request'.counted = IF n \in request.holders /\ o = n THEN request.counted \cup {n}
                              ELSE request.counted
    BY <2>1, <2>3 DEF QueryRequest, IsOwner
  <2>5. Owner(ring, request.key)' = o
    BY <2>3, <2>4
  <2>6. /\ Cardinality(before) <= turns
        /\ turns = 0 => request.counted = {o} \cap (request.holders \ request.todo)
    BY <2>1 DEF Counting
  <2> HIDE DEF o
  <2>7. request'.counted \ {o} = before
    BY <2>4
  <2>8. turns = 0 => request'.counted = {o} \cap (request'.holders \ request'.todo)
    BY <2>2, <2>4, <2>6
  <2> HIDE DEF before
  <2> QED
    BY <2>3, <2>5, <2>6, <2>7, <2>8 DEF Counting
<1>4. ASSUME NEW k \in Keys, Write(k) PROVE FALSE
  BY <1>4 DEF Write, Querying
<1>5. ASSUME Panic \/ Answer \/ QueryDone PROVE FALSE
  BY <1>5 DEF Panic, Answer, QueryDone, Idle, Querying
<1>6. ASSUME Suspect \/ Retry \/ FailOver PROVE FALSE
  <2>1. request \in WriteRequest
    BY <1>6, RequestKinds DEF Suspect, Retry, FailOver, Sending, Bumping
  <2>2. request'.kind = "write"
    BY <1>6, <2>1 DEF Suspect, Retry, FailOver, Resend, WriteRequest
  <2> QED
    BY <2>2 DEF Querying
<1>7. ASSUME NEW n \in Nodes, Join(n) \/ Dead(n) \/ HealthAnswer(n) PROVE request' = request
  BY <1>7 DEF Join, Dead, HealthAnswer
<1>8. ASSUME UNCHANGED vars PROVE request' = request
  BY <1>8 DEF vars
<1> QED
  BY <1>1, <1>2, <1>3, <1>4, <1>5, <1>6, <1>7, <1>8 DEF Next

-----------------------------------------------------------------------------
\* What a gateway does, for all layouts, keys and orders of joins and deaths.

LEMMA GatewayCorrect == Spec => [](GatewayOK /\ Counting)
<1>1. GatewayOK /\ Counting /\ UNCHANGED vars => (GatewayOK /\ Counting)'
  BY GatewayKept, CountingKept
<1> QED
  BY GatewayStarts, GatewayKept, CountingKept, PTL DEF Spec

\* Whatever joins and deaths made the ring, it is the one that New builds from its
\* nodes (New, Add, Remove): README.md:65, "Routing is deterministic for a given node
\* set".
THEOREM RoutesAlike == Spec => []Deterministic
<1>1. GatewayOK => Deterministic
  BY RingIsNew DEF GatewayOK, Deterministic
<1> QED
  BY <1>1, GatewayCorrect, PTL

\* A key's count is taken from its owner, and while the ring changes from as many
\* nodes as have owned it (handleAggregates): README.md:657.
THEOREM CountsOnce == Spec => []CountedOnce
<1>1. GatewayOK /\ Counting => CountedOnce
  <2> SUFFICES ASSUME GatewayOK, Counting, Querying PROVE CountedOnce
    BY DEF CountedOnce
  <2> DEFINE o == Owner(ring, request.key)
             others == request.counted \ {o}
  <2>1. request.counted \subseteq Nodes
    BY RequestKinds DEF QueryRequest
  <2>2. IsFiniteSet(others) /\ Cardinality(others) \in Nat /\ Cardinality(others) <= turns
    <3>1. IsFiniteSet(others)
      BY <2>1, RoutingAssumption, FS_Subset
    <3> QED
      BY <3>1, FS_CardinalityType DEF Counting
  <2>3. request.counted \subseteq others \cup {o}
    OBVIOUS
  <2> HIDE DEF others, o
  <2>4. IsFiniteSet(others \cup {o}) /\ Cardinality(others \cup {o}) <= Cardinality(others) + 1
    <3>1. IsFiniteSet(others)
      BY <2>2
    <3>2. /\ IsFiniteSet(others \cup {o})
          /\ Cardinality(others \cup {o}) =
               IF o \in others THEN Cardinality(others) ELSE Cardinality(others) + 1
      BY <3>1, FS_AddElement
    <3> QED
      BY <2>2, <3>2
  <2>5. /\ Cardinality(request.counted) <= Cardinality(others \cup {o})
        /\ Cardinality(request.counted) \in Nat /\ Cardinality(others \cup {o}) \in Nat
    <3>1. IsFiniteSet(request.counted)
      BY <2>3, <2>4, FS_Subset
    <3> QED
      BY <2>3, <2>4, <3>1, FS_Subset, FS_CardinalityType
  <2>6. Cardinality(request.counted) <= 1 + turns
    BY <2>2, <2>4, <2>5 DEF GatewayOK
  <2> QED
    BY <2>6 DEF CountedOnce, Counting
<1> QED
  BY <1>1, GatewayCorrect, PTL

\* A node that joins takes over keys, and no others move.
LEMMA JoinMoves ==
  ASSUME hash \in Layouts, NEW r, IsRing(r), r.nodes # {}, NEW k \in Nat, NEW n \in Nodes,
         Owner(r, k) # Owner(AddNode(hash, r, n), k)
  PROVE  /\ Owner(AddNode(hash, r, n), k) = n
         /\ AddNode(hash, r, n).nodes \ r.nodes = {n}
<1> DEFINE q == AddNode(hash, r, n)
           P == PointSet(r.nodes)
           Q == PointSet(q.nodes)
           p == Tour(r.points, k)[1]
           x == Tour(q.points, k)[1]
<1>1. IsRing(q) /\ q.nodes = r.nodes \cup {n}
  BY AddIsRing
<1>2. n \notin r.nodes
  BY DEF AddNode
<1>3. Next1(P, k, p) /\ Owner(r, k) = p.node
  BY OwnerIsNext
<1>4. Next1(Q, k, x) /\ Owner(q, k) = x.node
  <2> HIDE DEF q
  <2> QED
    BY <1>1, OwnerIsNext
<1>5. P \subseteq Q /\ \A y \in Q : y.node \in r.nodes => y \in P
  <2>1. Q = PointSet(r.nodes \cup {n})
    BY <1>1
  <2> HIDE DEF q, Q
  <2> QED
    BY <2>1 DEF PointSet
<1>6. x.node \in r.nodes \cup {n}
  <2>1. x \in Q
    BY <1>4 DEF Next1
  <2> HIDE DEF q, x
  <2> QED
    BY <1>1, <2>1 DEF PointSet
<1>7. Spread(P)
  BY SpreadPoints
<1> HIDE DEF q, P, Q, p, x
<1>8. CASE x.node \in r.nodes
  <2>1. Next1(P, k, x)
    BY <1>4, <1>5, <1>8 DEF Next1
  <2>2. x = p
    BY <1>3, <1>7, <2>1, NextIsOne
  <2> QED
    BY <1>3, <1>4, <2>2 DEF q
<1> QED
  BY <1>1, <1>2, <1>4, <1>6, <1>8 DEF q

\* A node that leaves gives its keys to their next replicas, and no others move.
LEMMA DeathMoves ==
  ASSUME hash \in Layouts, NEW r, IsRing(r), r.nodes # {}, NEW k \in Nat, NEW n \in Nodes,
         Owner(r, k) # Owner(RemoveNode(r, n), k)
  PROVE  /\ Owner(r, k) = n
         /\ r.nodes \ RemoveNode(r, n).nodes = {n}
         /\ Owner(RemoveNode(r, n), k) =
              IF Cardinality(r.nodes) > 1 THEN Replicas(r, k, 2)[2] ELSE NoOwner
<1> DEFINE q == RemoveNode(r, n)
           met == FirstMet(Walk(r, k))
           rs == Replicas(r, k, 2)
<1>1. IsRing(q) /\ q.nodes = r.nodes \ {n}
  BY RemoveIsRing
<1>2. n \in r.nodes
  <2> SUFFICES ASSUME n \notin r.nodes PROVE FALSE
    OBVIOUS
  <2>1. q.nodes = r.nodes
    BY <1>1
  <2>2. r = NewRing(hash, r.nodes)
    BY RingIsNew
  <2>3. q = NewRing(hash, q.nodes)
    <3> HIDE DEF q
    <3> QED
      BY <1>1, RingIsNew
  <2> QED
    BY <2>1, <2>2, <2>3
<1>3. Owner(r, k) = n
  <2> SUFFICES ASSUME Owner(r, k) # n PROVE FALSE
    OBVIOUS
  <2>1. Lists(met, r.nodes) /\ Len(met) >= 1 /\ met[1] = Owner(r, k)
    BY NodesMet
  <2>2. 1 \in 1..Len(met) /\ \A a \in 1..(1 - 1) : met[a] = n
    <3>1. met \in Seq(r.nodes)
      BY <2>1 DEF Lists
    <3> HIDE DEF met
    <3>2. Len(met) \in Nat
      BY <3>1
    <3> QED
      BY <2>1, <3>2
  <2>3. \A b \in 1..Len(met) : met[b] # n /\ (\A a \in 1..(b - 1) : met[a] = n)
          => Owner(RemoveNode(r, n), k) = met[b]
    BY NextMetOwns
  <2> HIDE DEF met
  <2>4. met[1] = Owner(r, k) /\ Owner(RemoveNode(r, n), k) = met[1]
    BY <2>1, <2>2, <2>3
  <2> QED
    BY <2>4
<1>4. r.nodes \ q.nodes = {n}
  BY <1>1, <1>2
<1>5. IsFiniteSet(r.nodes) /\ Cardinality(r.nodes) \in Nat /\ Cardinality(r.nodes) >= 1
  <2>1. IsFiniteSet(r.nodes)
    BY RoutingAssumption, FS_Subset DEF IsRing
  <2>2. Cardinality(r.nodes) \in Nat /\ Cardinality(r.nodes) # 0
    BY <1>2, <2>1, FS_CardinalityType, FS_EmptySet
  <2> QED
    BY <2>1, <2>2
<1>6. CASE Cardinality(r.nodes) > 1
  <2>1. /\ rs \in Seq(r.nodes) /\ Len(rs) = Min2(2, Cardinality(r.nodes)) /\ rs[1] = Owner(r, k)
        /\ \A i, j \in 1..Len(rs) : rs[i] = rs[j] => i = j
        /\ \A d : \A b \in 1..Len(rs) :
             rs[b] # d /\ (\A a \in 1..(b - 1) : rs[a] = d) => Owner(RemoveNode(r, d), k) = rs[b]
    BY ReplicasAre
  <2> HIDE DEF rs
  <2>2. Len(rs) = 2
    BY <1>5, <1>6, <2>1 DEF Min2
  <2>3. 1 \in 1..Len(rs) /\ 2 \in 1..Len(rs) /\ \A a \in 1..(2 - 1) : a = 1
    BY <2>2
  <2>4. rs[2] # n /\ \A a \in 1..(2 - 1) : rs[a] = n
    BY <1>3, <2>1, <2>3
  <2>5. Owner(RemoveNode(r, n), k) = rs[2]
    BY <2>1, <2>3, <2>4
  <2> QED
    BY <1>3, <1>4, <1>6, <2>5 DEF q, rs
<1>7. CASE ~(Cardinality(r.nodes) > 1)
  <2>1. Cardinality(r.nodes \ {n}) = Cardinality(r.nodes) - 1 /\ IsFiniteSet(r.nodes \ {n})
    BY <1>2, <1>5, FS_RemoveElement, FS_Subset
  <2>2. Cardinality(r.nodes \ {n}) = 0
    BY <1>5, <1>7, <2>1
  <2>3. q.nodes = {}
    BY <1>1, <2>1, <2>2, FS_EmptySet
  <2>4. q.points \in Seq({})
    <3>1. PointSet({}) = {}
      BY DEF PointSet
    <3>2. q.points \in Seq(PointSet(q.nodes))
      BY <1>1 DEF IsRing, InOrder
    <3> HIDE DEF q
    <3> QED
      BY <2>3, <3>1, <3>2
  <2>5. q.points = <<>>
    <3> HIDE DEF q
    <3> QED
      BY <2>4
  <2>6. Owner(q, k) = NoOwner
    <3> HIDE DEF q
    <3> QED
      BY <2>5 DEF Owner
  <2> QED
    BY <1>3, <1>4, <1>7, <2>6
<1> QED
  BY <1>6, <1>7

\* A change of the ring moves keys only to the node that has joined, or from the node
\* that has left to their next replicas (Add, Remove, Owner, Replicas).
THEOREM MovesNeighbours == Spec => OnlyNeighboursMove
<1> DEFINE Moves ==
      \A k \in Keys : ring.nodes # {} /\ Owner(ring, k) # Owner(ring', k) =>
         \/ {Owner(ring', k)} = ring'.nodes \ ring.nodes
         \/ /\ {Owner(ring, k)} = ring.nodes \ ring'.nodes
            /\ Owner(ring', k) = IF Cardinality(ring.nodes) > 1 THEN Replicas(ring, k, 2)[2]
                                 ELSE NoOwner
<1>1. GatewayOK /\ [Next]_vars => Moves
  <2> SUFFICES ASSUME GatewayOK, [Next]_vars, NEW k \in Keys, ring.nodes # {},
                      Owner(ring, k) # Owner(ring', k)
               PROVE  \/ {Owner(ring', k)} = ring'.nodes \ ring.nodes
                      \/ /\ {Owner(ring, k)} = ring.nodes \ ring'.nodes
                         /\ Owner(ring', k) = IF Cardinality(ring.nodes) > 1
                                              THEN Replicas(ring, k, 2)[2] ELSE NoOwner
    OBVIOUS
  <2>1. hash \in Layouts /\ IsRing(ring) /\ k \in Nat
    BY RoutingAssumption DEF GatewayOK
  <2>2. PICK n \in Nodes : ring' = AddNode(hash, ring, n) \/ ring' = RemoveNode(ring, n)
    BY RingSteps
  <2>3. CASE ring' = AddNode(hash, ring, n)
    BY <2>1, <2>3, JoinMoves
  <2>4. CASE ring' = RemoveNode(ring, n)
    BY <2>1, <2>4, DeathMoves
  <2> QED
    BY <2>2, <2>3, <2>4
<1>2. GatewayOK /\ [Next]_vars => [Moves]_vars
  BY <1>1
<1> QED
  BY <1>2, GatewayCorrect, PTL DEF Spec, OnlyNeighboursMove

\* An attempt goes to every replica once, the owner among them; a failover to the
\* node that owns the key when the suspected one has left (handleEvent).
THEOREM ReachesReplicas == Spec => GoesToReplicas
<1> DEFINE Goes ==
      request'.kind = "write" /\ request'.pc = "sending" /\ request' # request =>
         IF request'.past = NoNode
         THEN /\ Owner(ring, request'.key) \in Range(request'.targets)
              /\ Cardinality(Range(request'.targets)) = Len(request'.targets)
              /\ Len(request'.targets) = Min2(config.rf, Cardinality(ring.nodes))
         ELSE request'.targets = <<Owner(RemoveNode(ring, request'.past), request'.key)>>
<1>1. GatewayOK /\ [Next]_vars => Goes
  <2> SUFFICES ASSUME GatewayOK, [Next]_vars, request' # request,
                      request'.kind = "write", request'.pc = "sending"
               PROVE  Goes
    OBVIOUS
  <2>1. request' \in WriteRequest /\ ring.nodes # {}
    BY AttemptSteps
  <2> DEFINE k == request'.key
             ts == request'.targets
  <2>2. k \in Keys
    BY <2>1 DEF WriteRequest
  <2>3. CASE request'.past = NoNode
    <3>1. ts \in {Read(k), SwapFirst(Read(k))}
      BY <2>3, AttemptSteps
    <3> HIDE DEF k, ts
    <3>2. /\ ts \in Seq(Nodes) /\ Len(ts) = Min2(config.rf, Cardinality(ring.nodes))
          /\ \A i, j \in 1..Len(ts) : ts[i] = ts[j] => i = j
          /\ \E i \in 1..Len(ts) : ts[i] = Owner(ring, k)
      <4>1. CASE ts = SwapFirst(Read(k))
        BY <2>1, <2>2, <4>1, SwappedRead
      <4>2. CASE ts = Read(k)
        <5>1. /\ Read(k) \in Seq(Nodes) /\ Len(Read(k)) >= 1
              /\ Len(Read(k)) = Min2(config.rf, Cardinality(ring.nodes))
              /\ Read(k)[1] = Owner(ring, k)
              /\ \A i, j \in 1..Len(Read(k)) : Read(k)[i] = Read(k)[j] => i = j
          BY <2>1, <2>2, ReadIs
        <5>2. 1 \in 1..Len(ts)
          BY <4>2, <5>1
        <5> QED
          BY <4>2, <5>1, <5>2
      <4> QED
        BY <3>1, <4>1, <4>2
    <3>3. DOMAIN ts = 1..Len(ts) /\ Len(ts) \in Nat
      BY <3>2
    <3>4. Owner(ring, k) \in Range(ts) /\ Lists(ts, Range(ts))
      <4>1. \A i \in 1..Len(ts) : ts[i] \in Range(ts)
        BY <3>3 DEF Range
      <4>2. \A x \in Range(ts) : \E i \in 1..Len(ts) : ts[i] = x
        BY <3>3 DEF Range
      <4>3. ts \in Seq(Range(ts))
        BY <3>2, <4>1
      <4> QED
        BY <3>2, <4>1, <4>2, <4>3 DEF Lists
    <3>5. Cardinality(Range(ts)) = Len(ts)
      BY <3>4, ListLength
    <3> QED
      BY <2>3, <3>2, <3>4, <3>5 DEF k, ts
  <2>4. CASE request'.past # NoNode
    BY <2>4, AttemptSteps
  <2> QED
    BY <2>3, <2>4
<1>2. GatewayOK /\ [Next]_vars => [Goes]_vars
  BY <1>1
<1> QED
  BY <1>2, GatewayCorrect, PTL DEF Spec, GoesToReplicas

-----------------------------------------------------------------------------
\* The circuit breaker of one node, for any number of overlapping requests, any
\* threshold and any cooldown.

\* Every variable keeps its type, the failure counter below the threshold.
THEOREM BreakerTypeCorrect == BreakerSpec => []BreakerTypeOK
<1> USE BreakerAssumption DEF BreakerTypeOK
<1>1. BreakerInit => BreakerTypeOK
  BY DEF BreakerInit
<1>2. BreakerTypeOK /\ [BreakerNext]_breakerVars => BreakerTypeOK'
  <2> SUFFICES ASSUME BreakerTypeOK, [BreakerNext]_breakerVars PROVE BreakerTypeOK'
    OBVIOUS
  <2>1. ASSUME NEW r \in Requests, AllowClosed(r) PROVE BreakerTypeOK'
    BY <2>1 DEF AllowClosed
  <2>2. ASSUME NEW r \in Requests, AllowProbe(r) PROVE BreakerTypeOK'
    BY <2>2 DEF AllowProbe
  <2>3. ASSUME NEW r \in Requests, Success(r) PROVE BreakerTypeOK'
    BY <2>3 DEF Success, FailuresCleared
  <2>4. ASSUME NEW r \in Requests, Failure(r) PROVE BreakerTypeOK'
    BY <2>4 DEF Failure, Opens
  <2>5. ASSUME Tick PROVE BreakerTypeOK'
    BY <2>5 DEF Tick
  <2>6. ASSUME NodeChanges PROVE BreakerTypeOK'
    BY <2>6 DEF NodeChanges
  <2>7. CASE UNCHANGED breakerVars
    BY <2>7 DEF breakerVars
  <2> QED
    BY <2>1, <2>2, <2>3, <2>4, <2>5, <2>6, <2>7 DEF BreakerNext, RequestStep
<1> QED
  BY <1>1, <1>2, PTL DEF BreakerSpec

\* A half-open breaker always has its probe out (Allow, Success, Failure).  The
\* invariant is inductive as it stands, since any result ends half-open.
THEOREM ProbeIsOut == BreakerSpec => []HalfOpenHasProbe
<1> USE BreakerAssumption DEF BreakerTypeOK, HalfOpenHasProbe
<1>1. BreakerInit => HalfOpenHasProbe
  BY DEF BreakerInit
<1>2. BreakerTypeOK /\ HalfOpenHasProbe /\ [BreakerNext]_breakerVars => HalfOpenHasProbe'
  <2> SUFFICES ASSUME BreakerTypeOK, HalfOpenHasProbe, [BreakerNext]_breakerVars PROVE HalfOpenHasProbe'
    OBVIOUS
  <2>1. ASSUME NEW r \in Requests, AllowClosed(r) PROVE HalfOpenHasProbe'
    BY <2>1 DEF AllowClosed
  <2>2. ASSUME NEW r \in Requests, AllowProbe(r) PROVE HalfOpenHasProbe'
    BY <2>2 DEF AllowProbe
  <2>3. ASSUME NEW r \in Requests, Success(r) PROVE HalfOpenHasProbe'
    BY <2>3 DEF Success
  <2>4. ASSUME NEW r \in Requests, Failure(r) PROVE HalfOpenHasProbe'
    BY <2>4 DEF Failure, Opens
  <2>5. ASSUME Tick \/ NodeChanges \/ UNCHANGED breakerVars PROVE HalfOpenHasProbe'
    BY <2>5 DEF Tick, NodeChanges, breakerVars
  <2> QED
    BY <2>1, <2>2, <2>3, <2>4, <2>5 DEF BreakerNext, RequestStep
<1> QED
  BY <1>1, <1>2, BreakerTypeCorrect, PTL DEF BreakerSpec

\* While the breaker is closed its counter is the length of the current run of
\* failures, as far as that is counted.
CountsStreak == state = "closed" => failures = streak

\* It leaves closed only after Threshold failures in a row (Failure).
THEOREM OpensOnlyAfterStreak == BreakerSpec => OpensAfterStreak
<1> USE BreakerAssumption DEF BreakerTypeOK, CountsStreak
<1>1. BreakerInit => CountsStreak
  BY DEF BreakerInit
<1>2. BreakerTypeOK /\ CountsStreak /\ [BreakerNext]_breakerVars
        => /\ CountsStreak'
           /\ state = "closed" /\ state' = "open" => streak' = Threshold
  <2> SUFFICES ASSUME BreakerTypeOK, CountsStreak, [BreakerNext]_breakerVars
               PROVE  /\ CountsStreak'
                      /\ state = "closed" /\ state' = "open" => streak' = Threshold
    OBVIOUS
  <2>1. ASSUME NEW r \in Requests, AllowClosed(r) \/ AllowProbe(r) PROVE
          CountsStreak' /\ ~(state = "closed" /\ state' = "open")
    BY <2>1 DEF AllowClosed, AllowProbe
  <2>2. ASSUME NEW r \in Requests, Success(r) PROVE CountsStreak' /\ state' = "closed"
    BY <2>2 DEF Success, FailuresCleared
  <2>3. ASSUME NEW r \in Requests, Failure(r) PROVE
          CountsStreak' /\ (state = "closed" /\ state' = "open" => streak' = Threshold)
    BY <2>3 DEF Failure, Opens
  <2>4. ASSUME Tick \/ NodeChanges \/ UNCHANGED breakerVars PROVE CountsStreak' /\ state' = state
    BY <2>4 DEF Tick, NodeChanges, breakerVars
  <2> QED
    BY <2>1, <2>2, <2>3, <2>4 DEF BreakerNext, RequestStep
<1>3. BreakerTypeOK /\ CountsStreak /\ [BreakerNext]_breakerVars
        => [state = "closed" /\ state' = "open" => streak' = Threshold]_breakerVars
  BY <1>2
<1> QED
  BY <1>1, <1>2, <1>3, BreakerTypeCorrect, PTL DEF BreakerSpec, OpensAfterStreak
=============================================================================
