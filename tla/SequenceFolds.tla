---------------------------- MODULE SequenceFolds ----------------------------
(***************************************************************************)
(* What a left fold over a sequence computes, for any operator: the log,    *)
(* the partition of a reshard, the apply queue and its ledger all apply a   *)
(* sequence of events one after another with FoldLeft.  A module that       *)
(* proves about such a fold instantiates this one with its operator.        *)
(*                                                                          *)
(* Induction on the length is by a least counterexample: WFMin, since the   *)
(* numbers are well-founded.                                                *)
(***************************************************************************)
EXTENDS Integers, Sequences, FiniteSets, SequencesExt, SequenceTheorems, FiniteSetTheorems,
        WellFoundedInduction, TLAPS

CONSTANT Op(_, _)

Fold(b, s) == FoldLeft(Op, b, s)

\* Induction over the numbers, for a set of them.
LEMMA Induction ==
  ASSUME NEW T, 0 \in T, \A n \in Nat : n \in T => n + 1 \in T
  PROVE  \A n \in Nat : n \in T
<1> DEFINE M == Nat \ T
           R == OpToRel(<, Nat)
<1> SUFFICES ASSUME M # {} PROVE FALSE
  OBVIOUS
<1>1. PICK m \in M : \A y \in M : <<y, m>> \notin R
  <2>1. IsWellFoundedOn(R, Nat)
    BY NatLessThanWellFounded
  <2>2. M \subseteq Nat
    OBVIOUS
  <2> HIDE DEF R, M
  <2> QED
    BY <2>1, <2>2, WFMin
<1>2. \A y \in M : ~(y < m)
  BY <1>1 DEF OpToRel
<1>3. m - 1 \in Nat /\ m - 1 < m
  OBVIOUS
<1>4. m - 1 \in T
  BY <1>2, <1>3
<1> QED
  BY <1>3, <1>4

\* The function by which the fold is defined, on the sets of the first n indices.
Folding(f, b, s, n) ==
    f = [t \in SUBSET (1..n) |->
           IF t = {} THEN b ELSE Op(f[t \ {Max(t)}], s[Max(t)])]

LEMMA MaxOf == ASSUME NEW n \in Nat, NEW t \in SUBSET (1..n), n \in t PROVE Max(t) = n
<1>1. \A y \in t : n >= y
  OBVIOUS
<1>2. \A x \in t : (\A y \in t : x >= y) => x = n
  OBVIOUS
<1> QED
  BY <1>1, <1>2 DEF Max

LEMMA FoldingExists == \A n \in Nat : \A b, s : \E f : Folding(f, b, s, n)
<1> DEFINE T == {n \in Nat : \A b, s : \E f : Folding(f, b, s, n)}
<1>1. 0 \in T
  <2> SUFFICES ASSUME NEW b, NEW s PROVE \E f : Folding(f, b, s, 0)
    OBVIOUS
  <2> DEFINE f == [t \in SUBSET (1..0) |-> b]
  <2>1. \A t \in SUBSET (1..0) : t = {}
    OBVIOUS
  <2>2. Folding(f, b, s, 0)
    BY <2>1 DEF Folding
  <2> QED
    BY <2>2
<1>2. ASSUME NEW n \in Nat, n \in T PROVE n + 1 \in T
  <2> SUFFICES ASSUME NEW b, NEW s PROVE \E g : Folding(g, b, s, n + 1)
    OBVIOUS
  <2>1. PICK f : Folding(f, b, s, n)
    BY <1>2
  <2> DEFINE g == [t \in SUBSET (1..(n + 1)) |->
                     IF n + 1 \in t THEN Op(f[t \ {n + 1}], s[n + 1]) ELSE f[t]]
  <2>2. ASSUME NEW t \in SUBSET (1..(n + 1)), n + 1 \in t
        PROVE  g[t] = Op(g[t \ {Max(t)}], s[Max(t)])
    <3>1. Max(t) = n + 1
      BY <2>2, MaxOf
    <3>2. t \ {n + 1} \in SUBSET (1..(n + 1)) /\ n + 1 \notin t \ {n + 1}
      OBVIOUS
    <3>3. g[t \ {n + 1}] = f[t \ {n + 1}]
      BY <3>2
    <3> QED
      BY <2>2, <3>1, <3>3
  <2>3. ASSUME NEW t \in SUBSET (1..(n + 1)), n + 1 \notin t
        PROVE  g[t] = IF t = {} THEN b ELSE Op(g[t \ {Max(t)}], s[Max(t)])
    <3>0. \A i \in t : i \in 1..n
      BY <2>3
    <3>1. t \in SUBSET (1..n) /\ t \ {Max(t)} \in SUBSET (1..n)
      BY <3>0
    <3>2. g[t] = f[t] /\ g[t \ {Max(t)}] = f[t \ {Max(t)}]
      BY <2>3, <3>1
    <3>3. f[t] = IF t = {} THEN b ELSE Op(f[t \ {Max(t)}], s[Max(t)])
      BY <2>1, <3>1 DEF Folding
    <3> QED
      BY <3>2, <3>3
  <2>4. g = [t \in SUBSET (1..(n + 1)) |->
               IF t = {} THEN b ELSE Op(g[t \ {Max(t)}], s[Max(t)])]
    <3>1. \A t \in SUBSET (1..(n + 1)) :
            g[t] = IF t = {} THEN b ELSE Op(g[t \ {Max(t)}], s[Max(t)])
      BY <2>2, <2>3
    <3>2. g = [t \in SUBSET (1..(n + 1)) |-> g[t]]
      OBVIOUS
    <3> HIDE DEF g
    <3> QED
      BY <3>1, <3>2
  <2> HIDE DEF g
  <2> QED
    BY <2>4 DEF Folding
<1> HIDE DEF T
<1>3. \A n \in Nat : n \in T
  BY <1>1, <1>2, Induction
<1> QED
  BY <1>3 DEF T

\* One element at a time.
LEMMA FoldingStep ==
  ASSUME NEW n \in Nat, NEW f, NEW b, NEW s, Folding(f, b, s, n)
  PROVE  /\ f[1..0] = b
         /\ \A k \in 1..n : f[1..k] = Op(f[1..(k - 1)], s[k])
<1>1. f[1..0] = b
  <2>1. 1..0 = {} /\ {} \in SUBSET (1..n)
    OBVIOUS
  <2> QED
    BY <2>1 DEF Folding
<1>2. ASSUME NEW k \in 1..n PROVE f[1..k] = Op(f[1..(k - 1)], s[k])
  <2>1. 1..k \in SUBSET (1..n) /\ 1..k # {} /\ k \in 1..k
    OBVIOUS
  <2>2. f[1..k] = Op(f[(1..k) \ {Max(1..k)}], s[Max(1..k)])
    BY <2>1 DEF Folding
  <2>3. Max(1..k) = k
    BY <2>1, MaxOf
  <2>4. (1..k) \ {k} = 1..(k - 1)
    OBVIOUS
  <2> QED
    BY <2>2, <2>3, <2>4
<1> QED
  BY <1>1, <1>2

LEMMA FoldIsFolding ==
  ASSUME NEW S, NEW s \in Seq(S), NEW b
  PROVE  \E f : Folding(f, b, s, Len(s)) /\ Fold(b, s) = f[1..Len(s)]
<1> DEFINE f == CHOOSE f : Folding(f, b, s, Len(s))
<1>1. DOMAIN s = 1..Len(s) /\ Len(s) \in Nat
  OBVIOUS
<1>2. Folding(f, b, s, Len(s))
  BY <1>1, FoldingExists
<1>3. Fold(b, s) = f[1..Len(s)]
  BY <1>1 DEF Fold, FoldLeft, MapThenFoldSet, Folding
<1> QED
  BY <1>2, <1>3

\* Two foldings agree on what their sequences have in common.
LEMMA FoldingAgrees ==
  ASSUME NEW m \in Nat, NEW n \in Nat, NEW f, NEW g, NEW b, NEW s, NEW t,
         Folding(f, b, s, m), Folding(g, b, t, n),
         NEW k \in Nat, k <= m, k <= n, \A i \in 1..k : s[i] = t[i]
  PROVE  f[1..k] = g[1..k]
<1> DEFINE T == {j \in Nat : j <= k => f[1..j] = g[1..j]}
<1>1. 0 \in T
  BY FoldingStep
<1>2. ASSUME NEW j \in Nat, j \in T PROVE j + 1 \in T
  <2> SUFFICES ASSUME j + 1 <= k PROVE f[1..(j + 1)] = g[1..(j + 1)]
    OBVIOUS
  <2>1. j + 1 \in 1..m /\ j + 1 \in 1..n /\ j + 1 \in 1..k /\ (j + 1) - 1 = j
    OBVIOUS
  <2>2. f[1..j] = g[1..j] /\ s[j + 1] = t[j + 1]
    BY <1>2, <2>1
  <2>3. f[1..(j + 1)] = Op(f[1..j], s[j + 1])
    BY <2>1, FoldingStep
  <2>4. g[1..(j + 1)] = Op(g[1..j], t[j + 1])
    BY <2>1, FoldingStep
  <2> QED
    BY <2>2, <2>3, <2>4
<1> HIDE DEF T
<1>3. k \in T
  BY <1>1, <1>2, Induction
<1> QED
  BY <1>3 DEF T

-----------------------------------------------------------------------------
\* Of an empty sequence, the fold is where it starts ...
THEOREM FoldEmpty == \A b : Fold(b, <<>>) = b
<1> SUFFICES ASSUME NEW b PROVE Fold(b, <<>>) = b
  OBVIOUS
<1>1. <<>> \in Seq({}) /\ Len(<<>>) = 0
  OBVIOUS
<1>2. PICK f : Folding(f, b, <<>>, Len(<<>>)) /\ Fold(b, <<>>) = f[1..Len(<<>>)]
  BY <1>1, FoldIsFolding
<1> QED
  BY <1>1, <1>2, FoldingStep

\* ... and one more element is one more application of the operator.
THEOREM FoldAppend ==
  ASSUME NEW S, NEW s \in Seq(S), NEW e \in S, NEW b
  PROVE  Fold(b, Append(s, e)) = Op(Fold(b, s), e)
<1> DEFINE n == Len(s)
           t == Append(s, e)
<1>1. /\ t \in Seq(S) /\ n \in Nat /\ Len(t) = n + 1
      /\ t[n + 1] = e /\ \A i \in 1..n : s[i] = t[i]
  OBVIOUS
<1> HIDE DEF t
<1>2. PICK f : Folding(f, b, s, n) /\ Fold(b, s) = f[1..n]
  BY FoldIsFolding
<1>3. PICK g : Folding(g, b, t, n + 1) /\ Fold(b, t) = g[1..(n + 1)]
  BY <1>1, FoldIsFolding
<1> HIDE DEF n
<1>4. f[1..n] = g[1..n]
  BY <1>1, <1>2, <1>3, FoldingAgrees
<1>5. n + 1 \in 1..(n + 1) /\ (n + 1) - 1 = n
  BY <1>1
<1>6. g[1..(n + 1)] = Op(g[1..n], t[n + 1])
  BY <1>1, <1>3, <1>5, FoldingStep
<1> QED
  BY <1>1, <1>2, <1>3, <1>4, <1>6 DEF t

\* The prefixes of a sequence, from which an induction over it goes up.
LEMMA PrefixStep ==
  ASSUME NEW S, NEW s \in Seq(S), NEW k \in Nat, k < Len(s)
  PROVE  /\ SubSeq(s, 1, k) \in Seq(S) /\ Len(SubSeq(s, 1, k)) = k
         /\ s[k + 1] \in S
         /\ SubSeq(s, 1, k + 1) = Append(SubSeq(s, 1, k), s[k + 1])
<1>1. SubSeq(s, 1, k) \in Seq(S) /\ Len(SubSeq(s, 1, k)) = k /\ s[k + 1] \in S
  OBVIOUS
<1>2. SubSeq(s, 1, k + 1) \in Seq(S) /\ Len(SubSeq(s, 1, k + 1)) = k + 1
  OBVIOUS
<1>3. \A i \in 1..(k + 1) : SubSeq(s, 1, k + 1)[i] = Append(SubSeq(s, 1, k), s[k + 1])[i]
  OBVIOUS
<1>4. SubSeq(s, 1, k + 1) = Append(SubSeq(s, 1, k), s[k + 1])
  <2> DEFINE p == SubSeq(s, 1, k + 1)
             q == Append(SubSeq(s, 1, k), s[k + 1])
  <2>1. q \in Seq(S) /\ Len(q) = k + 1
    BY <1>1
  <2>2. p \in Seq(S) /\ Len(p) = k + 1 /\ \A i \in 1..Len(p) : p[i] = q[i]
    BY <1>2, <1>3
  <2> HIDE DEF p, q
  <2>3. p = q
    BY <2>1, <2>2, SeqEqual
  <2> QED
    BY <2>3 DEF p, q
<1> QED
  BY <1>1, <1>4

THEOREM FoldPrefix ==
  ASSUME NEW S, NEW s \in Seq(S), NEW b
  PROVE  /\ Fold(b, SubSeq(s, 1, 0)) = b
         /\ \A k \in Nat : k < Len(s) =>
              Fold(b, SubSeq(s, 1, k + 1)) = Op(Fold(b, SubSeq(s, 1, k)), s[k + 1])
         /\ Fold(b, SubSeq(s, 1, Len(s))) = Fold(b, s)
<1>1. SubSeq(s, 1, 0) = <<>> /\ SubSeq(s, 1, Len(s)) = s
  OBVIOUS
<1>2. ASSUME NEW k \in Nat, k < Len(s)
      PROVE  Fold(b, SubSeq(s, 1, k + 1)) = Op(Fold(b, SubSeq(s, 1, k)), s[k + 1])
  <2> DEFINE t == SubSeq(s, 1, k)
  <2>1. t \in Seq(S) /\ s[k + 1] \in S /\ SubSeq(s, 1, k + 1) = Append(t, s[k + 1])
    BY <1>2, PrefixStep
  <2> HIDE DEF t
  <2> QED
    BY <2>1, FoldAppend DEF t
<1> QED
  BY <1>1, <1>2, FoldEmpty

\* Taking the first element off a sequence is applying the operator to it first.
THEOREM FoldHead ==
  ASSUME NEW S, NEW s \in Seq(S), s # <<>>, NEW b
  PROVE  Fold(b, s) = Fold(Op(b, Head(s)), Tail(s))
<1> DEFINE t == Tail(s)
           c == Op(b, Head(s))
           Q == {k \in Nat : k < Len(s) => Fold(b, SubSeq(s, 1, k + 1)) = Fold(c, SubSeq(t, 1, k))}
<1>1. /\ t \in Seq(S) /\ Len(s) \in Nat /\ Len(s) > 0 /\ Len(t) = Len(s) - 1 /\ Head(s) = s[1]
      /\ \A k \in 1..Len(t) : t[k] = s[k + 1]
  OBVIOUS
<1> HIDE DEF t, c
<1>2. /\ Fold(b, SubSeq(s, 1, 0)) = b /\ Fold(b, SubSeq(s, 1, Len(s))) = Fold(b, s)
      /\ \A k \in Nat : k < Len(s) =>
           Fold(b, SubSeq(s, 1, k + 1)) = Op(Fold(b, SubSeq(s, 1, k)), s[k + 1])
  BY FoldPrefix
<1>3. /\ Fold(c, SubSeq(t, 1, 0)) = c /\ Fold(c, SubSeq(t, 1, Len(t))) = Fold(c, t)
      /\ \A k \in Nat : k < Len(t) =>
           Fold(c, SubSeq(t, 1, k + 1)) = Op(Fold(c, SubSeq(t, 1, k)), t[k + 1])
  BY <1>1, FoldPrefix
<1>4. 0 \in Q
  <2>1. Fold(b, SubSeq(s, 1, 0 + 1)) = Op(b, s[0 + 1])
    BY <1>1, <1>2
  <2> QED
    BY <1>1, <1>3, <2>1 DEF c
<1>5. ASSUME NEW k \in Nat, k \in Q PROVE k + 1 \in Q
  <2> DEFINE j == k + 1
  <2> SUFFICES ASSUME j < Len(s) PROVE Fold(b, SubSeq(s, 1, j + 1)) = Fold(c, SubSeq(t, 1, j))
    OBVIOUS
  <2>1. j \in Nat /\ k < Len(s) /\ k < Len(t) /\ t[j] = s[j + 1]
    BY <1>1
  <2>2. Fold(b, SubSeq(s, 1, j)) = Fold(c, SubSeq(t, 1, k))
    BY <1>5, <2>1
  <2>3. Fold(c, SubSeq(t, 1, j)) = Op(Fold(c, SubSeq(t, 1, k)), t[j])
    BY <1>3, <2>1
  <2>4. Fold(b, SubSeq(s, 1, j + 1)) = Op(Fold(b, SubSeq(s, 1, j)), s[j + 1])
    BY <1>2, <2>1
  <2> HIDE DEF j, Q
  <2> QED
    BY <2>1, <2>2, <2>3, <2>4
<1> HIDE DEF Q
<1>6. Len(t) \in Nat /\ Len(t) \in Q
  BY <1>1, <1>4, <1>5, Induction
<1>7. Len(t) < Len(s) /\ Len(t) + 1 = Len(s)
  BY <1>1
<1>8. Fold(b, SubSeq(s, 1, Len(s))) = Fold(c, SubSeq(t, 1, Len(t)))
  BY <1>6, <1>7 DEF Q
<1> QED
  BY <1>2, <1>3, <1>8 DEF c, t

\* What the operator preserves, the fold preserves.
THEOREM FoldPreserves ==
  ASSUME NEW S, NEW s \in Seq(S), NEW T, NEW b \in T,
         \A x \in T, e \in S : Op(x, e) \in T
  PROVE  Fold(b, s) \in T
<1> DEFINE Q == {k \in Nat : k <= Len(s) => Fold(b, SubSeq(s, 1, k)) \in T}
<1>1. 0 \in Q
  BY FoldPrefix
<1>2. ASSUME NEW k \in Nat, k \in Q PROVE k + 1 \in Q
  <2> SUFFICES ASSUME k + 1 <= Len(s) PROVE Fold(b, SubSeq(s, 1, k + 1)) \in T
    OBVIOUS
  <2>1. k < Len(s) /\ s[k + 1] \in S
    OBVIOUS
  <2>2. Fold(b, SubSeq(s, 1, k)) \in T
    BY <1>2, <2>1
  <2>3. Fold(b, SubSeq(s, 1, k + 1)) = Op(Fold(b, SubSeq(s, 1, k)), s[k + 1])
    BY <2>1, FoldPrefix
  <2> QED
    BY <2>1, <2>2, <2>3
<1> HIDE DEF Q
<1>3. Len(s) \in Q
  BY <1>1, <1>2, Induction
<1> QED
  BY <1>3, FoldPrefix DEF Q

-----------------------------------------------------------------------------
\* The same operator folded over a finite set, whose elements come in any order.
FoldOver(b, S) == FoldSet(LAMBDA e, a : Op(a, e), b, S)

Pick(t) == CHOOSE x \in t : TRUE

\* The function by which that fold is defined, as far as the subsets of n elements.
Gathering(f, b, S, n) ==
    /\ f = [t \in SUBSET S |-> f[t]]
    /\ \A t \in SUBSET S : Cardinality(t) <= n =>
         f[t] = IF t = {} THEN b ELSE Op(f[t \ {Pick(t)}], Pick(t))

LEMMA GatheringExists ==
  ASSUME NEW S, IsFiniteSet(S), NEW b PROVE \A n \in Nat : \E f : Gathering(f, b, S, n)
<1> DEFINE T == {n \in Nat : \E f : Gathering(f, b, S, n)}
<1>0. \A t \in SUBSET S : IsFiniteSet(t) /\ Cardinality(t) \in Nat /\ (Cardinality(t) = 0 <=> t = {})
  BY FS_Subset, FS_CardinalityType, FS_EmptySet
<1>1. 0 \in T
  <2> DEFINE f == [t \in SUBSET S |-> b]
  <2>1. Gathering(f, b, S, 0)
    BY <1>0 DEF Gathering
  <2> QED
    BY <2>1
<1>2. ASSUME NEW n \in Nat, n \in T PROVE n + 1 \in T
  <2>1. PICK f : Gathering(f, b, S, n)
    BY <1>2
  <2> DEFINE g == [t \in SUBSET S |-> IF Cardinality(t) <= n THEN f[t]
                                       ELSE Op(f[t \ {Pick(t)}], Pick(t))]
  <2>2. ASSUME NEW t \in SUBSET S, Cardinality(t) <= n + 1
        PROVE  g[t] = IF t = {} THEN b ELSE Op(g[t \ {Pick(t)}], Pick(t))
    <3>1. CASE t = {}
      <4>1. Cardinality(t) <= n
        BY <1>0, <3>1
      <4>2. g[t] = f[t]
        BY <4>1
      <4> HIDE DEF g
      <4>3. f[t] = b
        BY <2>1, <3>1, <4>1 DEF Gathering
      <4> QED
        BY <3>1, <4>2, <4>3
    <3>2. CASE t # {}
      <4> DEFINE r == t \ {Pick(t)}
      <4>1. Pick(t) \in t
        BY <3>2 DEF Pick
      <4>2. r \in SUBSET S /\ Cardinality(r) = Cardinality(t) - 1
        BY <1>0, <4>1, FS_RemoveElement
      <4>3. Cardinality(r) <= n
        BY <1>0, <2>2, <4>2
      <4>4. g[r] = f[r]
        BY <4>2, <4>3
      <4>5. CASE Cardinality(t) <= n
        <5>1. g[t] = f[t]
          BY <4>5
        <5>2. f[t] = Op(f[r], Pick(t))
          BY <2>1, <3>2, <4>5 DEF Gathering
        <5> QED
          BY <3>2, <4>4, <5>1, <5>2
      <4>6. CASE ~(Cardinality(t) <= n)
        <5>1. g[t] = Op(f[r], Pick(t))
          BY <4>6
        <5> QED
          BY <3>2, <4>4, <5>1
      <4> QED
        BY <4>5, <4>6
    <3> QED
      BY <3>1, <3>2
  <2>3. g = [t \in SUBSET S |-> g[t]]
    OBVIOUS
  <2> HIDE DEF g
  <2>4. Gathering(g, b, S, n + 1)
    BY <2>2, <2>3 DEF Gathering
  <2> QED
    BY <2>4
<1> HIDE DEF T
<1>3. \A n \in Nat : n \in T
  BY <1>1, <1>2, Induction
<1> QED
  BY <1>3 DEF T

\* A relation between the elements met and what has been made of them, kept by each
\* further element, holds of the whole set and its fold.
THEOREM FoldOverRelates ==
  ASSUME NEW S, IsFiniteSet(S), NEW b, NEW R, <<{}, b>> \in R,
         \A t \in SUBSET S : \A x \in S \ t : \A v :
           <<t, v>> \in R => <<t \cup {x}, Op(v, x)>> \in R
  PROVE  <<S, FoldOver(b, S)>> \in R
<1> DEFINE N == Cardinality(S)
           f == CHOOSE f : f = [t \in SUBSET S |->
                                  IF t = {} THEN b ELSE Op(f[t \ {Pick(t)}], Pick(t))]
           Q == {n \in Nat : \A t \in SUBSET S : Cardinality(t) = n => <<t, f[t]>> \in R}
<1>0. \A t \in SUBSET S : IsFiniteSet(t) /\ Cardinality(t) \in Nat /\ (Cardinality(t) = 0 <=> t = {})
                            /\ Cardinality(t) <= N
  BY FS_Subset, FS_CardinalityType, FS_EmptySet
<1>1. f = [t \in SUBSET S |-> IF t = {} THEN b ELSE Op(f[t \ {Pick(t)}], Pick(t))]
  <2>1. PICK g : Gathering(g, b, S, N)
    BY <1>0, GatheringExists
  <2>2. g = [t \in SUBSET S |-> IF t = {} THEN b ELSE Op(g[t \ {Pick(t)}], Pick(t))]
    <3>1. \A t \in SUBSET S : g[t] = IF t = {} THEN b ELSE Op(g[t \ {Pick(t)}], Pick(t))
      BY <1>0, <2>1 DEF Gathering
    <3>2. g = [t \in SUBSET S |-> g[t]]
      BY <2>1 DEF Gathering
    <3> QED
      BY <3>1, <3>2
  <2> QED
    BY <2>2
<1>2. FoldOver(b, S) = f[S]
  BY DEF FoldOver, FoldSet, MapThenFoldSet, Pick
<1> HIDE DEF f
<1>3. 0 \in Q
  <2>1. \A t \in SUBSET S : Cardinality(t) = 0 => t = {} /\ f[t] = b
    BY <1>0, <1>1
  <2> QED
    BY <2>1
<1>4. ASSUME NEW n \in Nat, n \in Q PROVE n + 1 \in Q
  <2> SUFFICES ASSUME NEW t \in SUBSET S, Cardinality(t) = n + 1 PROVE <<t, f[t]>> \in R
    OBVIOUS
  <2> DEFINE x == Pick(t)
             r == t \ {x}
  <2>1. t # {}
    BY <1>0
  <2>2. x \in t
    BY <2>1 DEF Pick
  <2>3. r \in SUBSET S /\ Cardinality(r) = n /\ x \notin r /\ x \in S /\ r \cup {x} = t
    BY <1>0, <2>2, FS_RemoveElement
  <2>4. <<r, f[r]>> \in R
    BY <1>4, <2>3
  <2>5. f[t] = Op(f[r], x)
    BY <1>1, <2>1
  <2> HIDE DEF x, r
  <2>6. <<r \cup {x}, Op(f[r], x)>> \in R
    BY <2>3, <2>4
  <2> QED
    BY <2>3, <2>5, <2>6
<1> HIDE DEF Q
<1>5. N \in Nat /\ N \in Q
  BY <1>0, <1>3, <1>4, Induction
<1> QED
  BY <1>2, <1>5 DEF Q
=============================================================================
