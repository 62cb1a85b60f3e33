--------------------------- MODULE EventLogProofs ---------------------------
(***************************************************************************)
(* Proofs about EventLog, for any TTL, window, threshold, number of events *)
(* and of restarts, and any schedule of the clock, the fsyncer and deaths. *)
(*                                                                         *)
(* 1. How many records of a set R a sequence holds, Count(R, s), and what  *)
(*    the aggregate (EvictAgg, ApplyAgg, RecoverAgg) and the replay of the *)
(*    WAL (Replay) make of it.  A window, and an id, is such a set R, so   *)
(*    one induction over each fold serves every property.                  *)
(* 2. Sound: types, counts against timelines in memory and in both         *)
(*    versions of the snapshot, and where the snapshot stands in the log.  *)
(* 3. Backed: what a process would count if it started again was accepted. *)
(* 4. Exact: WAL and log agree, and snapshot plus WAL is the aggregate.    *)
(* 5. Remembered: what the idempotency index of one process knows.         *)
(***************************************************************************)
EXTENDS EventLog, FiniteSetTheorems, TLAPS

-----------------------------------------------------------------------------
\* Counting.


\* A record, or an accepted event without its offset; the positions in s of what R holds.
Key(rec) == <<IdOf(rec), At(rec)>>
Hits(R, s) == {i \in DOMAIN s : Key(s[i]) \in R}
Count(R, s) == Cardinality(Hits(R, s))

\* Some positions of a sequence are no more than all of them.
LEMMA SomeIndices ==
  ASSUME NEW n \in Nat, NEW A, A \subseteq 1..n
  PROVE  IsFiniteSet(A) /\ Cardinality(A) \in Nat /\ Cardinality(A) <= n
<1>1. IsFiniteSet(1..n) /\ Cardinality(1..n) = n
  BY FS_Interval
<1>2. A \in SUBSET (1..n)
  OBVIOUS
<1>3. IsFiniteSet(A) /\ Cardinality(A) <= Cardinality(1..n)
  BY <1>1, <1>2, FS_Subset
<1> QED
  BY <1>1, <1>3, FS_CardinalityType

\* A count is a number.
LEMMA CountIs ==
  ASSUME NEW S, NEW s \in Seq(S), NEW R
  PROVE  IsFiniteSet(Hits(R, s)) /\ Count(R, s) \in Nat
<1>1. Hits(R, s) \subseteq 1..Len(s) /\ Len(s) \in Nat
  BY DEF Hits
<1> QED
  BY <1>1, SomeIndices DEF Count

\* Nothing is in the empty sequence.
LEMMA CountNone == \A R : Count(R, <<>>) = 0
<1>1. \A R : Hits(R, <<>>) = {}
  BY DEF Hits
<1> QED
  BY <1>1, FS_EmptySet DEF Count

\* What is appended is counted once.
LEMMA CountMore ==
  ASSUME NEW S, NEW s \in Seq(S), NEW e \in S, NEW R
  PROVE  Count(R, Append(s, e)) = Count(R, s) + (IF Key(e) \in R THEN 1 ELSE 0)
<1> DEFINE t == Append(s, e)
           n == Len(s)
<1>1. /\ n \in Nat /\ DOMAIN s = 1..n /\ DOMAIN t = 1..(n + 1)
      /\ t[n + 1] = e /\ \A i \in 1..n : t[i] = s[i]
  OBVIOUS
<1> HIDE DEF t
<1>2. /\ \A i \in 1..(n + 1) : i \in 1..n \/ i = n + 1
      /\ \A i \in 1..n : i \in 1..(n + 1)
      /\ n + 1 \in 1..(n + 1) /\ n + 1 \notin 1..n
  BY <1>1
<1>3. Hits(R, t) = IF Key(e) \in R THEN Hits(R, s) \cup {n + 1} ELSE Hits(R, s)
  BY <1>1, <1>2 DEF Hits
<1>4. n + 1 \notin Hits(R, s)
  BY <1>1, <1>2 DEF Hits
<1>5. IsFiniteSet(Hits(R, s)) /\ Cardinality(Hits(R, s)) \in Nat
  BY CountIs DEF Count
<1>6. Cardinality(Hits(R, s) \cup {n + 1}) = Cardinality(Hits(R, s)) + 1
  BY <1>4, <1>5, FS_AddElement
<1> QED
  BY <1>3, <1>5, <1>6 DEF Count, t

\* A prefix holds no more than the whole.
LEMMA CountOfPrefix ==
  ASSUME NEW S, NEW s \in Seq(S), NEW k \in 0..Len(s), NEW R
  PROVE  /\ SubSeq(s, 1, k) \in Seq(S) /\ Len(SubSeq(s, 1, k)) = k
         /\ \A i \in 1..k : SubSeq(s, 1, k)[i] = s[i]
         /\ Hits(R, SubSeq(s, 1, k)) = {i \in 1..k : Key(s[i]) \in R}
         /\ Count(R, SubSeq(s, 1, k)) <= Count(R, s)
<1> DEFINE p == SubSeq(s, 1, k)
<1>1. /\ p \in Seq(S) /\ Len(p) = k /\ DOMAIN p = 1..k /\ DOMAIN s = 1..Len(s)
      /\ \A i \in 1..k : p[i] = s[i]
  OBVIOUS
<1> HIDE DEF p
<1>2. Hits(R, p) = {i \in 1..k : Key(s[i]) \in R}
  BY <1>1 DEF Hits
<1>3. Hits(R, p) \subseteq Hits(R, s)
  BY <1>1, <1>2 DEF Hits
<1>4. Count(R, p) <= Count(R, s)
  BY <1>3, CountIs, FS_Subset DEF Count
<1> QED
  BY <1>1, <1>2, <1>4 DEF p

\* What is dropped from the front, and what is left, make the whole.
LEMMA CountOfRest ==
  ASSUME NEW S, NEW s \in Seq(S), NEW k \in 0..Len(s), NEW R
  PROVE  /\ Drop(s, k) \in Seq(S) /\ Len(Drop(s, k)) = Len(s) - k
         /\ Count(R, s) = Cardinality({i \in 1..k : Key(s[i]) \in R}) + Count(R, Drop(s, k))
         /\ Cardinality({i \in 1..k : Key(s[i]) \in R}) \in Nat
<1> DEFINE d == Drop(s, k)
           n == Len(s)
           A == {i \in 1..k : Key(s[i]) \in R}
           B == {i \in (k + 1)..n : Key(s[i]) \in R}
<1>0. n \in Nat /\ k \in Nat /\ k <= n /\ n - k \in Nat
  OBVIOUS
<1>1. /\ d \in Seq(S) /\ Len(d) = n - k /\ DOMAIN d = 1..(n - k) /\ DOMAIN s = 1..n
      /\ \A i \in 1..(n - k) : d[i] = s[k + i]
  <2>1. d = SubSeq(s, k + 1, n)
    BY DEF Drop
  <2> QED
    BY <1>0, <2>1
<1> HIDE DEF d
<1>2. /\ \A i \in 1..n : i \in 1..k \/ i \in (k + 1)..n
      /\ 1..k \subseteq 1..n /\ (k + 1)..n \subseteq 1..n
      /\ \A i \in 1..k : i \notin (k + 1)..n
  BY <1>0
<1>3. Hits(R, s) = A \cup B /\ A \cap B = {}
  BY <1>1, <1>2 DEF Hits
<1>4. IsFiniteSet(A) /\ IsFiniteSet(B) /\ Cardinality(A) \in Nat /\ Cardinality(B) \in Nat
  <2>1. A \subseteq 1..n /\ B \subseteq 1..n
    BY <1>2
  <2> HIDE DEF A, B
  <2> QED
    BY <1>0, <2>1, SomeIndices
<1>5. Count(R, s) = Cardinality(A) + Cardinality(B)
  <2> HIDE DEF A, B
  <2>1. Cardinality(A \cap B) = 0
    BY <1>3, FS_EmptySet
  <2>2. Cardinality(A \cup B) = Cardinality(A) + Cardinality(B) - Cardinality(A \cap B)
    BY <1>4, FS_Union
  <2> QED
    BY <1>3, <1>4, <2>1, <2>2 DEF Count
<1>6. Cardinality(B) = Count(R, d)
  <2> DEFINE f == [i \in B |-> i - k]
  <2>1. \A i \in B : i - k \in 1..(n - k) /\ k + (i - k) = i
    BY <1>0
  <2>2. \A i \in B : i - k \in Hits(R, d)
    BY <1>1, <2>1 DEF Hits
  <2>3. \A j \in Hits(R, d) : k + j \in B /\ (k + j) - k = j
    BY <1>0, <1>1 DEF Hits
  <2>4. \A i, j \in B : i - k = j - k => i = j
    BY <1>0
  <2>5. f \in [B -> Hits(R, d)]
    BY <2>2
  <2>6. \A j \in Hits(R, d) : \E i \in B : f[i] = j
    BY <2>3
  <2>7. \A i, j \in B : f[i] = f[j] => i = j
    BY <2>4
  <2> HIDE DEF f, B
  <2>8. f \in Bijection(B, Hits(R, d))
    BY <2>5, <2>6, <2>7 DEF Bijection, Injection, Surjection, IsInjective
  <2>9. ExistsBijection(B, Hits(R, d))
    BY <2>8 DEF ExistsBijection
  <2> QED
    BY <1>4, <2>9, FS_Bijection DEF Count
<1> QED
  BY <1>1, <1>4, <1>5, <1>6 DEF d

-----------------------------------------------------------------------------
\* The aggregate.


\* Aggregate.Apply, as the step of a fold.
Counted(a, rec) == ApplyAgg(a, rec)
Aggregated == INSTANCE SequenceFolds WITH Op <- Counted

\* Recovery applies the log to the snapshot's aggregate, one entry after the other.
LEMMA RecoverIsFold ==
  \A s, log : RecoverAgg(s, log) =
                Aggregated!Fold([counts |-> s.counts, timeline |-> s.timeline], log)
  BY DEF RecoverAgg, Counted, Aggregated!Fold, FoldLeft, Aggregated!FoldLeft, MapThenFoldSet,
         Aggregated!MapThenFoldSet, Max, Aggregated!Max

\* What a loop over a sequence sees before it stops is a prefix.
LEMMA PrefixIs ==
  ASSUME NEW n \in Nat, NEW A, A \subseteq 1..n, \A i \in A : 1..i \subseteq A
  PROVE  \E k \in 0..n : A = 1..k
<1> DEFINE T == {m \in Nat : A \subseteq 1..m => \E k \in 0..m : A = 1..k}
<1>1. 0 \in T
  <2>1. 1..0 = {} /\ 0 \in 0..0
    OBVIOUS
  <2>2. A \subseteq 1..0 => A = 1..0
    BY <2>1
  <2> QED
    BY <2>1, <2>2
<1>2. ASSUME NEW m \in Nat, m \in T PROVE m + 1 \in T
  <2> SUFFICES ASSUME A \subseteq 1..(m + 1) PROVE \E k \in 0..(m + 1) : A = 1..k
    OBVIOUS
  <2>1. CASE m + 1 \in A
    <3>1. 1..(m + 1) \subseteq A
      BY <2>1
    <3>2. A = 1..(m + 1)
      BY <3>1, Zenon
    <3>3. m + 1 \in 0..(m + 1)
      OBVIOUS
    <3> QED
      BY <3>2, <3>3
  <2>2. CASE m + 1 \notin A
    <3>1. A \subseteq 1..m
      BY <2>2
    <3>2. PICK k \in 0..m : A = 1..k
      BY <1>2, <3>1
    <3> QED
      BY <3>2
  <2> QED
    BY <2>1, <2>2
<1> HIDE DEF T
<1>3. n \in T
  BY <1>1, <1>2, Aggregated!Induction
<1> QED
  BY <1>3 DEF T

\* What evict takes is a prefix, and out of the window.
LEMMA ExpiredIs ==
  ASSUME NEW S, NEW tl \in Seq(S), NEW time
  PROVE  \E k \in 0..Len(tl) :
           /\ Expired(tl, time) = 1..k /\ Cardinality(Expired(tl, time)) = k
           /\ \A i \in 1..k : At(tl[i]) < time - Window
<1> DEFINE A == Expired(tl, time)
<1>1. Len(tl) \in Nat /\ DOMAIN tl = 1..Len(tl)
  OBVIOUS
<1>2. A \subseteq 1..Len(tl)
  BY <1>1 DEF Expired
<1>3. \A i \in A : 1..i \subseteq A
  <2> SUFFICES ASSUME NEW i \in A, NEW j \in 1..i PROVE j \in A
    OBVIOUS
  <2>1. i \in 1..Len(tl) /\ \A m \in 1..i : At(tl[m]) < time - Window
    BY <1>1 DEF Expired
  <2>2. j \in 1..Len(tl) /\ 1..j \subseteq 1..i
    BY <1>1, <2>1
  <2> QED
    BY <1>1, <2>1, <2>2 DEF Expired
<1>4. \A i \in A : At(tl[i]) < time - Window
  <2> SUFFICES ASSUME NEW i \in A PROVE At(tl[i]) < time - Window
    OBVIOUS
  <2>1. i \in 1..i
    BY <1>2
  <2> QED
    BY <2>1 DEF Expired
<1> HIDE DEF A
<1>5. PICK k \in 0..Len(tl) : A = 1..k
  BY <1>1, <1>2, <1>3, PrefixIs
<1>6. Cardinality(1..k) = k
  BY <1>1, FS_Interval
<1> QED
  BY <1>4, <1>5, <1>6 DEF A

\* The entries of an id, and those that a window keeps.
Of(id) == {r \in Records : IdOf(r) = id}
Since(time) == {r \in Records : At(r) >= time - Window}

\* An aggregate that agrees with itself.
Agrees(a) ==
    /\ a.counts \in [Ids -> Nat]
    /\ a.timeline \in Seq(Records)
    /\ \A id \in Ids : a.counts[id] = Count(Of(id), a.timeline)

\* A record is an id and a time.
LEMMA RecordIs ==
  \A r \in Records : IdOf(r) \in Ids /\ At(r) \in 0..MaxTime /\ r = <<IdOf(r), At(r)>> /\ Key(r) = r
  BY DEF Records, IdOf, At, Key

\* The constants are numbers.
LEMMA LogConstants ==
  /\ TTL \in Nat /\ Window \in Nat /\ Threshold \in Nat /\ Threshold > 0
  /\ MaxTime \in Nat /\ MaxAppends \in Nat /\ MaxRestarts \in Nat
  /\ Second \in Nat \ {0}
  BY LogAssumption

\* What Unix() leaves of a time.
LEMMA Truncated ==
  \A t \in Int : Unix(t) \in Int /\ Second * Unix(t) <= t /\ t < Second * Unix(t) + Second
  BY LogConstants, SMT DEF Unix

LEMMA Truncation ==
  /\ \A t \in Nat : Unix(t) \in Nat
  /\ \A t \in Int : Unix(t) \in Int /\ Unix(t) <= Unix(t + 1)
  BY LogConstants, SMT DEF Unix

\* Two times whose seconds are TTL apart are more than a TTL less a second apart.
LEMMA SecondsApart ==
  ASSUME NEW t \in Int, NEW u \in Int, Unix(t) <= Unix(u) - TTL
  PROVE  u - t > Recall
<1> DEFINE a == Unix(t)
           b == Unix(u)
<1>1. /\ a \in Int /\ b \in Int /\ TTL \in Nat /\ Second \in Nat \ {0} /\ a <= b - TTL
      /\ t < Second * a + Second /\ Second * b <= u
  BY Truncated, LogConstants
<1> HIDE DEF a, b
<1>2. Second * a <= Second * (b - TTL)
  BY <1>1, SMTT(30)
<1>3. Second * (b - TTL) = Second * b - Second * TTL
  BY <1>1, SMT
<1>4. (TTL - 1) * Second = Second * TTL - Second
  BY <1>1, SMT
<1>5. Second * a \in Int /\ Second * b \in Int /\ Second * TTL \in Int
  BY <1>1
<1> QED
  BY <1>1, <1>2, <1>3, <1>4, <1>5 DEF Recall

\* The bucket of a record.
LEMMA Bucketed ==
  \A r \in Records : InBucket(r) \in Ids \X Nat
                     /\ IdOf(InBucket(r)) = IdOf(r) /\ At(InBucket(r)) = Unix(At(r))
  BY RecordIs, Truncation, LogConstants DEF InBucket, IdOf, At

\* Eviction takes entries that are out of the window, with their counts.
LEMMA EvictAgrees ==
  ASSUME NEW a, Agrees(a), NEW time \in Int
  PROVE  /\ Agrees(EvictAgg(a, time))
         /\ \A R : Count(R, EvictAgg(a, time).timeline) <= Count(R, a.timeline)
         /\ \A R \in SUBSET Since(time) :
              Count(R, EvictAgg(a, time).timeline) = Count(R, a.timeline)
<1> DEFINE tl == a.timeline
           b == EvictAgg(a, time)
<1>0. tl \in Seq(Records) /\ Len(tl) \in Nat /\ DOMAIN tl = 1..Len(tl)
  BY DEF Agrees
<1>1. PICK k \in 0..Len(tl) :
             /\ Expired(tl, time) = 1..k /\ Cardinality(Expired(tl, time)) = k
             /\ \A i \in 1..k : At(tl[i]) < time - Window
  BY <1>0, ExpiredIs
<1>2. /\ b.timeline = Drop(tl, k)
      /\ b.counts = [id \in Ids |-> a.counts[id] - Cardinality({i \in 1..k : IdOf(tl[i]) = id})]
  BY <1>1 DEF EvictAgg
<1>3. \A i \in 1..k : tl[i] \in Records
  BY <1>0
<1> HIDE DEF tl, b
<1>4. \A R : /\ Drop(tl, k) \in Seq(Records)
             /\ Count(R, tl) = Cardinality({i \in 1..k : Key(tl[i]) \in R}) + Count(R, Drop(tl, k))
             /\ Cardinality({i \in 1..k : Key(tl[i]) \in R}) \in Nat
             /\ Count(R, Drop(tl, k)) \in Nat
  <2> TAKE R
  <2>1. /\ Drop(tl, k) \in Seq(Records)
        /\ Count(R, tl) = Cardinality({i \in 1..k : Key(tl[i]) \in R}) + Count(R, Drop(tl, k))
        /\ Cardinality({i \in 1..k : Key(tl[i]) \in R}) \in Nat
    BY <1>0, CountOfRest
  <2> QED
    BY <2>1, CountIs
<1>5. \A id \in Ids : {i \in 1..k : Key(tl[i]) \in Of(id)} = {i \in 1..k : IdOf(tl[i]) = id}
  BY <1>3, RecordIs DEF Of
<1>6. ASSUME NEW id \in Ids
      PROVE  b.counts[id] = Count(Of(id), b.timeline) /\ b.counts[id] \in Nat
  <2>1. a.counts[id] = Count(Of(id), tl)
    BY DEF Agrees, tl
  <2>2. b.counts[id] = a.counts[id] - Cardinality({i \in 1..k : IdOf(tl[i]) = id})
    BY <1>2
  <2>3. Count(Of(id), tl) = Cardinality({i \in 1..k : IdOf(tl[i]) = id}) + Count(Of(id), Drop(tl, k))
        /\ Cardinality({i \in 1..k : IdOf(tl[i]) = id}) \in Nat /\ Count(Of(id), Drop(tl, k)) \in Nat
    BY <1>4, <1>5
  <2>4. \A x, y, z \in Nat : x = y + z => x - y = z
    OBVIOUS
  <2>5. a.counts[id] \in Nat
    BY DEF Agrees
  <2> QED
    BY <1>2, <2>1, <2>2, <2>3, <2>4, <2>5
<1>7. b.counts \in [Ids -> Nat]
  BY <1>2, <1>6
<1>8. Agrees(b)
  BY <1>2, <1>4, <1>6, <1>7 DEF Agrees
<1>9. ASSUME NEW R PROVE Count(R, Drop(tl, k)) <= Count(R, tl)
  <2>1. \A x, y, z \in Nat : x = y + z => z <= x
    OBVIOUS
  <2>2. Count(R, tl) \in Nat
    BY <1>0, CountIs
  <2> QED
    BY <1>4, <2>1, <2>2
<1>10. ASSUME NEW R \in SUBSET Since(time) PROVE Count(R, Drop(tl, k)) = Count(R, tl)
  <2>1. \A i \in 1..k : Key(tl[i]) \notin R
    <3> SUFFICES ASSUME NEW i \in 1..k, tl[i] \in R PROVE FALSE
      BY <1>3, RecordIs
    <3>1. At(tl[i]) >= time - Window
      BY DEF Since
    <3>2. At(tl[i]) < time - Window /\ At(tl[i]) \in Int
      BY <1>1, <1>3, RecordIs DEF tl
    <3> QED
      BY <3>1, <3>2, LogConstants
  <2>2. {i \in 1..k : Key(tl[i]) \in R} = {}
    BY <2>1
  <2>3. Cardinality({i \in 1..k : Key(tl[i]) \in R}) = 0
    BY <2>2, FS_EmptySet
  <2> QED
    BY <1>4, <2>3
<1> QED
  BY <1>2, <1>8, <1>9, <1>10 DEF b, tl

\* Apply counts one entry more.
LEMMA ApplyAgrees ==
  ASSUME NEW a, Agrees(a), NEW rec \in Records
  PROVE  /\ Agrees(ApplyAgg(a, rec))
         /\ \A R : Count(R, ApplyAgg(a, rec).timeline)
                     <= Count(R, a.timeline) + (IF rec \in R THEN 1 ELSE 0)
         /\ \A R \in SUBSET Since(At(rec)) :
              Count(R, ApplyAgg(a, rec).timeline)
                = Count(R, a.timeline) + (IF rec \in R THEN 1 ELSE 0)
         /\ ApplyAgg(a, rec) = [counts |-> ApplyAgg(a, rec).counts,
                                timeline |-> ApplyAgg(a, rec).timeline]
<1> DEFINE b == EvictAgg(a, At(rec))
           c == ApplyAgg(a, rec)
<1>0. IdOf(rec) \in Ids /\ At(rec) \in Int /\ Key(rec) = rec
  BY RecordIs, LogConstants
<1>1. /\ Agrees(b)
      /\ \A R : Count(R, b.timeline) <= Count(R, a.timeline)
      /\ \A R \in SUBSET Since(At(rec)) : Count(R, b.timeline) = Count(R, a.timeline)
  BY <1>0, EvictAgrees
<1>2. b = [counts |-> b.counts, timeline |-> b.timeline]
  BY DEF EvictAgg
<1>3. c = [b EXCEPT !.counts[IdOf(rec)] = @ + 1, !.timeline = Append(@, rec)]
  BY DEF ApplyAgg
<1> HIDE DEF b, c
<1>4. /\ c = [counts |-> c.counts, timeline |-> c.timeline]
      /\ c.counts = [b.counts EXCEPT ![IdOf(rec)] = @ + 1]
      /\ c.timeline = Append(b.timeline, rec)
  BY <1>2, <1>3
<1>5. b.timeline \in Seq(Records) /\ b.counts \in [Ids -> Nat] /\ a.timeline \in Seq(Records)
  BY <1>1 DEF Agrees
<1>6. \A R : /\ Count(R, c.timeline) = Count(R, b.timeline) + (IF rec \in R THEN 1 ELSE 0)
             /\ Count(R, a.timeline) \in Nat /\ Count(R, b.timeline) \in Nat
  BY <1>0, <1>4, <1>5, CountMore, CountIs
<1>7. Agrees(c)
  <2>1. c.timeline \in Seq(Records) /\ c.counts \in [Ids -> Nat]
    BY <1>0, <1>4, <1>5
  <2>2. ASSUME NEW id \in Ids PROVE c.counts[id] = Count(Of(id), c.timeline)
    <3>1. rec \in Of(id) <=> id = IdOf(rec)
      BY DEF Of
    <3>2. b.counts[id] = Count(Of(id), b.timeline)
      BY <1>1 DEF Agrees
    <3> QED
      BY <1>0, <1>4, <1>5, <1>6, <3>1, <3>2
  <2> QED
    BY <2>1, <2>2 DEF Agrees
<1>8. \A R : Count(R, c.timeline) <= Count(R, a.timeline) + (IF rec \in R THEN 1 ELSE 0)
  <2> SUFFICES ASSUME NEW R
               PROVE  Count(R, c.timeline) <= Count(R, a.timeline) + (IF rec \in R THEN 1 ELSE 0)
    OBVIOUS
  <2>1. \A x, y \in Nat : \A i \in {0, 1} : x <= y => x + i <= y + i
    OBVIOUS
  <2> QED
    BY <1>1, <1>6, <2>1
<1>9. \A R \in SUBSET Since(At(rec)) :
         Count(R, c.timeline) = Count(R, a.timeline) + (IF rec \in R THEN 1 ELSE 0)
  BY <1>1, <1>6
<1> QED
  BY <1>4, <1>7, <1>8, <1>9 DEF c

-----------------------------------------------------------------------------
\* Recovery of the aggregate.

\* Recovery counts the log on top of the snapshot: never more than both hold, and of a window
\* that has not ended before the last of the log, all that both hold.
LEMMA RecoverAgrees ==
  ASSUME NEW s, Agrees(s), NEW es \in Seq(Records)
  PROVE  /\ Agrees(RecoverAgg(s, es))
         /\ \A R : Count(R, RecoverAgg(s, es).timeline) <= Count(R, s.timeline) + Count(R, es)
         /\ \A time \in Int : \A R \in SUBSET Since(time) :
              (\A i \in 1..Len(es) : At(es[i]) <= time) =>
                Count(R, RecoverAgg(s, es).timeline) = Count(R, s.timeline) + Count(R, es)
<1> DEFINE b == [counts |-> s.counts, timeline |-> s.timeline]
           n == Len(es)
           p(k) == SubSeq(es, 1, k)
           At_(k) == Aggregated!Fold(b, p(k))
           T == {k \in Nat : k <= n =>
                   /\ Agrees(At_(k))
                   /\ \A R : Count(R, At_(k).timeline) <= Count(R, s.timeline) + Count(R, p(k))
                   /\ \A time \in Int : \A R \in SUBSET Since(time) :
                        (\A i \in 1..n : At(es[i]) <= time) =>
                          Count(R, At_(k).timeline) = Count(R, s.timeline) + Count(R, p(k))}
<1>0. n \in Nat
  OBVIOUS
<1>1. Agrees(b) /\ \A R : Count(R, s.timeline) \in Nat
  BY CountIs DEF Agrees
<1>2. 0 \in T
  <2>1. At_(0) = b
    BY Aggregated!FoldPrefix
  <2>2. p(0) = <<>>
    OBVIOUS
  <2>3. \A R : Count(R, p(0)) = 0
    BY <2>2, CountNone
  <2> HIDE DEF p, At_
  <2>4. \A x \in Nat : x <= x + 0 /\ x = x + 0
    OBVIOUS
  <2> QED
    BY <1>1, <2>1, <2>3, <2>4
<1>3. ASSUME NEW k \in Nat, k \in T PROVE k + 1 \in T
  <2> SUFFICES ASSUME k + 1 <= n
               PROVE  /\ Agrees(At_(k + 1))
                      /\ \A R : Count(R, At_(k + 1).timeline)
                                  <= Count(R, s.timeline) + Count(R, p(k + 1))
                      /\ \A time \in Int : \A R \in SUBSET Since(time) :
                           (\A i \in 1..n : At(es[i]) <= time) =>
                             Count(R, At_(k + 1).timeline)
                               = Count(R, s.timeline) + Count(R, p(k + 1))
    OBVIOUS
  <2> DEFINE a == At_(k)
             c == At_(k + 1)
             rec == es[k + 1]
             q == p(k)
  <2>0. k < n /\ rec \in Records /\ k + 1 \in 1..n
    BY <1>0
  <2>1. /\ Agrees(a)
        /\ \A R : Count(R, a.timeline) <= Count(R, s.timeline) + Count(R, q)
        /\ \A time \in Int : \A R \in SUBSET Since(time) :
             (\A i \in 1..n : At(es[i]) <= time) =>
               Count(R, a.timeline) = Count(R, s.timeline) + Count(R, q)
    BY <1>3, <2>0
  <2>2. c = ApplyAgg(a, rec)
    BY <2>0, Aggregated!FoldPrefix DEF Counted
  <2>3. q \in Seq(Records) /\ p(k + 1) = Append(q, rec)
    BY <2>0, Aggregated!PrefixStep
  <2> HIDE DEF At_, p, a, c, rec, q
  <2>4. /\ Agrees(c)
        /\ \A R : Count(R, c.timeline) <= Count(R, a.timeline) + (IF rec \in R THEN 1 ELSE 0)
        /\ \A R \in SUBSET Since(At(rec)) :
             Count(R, c.timeline) = Count(R, a.timeline) + (IF rec \in R THEN 1 ELSE 0)
    BY <2>0, <2>1, <2>2, ApplyAgrees
  <2>5. \A R : /\ Count(R, p(k + 1)) = Count(R, q) + (IF rec \in R THEN 1 ELSE 0)
               /\ Count(R, q) \in Nat
    <3> TAKE R
    <3>1. Key(rec) = rec
      BY <2>0, RecordIs
    <3>2. Count(R, Append(q, rec)) = Count(R, q) + (IF Key(rec) \in R THEN 1 ELSE 0)
      BY <2>0, <2>3, CountMore
    <3> QED
      BY <2>3, <3>1, <3>2, CountIs
  <2>6. \A R : Count(R, a.timeline) \in Nat /\ Count(R, c.timeline) \in Nat
    BY <2>1, <2>4, CountIs DEF Agrees
  <2>7. ASSUME NEW R
        PROVE  Count(R, c.timeline) <= Count(R, s.timeline) + Count(R, p(k + 1))
    <3>1. \A x, y, z, u \in Nat : \A i \in {0, 1} : x <= y + i /\ y <= z + u => x <= z + (u + i)
      OBVIOUS
    <3> QED
      BY <1>1, <2>1, <2>4, <2>5, <2>6, <3>1
  <2>8. ASSUME NEW time \in Int, NEW R \in SUBSET Since(time), \A i \in 1..n : At(es[i]) <= time
        PROVE  Count(R, c.timeline) = Count(R, s.timeline) + Count(R, p(k + 1))
    <3>1. At(rec) <= time
      BY <2>0, <2>8 DEF rec
    <3>2. At(rec) \in Int /\ \A r \in Records : At(r) \in Int
      BY <2>0, RecordIs, LogConstants
    <3>3. R \in SUBSET Since(At(rec))
      <4>1. \A x, y, t, u \in Int : t <= u /\ x >= u - y => x >= t - y
        OBVIOUS
      <4> QED
        BY <3>1, <3>2, <4>1, LogConstants DEF Since
    <3>4. Count(R, c.timeline) = Count(R, a.timeline) + (IF rec \in R THEN 1 ELSE 0)
      BY <2>4, <3>3
    <3>5. Count(R, a.timeline) = Count(R, s.timeline) + Count(R, q)
      BY <2>1, <2>8
    <3>6. \A x, y \in Nat : \A i \in {0, 1} : (x + y) + i = x + (y + i)
      OBVIOUS
    <3> QED
      BY <1>1, <2>5, <3>4, <3>5, <3>6
  <2> QED
    BY <2>4, <2>7, <2>8 DEF c
<1> HIDE DEF T
<1>4. n \in T
  BY <1>0, <1>2, <1>3, Aggregated!Induction
<1>5. At_(n) = RecoverAgg(s, es) /\ p(n) = es
  BY Aggregated!FoldPrefix, RecoverIsFold
<1> HIDE DEF At_, p
<1> QED
  BY <1>0, <1>4, <1>5 DEF T

-----------------------------------------------------------------------------
\* Replay of the WAL.

\* Open reads one record after the other.
Keeping(l, rec) == IF \E i \in DOMAIN l : IdOf(l[i]) = IdOf(rec) THEN l ELSE Append(l, rec)
Replayed == INSTANCE SequenceFolds WITH Op <- Keeping
Kept(w) == Replayed!Fold(<<>>, w)

\* Open keeps a record, or not, by what it has kept so far.
LEMMA ReplayIsFold == \A w : Replay(w) = Kept(Scanned(w))
  BY DEF Replay, Keeping, Kept, Replayed!Fold, FoldLeft, Replayed!FoldLeft, MapThenFoldSet,
         Replayed!MapThenFoldSet, Max, Replayed!Max

\* An empty WAL gives an empty log.
LEMMA KeptNothing == Kept(<<>>) = <<>>
  BY Replayed!FoldEmpty DEF Kept

\* One more line is one more step.
LEMMA KeptMore ==
  ASSUME NEW w \in Seq(Records), NEW rec \in Records
  PROVE  Kept(Append(w, rec)) = Keeping(Kept(w), rec)
  BY Replayed!FoldAppend DEF Kept

\* What the scanner reads is a prefix of the WAL: all of it, if every line fits.
LEMMA ScannedIs ==
  ASSUME NEW w \in Seq(Records)
  PROVE  /\ Scanned(w) \in Seq(Records)
         /\ \A R : Count(R, Scanned(w)) <= Count(R, w)
         /\ \A i \in 1..Len(Scanned(w)) : \E j \in 1..Len(w) : Scanned(w)[i] = w[j]
         /\ BigIds = {} => Scanned(w) = w
<1> DEFINE A == {i \in DOMAIN w : \A j \in 1..i : IdOf(w[j]) \notin BigIds}
           n == Len(w)
<1>1. n \in Nat /\ DOMAIN w = 1..n
  OBVIOUS
<1>2. A \subseteq 1..n
  BY <1>1
<1>3. IsFiniteSet(A) /\ Cardinality(A) \in Nat /\ Cardinality(A) <= n
  <2> HIDE DEF A
  <2> QED
    BY <1>1, <1>2, SomeIndices
<1>4. BigIds = {} => Cardinality(A) = n
  <2>1. BigIds = {} => A = 1..n
    BY <1>1
  <2>2. Cardinality(1..n) = n
    BY <1>1, FS_Interval
  <2> HIDE DEF A
  <2> QED
    BY <2>1, <2>2
<1>5. Scanned(w) = SubSeq(w, 1, Cardinality(A))
  BY DEF Scanned
<1> HIDE DEF A
<1> DEFINE k == Cardinality(A)
<1>6. k \in 0..n
  BY <1>1, <1>3
<1> HIDE DEF k
<1>7. /\ SubSeq(w, 1, k) \in Seq(Records) /\ Len(SubSeq(w, 1, k)) = k
      /\ \A i \in 1..k : SubSeq(w, 1, k)[i] = w[i]
      /\ \A R : Count(R, SubSeq(w, 1, k)) <= Count(R, w)
  BY <1>6, CountOfPrefix
<1>8. \A i \in 1..k : i \in 1..n
  BY <1>1, <1>6
<1>9. BigIds = {} => SubSeq(w, 1, k) = w
  BY <1>4 DEF k
<1> QED
  BY <1>5, <1>7, <1>8, <1>9 DEF k

\* The journal counts as its implementation does.
LEMMA CardinalityShared == \A S : Promise!Cardinality(S) = Cardinality(S)
  BY DEF Cardinality, Promise!Cardinality

\* What a log without repetition is.
NoRepeat(s) == \A i, j \in DOMAIN s : IdOf(s[i]) = IdOf(s[j]) => i = j

\* Where no id is repeated, every record is a first one.
LEMMA FirstsOfAll ==
  ASSUME NEW S, NEW s \in Seq(S)
  PROVE  Promise!Firsts(s) = DOMAIN s <=> NoRepeat(s)
<1>1. DOMAIN s = 1..Len(s) /\ Len(s) \in Nat
  OBVIOUS
<1>2. \A i, j \in 1..Len(s) : i # j => j \in 1..(i - 1) \/ i \in 1..(j - 1)
  BY <1>1
<1>3. \A i \in 1..Len(s) : \A j \in 1..(i - 1) : j \in 1..Len(s) /\ j # i
  BY <1>1
<1>4. NoRepeat(s) => Promise!Firsts(s) = DOMAIN s
  BY <1>1, <1>3 DEF NoRepeat, Promise!Firsts, IdOf
<1>5. ASSUME Promise!Firsts(s) = DOMAIN s PROVE NoRepeat(s)
  <2>1. \A i \in 1..Len(s) : \A j \in 1..(i - 1) : IdOf(s[j]) # IdOf(s[i])
    BY <1>1, <1>5 DEF Promise!Firsts, IdOf
  <2> QED
    BY <1>1, <1>2, <2>1 DEF NoRepeat
<1> QED
  BY <1>4, <1>5

\* What replay keeps of a log: its first records, in their order.
LEMMA KeptIs ==
  ASSUME NEW w \in Seq(Records)
  PROVE  /\ Kept(w) \in Seq(Records)
         /\ NoRepeat(Kept(w))
         /\ Promise!OnlyFirsts(Kept(w), w)
         /\ \A R : Count(R, Kept(w)) <= Count(R, w)
         /\ \A i \in 1..Len(Kept(w)) : \E j \in 1..Len(w) : Kept(w)[i] = w[j]
<1> DEFINE n == Len(w)
           p(k) == SubSeq(w, 1, k)
           d(k) == Replayed!Fold(<<>>, p(k))
           F(k) == {i \in 1..k : \A j \in 1..(i - 1) : IdOf(w[j]) # IdOf(w[i])}
           Good(k) ==
             /\ d(k) \in Seq(Records)
             /\ NoRepeat(d(k))
             /\ {IdOf(d(k)[i]) : i \in 1..Len(d(k))} = {IdOf(w[i]) : i \in 1..k}
             /\ Len(d(k)) = Cardinality(F(k))
             /\ \A i \in F(k) : d(k)[Cardinality(F(i))] = w[i]
             /\ \A R : Count(R, d(k)) <= Count(R, p(k))
             /\ \A i \in 1..Len(d(k)) : \E j \in 1..k : d(k)[i] = w[j]
           T == {k \in Nat : k <= n => Good(k)}
<1>0. n \in Nat /\ DOMAIN w = 1..n
  OBVIOUS
<1>1. \A k \in Nat : /\ IsFiniteSet(F(k)) /\ Cardinality(F(k)) \in Nat
                     /\ \A i \in F(k) : i \in 1..k /\ i \in F(i) /\ F(i) \subseteq F(k)
  <2> TAKE k \in Nat
  <2>1. F(k) \subseteq 1..k
    OBVIOUS
  <2>2. \A i \in F(k) : i \in 1..k /\ i \in F(i) /\ F(i) \subseteq F(k)
    OBVIOUS
  <2> HIDE DEF F
  <2> QED
    BY <2>1, <2>2, SomeIndices
<1>2. 0 \in T
  <2>1. d(0) = <<>> /\ p(0) = <<>>
    BY Replayed!FoldPrefix
  <2>2. F(0) = {} /\ 1..0 = {}
    OBVIOUS
  <2>3. Cardinality(F(0)) = 0
    BY <2>2, FS_EmptySet
  <2>4. \A R : Count(R, <<>>) <= Count(R, <<>>)
    BY CountNone
  <2>5. NoRepeat(<<>>)
    BY DEF NoRepeat
  <2> HIDE DEF d, p, F
  <2>6. Len(<<>>) = 0 /\ <<>> \in Seq(Records)
    OBVIOUS
  <2>7. Good(0)
    BY <2>1, <2>2, <2>3, <2>4, <2>5, <2>6
  <2> HIDE DEF Good
  <2> QED
    BY <2>7
<1> HIDE DEF Good
<1>3. ASSUME NEW k \in Nat, k \in T PROVE k + 1 \in T
  <2> SUFFICES ASSUME k + 1 <= n PROVE Good(k + 1)
    OBVIOUS
  <2> DEFINE l == d(k)
             rec == w[k + 1]
             q == p(k)
  <2>0. k < n /\ rec \in Records
    BY <1>0
  <2>1. Good(k)
    BY <1>3, <2>0
  <2>2. d(k + 1) = Keeping(l, rec)
    BY <2>0, Replayed!FoldPrefix, ZenonT(30)
  <2>3. q \in Seq(Records) /\ p(k + 1) = Append(q, rec)
    BY <2>0, Replayed!PrefixStep
  <2>4. \A i \in 1..(k + 1) : i \in 1..k \/ i = k + 1
    OBVIOUS
  <2>5. 1..k \subseteq 1..(k + 1) /\ k + 1 \in 1..(k + 1) /\ k + 1 \notin 1..k /\ (k + 1) - 1 = k
    OBVIOUS
  <2>6. F(k + 1) = IF \E i \in 1..k : IdOf(w[i]) = IdOf(rec) THEN F(k) ELSE F(k) \cup {k + 1}
    BY <2>4, <2>5
  <2>7. k + 1 \notin F(k)
    BY <2>5
  <2>8. {IdOf(w[i]) : i \in 1..(k + 1)} = {IdOf(w[i]) : i \in 1..k} \cup {IdOf(rec)}
    BY <2>4, <2>5
  <2>9. /\ l \in Seq(Records) /\ NoRepeat(l) /\ Len(l) \in Nat /\ DOMAIN l = 1..Len(l)
        /\ {IdOf(l[i]) : i \in 1..Len(l)} = {IdOf(w[i]) : i \in 1..k}
        /\ Len(l) = Cardinality(F(k))
        /\ \A i \in F(k) : l[Cardinality(F(i))] = w[i]
        /\ \A R : Count(R, l) <= Count(R, q)
        /\ \A i \in 1..Len(l) : \E j \in 1..k : l[i] = w[j]
    <3>1. l \in Seq(Records)
      BY <2>1 DEF Good
    <3>2. Len(l) \in Nat /\ DOMAIN l = 1..Len(l)
      BY <3>1
    <3> HIDE DEF d, F, p
    <3> QED
      BY <2>1, <3>1, <3>2 DEF Good
  <2> HIDE DEF F, rec, q, l, d, p
  <2>10. (\E i \in DOMAIN l : IdOf(l[i]) = IdOf(rec)) <=> \E i \in 1..k : IdOf(w[i]) = IdOf(rec)
    <3>1. ASSUME NEW i \in 1..Len(l), IdOf(l[i]) = IdOf(rec)
          PROVE  \E j \in 1..k : IdOf(w[j]) = IdOf(rec)
      <4>1. IdOf(rec) \in {IdOf(l[j]) : j \in 1..Len(l)}
        BY <3>1
      <4> QED
        BY <2>9, <4>1
    <3>2. ASSUME NEW i \in 1..k, IdOf(w[i]) = IdOf(rec)
          PROVE  \E j \in 1..Len(l) : IdOf(l[j]) = IdOf(rec)
      <4>1. IdOf(rec) \in {IdOf(w[j]) : j \in 1..k}
        BY <3>2
      <4> QED
        BY <2>9, <4>1
    <3> QED
      BY <2>9, <3>1, <3>2
  <2>11. \A R : Count(R, p(k + 1)) = Count(R, q) + (IF Key(rec) \in R THEN 1 ELSE 0)
                /\ Count(R, q) \in Nat /\ Count(R, l) \in Nat
    <3> TAKE R
    <3>1. Count(R, Append(q, rec)) = Count(R, q) + (IF Key(rec) \in R THEN 1 ELSE 0)
      BY <2>0, <2>3, CountMore
    <3> QED
      BY <2>3, <2>9, <3>1, CountIs
  <2>12. CASE \E i \in 1..k : IdOf(w[i]) = IdOf(rec)
    <3>1. d(k + 1) = l /\ F(k + 1) = F(k)
      BY <2>2, <2>6, <2>10, <2>12 DEF Keeping
    <3>2. {IdOf(w[i]) : i \in 1..(k + 1)} = {IdOf(w[i]) : i \in 1..k}
      BY <2>8, <2>12
    <3>3. \A R : Count(R, l) <= Count(R, p(k + 1))
      <4>1. \A x, y \in Nat : \A i \in {0, 1} : x <= y => x <= y + i
        OBVIOUS
      <4> QED
        BY <2>9, <2>11, <4>1
    <3>4. \A i \in 1..Len(l) : \E j \in 1..(k + 1) : l[i] = w[j]
      BY <2>5, <2>9
    <3> QED
      BY <2>9, <3>1, <3>2, <3>3, <3>4 DEF Good
  <2>13. CASE ~\E i \in 1..k : IdOf(w[i]) = IdOf(rec)
    <3> DEFINE m == Append(l, rec)
               c == Len(l)
    <3>1. d(k + 1) = m /\ F(k + 1) = F(k) \cup {k + 1}
      BY <2>2, <2>6, <2>10, <2>13 DEF Keeping
    <3>2. /\ m \in Seq(Records) /\ Len(m) = c + 1 /\ m[c + 1] = rec /\ DOMAIN m = 1..(c + 1)
          /\ \A i \in 1..c : m[i] = l[i]
      BY <2>0, <2>9
    <3> HIDE DEF m
    <3>3. \A i \in 1..(c + 1) : i \in 1..c \/ i = c + 1
      BY <2>9
    <3>4. 1..c \subseteq 1..(c + 1) /\ c + 1 \in 1..(c + 1) /\ c + 1 \notin 1..c
      BY <2>9
    <3>5. \A i \in 1..c : IdOf(l[i]) # IdOf(rec)
      BY <2>9, <2>10, <2>13
    <3>6. NoRepeat(m)
      <4> SUFFICES ASSUME NEW i \in 1..(c + 1), NEW j \in 1..(c + 1), IdOf(m[i]) = IdOf(m[j])
                   PROVE  i = j
        BY <3>2 DEF NoRepeat
      <4>1. CASE i \in 1..c /\ j \in 1..c
        BY <2>9, <3>2, <4>1 DEF NoRepeat
      <4>2. CASE i = c + 1 /\ j = c + 1
        BY <4>2
      <4>3. CASE (i \in 1..c /\ j = c + 1) \/ (i = c + 1 /\ j \in 1..c)
        BY <3>2, <3>5, <4>3
      <4> QED
        BY <3>3, <4>1, <4>2, <4>3
    <3>7. {IdOf(m[i]) : i \in 1..(c + 1)} = {IdOf(l[i]) : i \in 1..c} \cup {IdOf(rec)}
      BY <3>2, <3>3, <3>4
    <3>8. Cardinality(F(k + 1)) = c + 1
      BY <1>1, <2>7, <2>9, <3>1, FS_AddElement
    <3>9. \A i \in F(k + 1) : m[Cardinality(F(i))] = w[i]
      <4> SUFFICES ASSUME NEW i \in F(k + 1) PROVE m[Cardinality(F(i))] = w[i]
        OBVIOUS
      <4>1. CASE i = k + 1
        BY <3>2, <3>8, <4>1 DEF rec
      <4>2. CASE i \in F(k)
        <5>1. i \in 1..k /\ i \in F(i) /\ F(i) \subseteq F(k) /\ IsFiniteSet(F(k))
              /\ IsFiniteSet(F(i)) /\ Cardinality(F(i)) \in Nat
          BY <1>1, <4>2
        <5>2. Cardinality(F(i)) <= c
          BY <2>9, <5>1, FS_Subset
        <5>3. Cardinality(F(i)) # 0
          BY <5>1, FS_EmptySet
        <5>4. Cardinality(F(i)) \in 1..c
          BY <2>9, <5>1, <5>2, <5>3
        <5> QED
          BY <2>9, <3>2, <4>2, <5>4
      <4> QED
        BY <3>1, <4>1, <4>2
    <3>10. \A R : Count(R, m) <= Count(R, p(k + 1))
      <4> TAKE R
      <4>1. Count(R, m) = Count(R, l) + (IF Key(rec) \in R THEN 1 ELSE 0)
        BY <2>0, <2>9, CountMore DEF m
      <4>2. \A x, y \in Nat : \A i \in {0, 1} : x <= y => x + i <= y + i
        OBVIOUS
      <4> QED
        BY <2>9, <2>11, <4>1, <4>2
    <3>11. \A i \in 1..(c + 1) : \E j \in 1..(k + 1) : m[i] = w[j]
      <4> SUFFICES ASSUME NEW i \in 1..(c + 1) PROVE \E j \in 1..(k + 1) : m[i] = w[j]
        OBVIOUS
      <4>1. CASE i \in 1..c
        BY <2>5, <2>9, <3>2, <4>1
      <4>2. CASE i = c + 1
        BY <2>5, <3>2, <4>2 DEF rec
      <4> QED
        BY <3>3, <4>1, <4>2
    <3>12. {IdOf(m[i]) : i \in 1..Len(m)} = {IdOf(w[i]) : i \in 1..(k + 1)}
      BY <2>8, <2>9, <3>2, <3>7
    <3>13. Len(m) = Cardinality(F(k + 1)) /\ \A i \in 1..Len(m) : \E j \in 1..(k + 1) : m[i] = w[j]
      BY <3>2, <3>8, <3>11
    <3>14. m \in Seq(Records)
      BY <3>2
    <3> QED
      BY <3>1, <3>6, <3>9, <3>10, <3>12, <3>13, <3>14 DEF Good
  <2> QED
    BY <2>12, <2>13
<1> HIDE DEF T
<1>4. n \in T
  BY <1>0, <1>2, <1>3, Replayed!Induction
<1>5. d(n) = Kept(w) /\ p(n) = w
  BY Replayed!FoldPrefix DEF Kept
<1>6. Promise!Firsts(w) = F(n)
  BY <1>0 DEF Promise!Firsts, IdOf
<1>7. \A i \in F(n) : {j \in F(n) : j <= i} = F(i)
  <2> SUFFICES ASSUME NEW i \in F(n) PROVE {j \in F(n) : j <= i} = F(i)
    OBVIOUS
  <2>1. i \in 1..n
    BY <1>0, <1>1
  <2>2. \A j \in 1..i : j \in 1..n /\ j <= i
    BY <1>0, <2>1
  <2>3. \A j \in 1..n : j <= i => j \in 1..i
    BY <1>0, <2>1
  <2> QED
    BY <2>2, <2>3
<1>8. Good(n)
  BY <1>0, <1>4 DEF T
<1> HIDE DEF d, p, F
<1>9. Promise!OnlyFirsts(Kept(w), w)
  BY <1>5, <1>6, <1>7, <1>8, CardinalityShared DEF Promise!OnlyFirsts, Good
<1> QED
  BY <1>5, <1>8, <1>9 DEF Good

\* Nothing is left out of a log without repetition.
LEMMA KeptAll ==
  ASSUME NEW w \in Seq(Records), NoRepeat(w)
  PROVE  Kept(w) = w
<1> DEFINE n == Len(w)
           k == Kept(w)
<1>1. k \in Seq(Records) /\ Promise!OnlyFirsts(k, w) /\ n \in Nat /\ DOMAIN w = 1..n
  BY KeptIs
<1>2. Promise!Firsts(w) = 1..n
  BY <1>1, FirstsOfAll
<1>3. \A i \in 1..n : {j \in 1..n : j <= i} = 1..i
  BY <1>1
<1>4. \A i \in Nat : Cardinality(1..i) = i
  BY FS_Interval
<1> HIDE DEF k
<1>5. Len(k) = n /\ \A i \in 1..n : k[i] = w[i]
  BY <1>1, <1>2, <1>3, <1>4, CardinalityShared DEF Promise!OnlyFirsts, k
<1>6. k = w
  BY <1>1, <1>5
<1> QED
  BY <1>6 DEF k

-----------------------------------------------------------------------------
\* Types, and counts against timelines.

\* Outside of a compaction the snapshot is where the log begins; inside, where it ends.
Anchored ==
    IF compacting THEN snap.base = LogHead /\ snap.timeline = timeline
                  ELSE snap.base = base

\* The first inductive invariant.
Sound ==
    /\ TypeOK
    /\ Agrees(Agg) /\ Agrees(snap) /\ Agrees(snapSynced)
    /\ Anchored
    /\ ~PowerLoss => synced = 0
    /\ \A i \in DOMAIN wal : At(wal[i]) <= now

\* What an accepted event is recorded as.
LEMMA RecordOf ==
  ASSUME TypeOK, NEW id \in Ids
  PROVE  /\ <<id, now>> \in Records /\ IdOf(<<id, now>>) = id /\ At(<<id, now>>) = now
         /\ now \in Int
  BY LogConstants DEF TypeOK, Records, IdOf, At

\* An aggregate that a step sets agrees if what it is set to does.
LEMMA SetAgrees ==
  ASSUME NEW a, Agrees(a), SetAgg(a)
  PROVE  Agrees(Agg') /\ counts' \in [Ids -> Nat] /\ timeline' \in Seq(Records)
  BY DEF Agrees, SetAgg, Agg

\* The aggregate in memory is its two variables.
LEMMA AggParts == Agg.counts = counts /\ Agg.timeline = timeline
  BY DEF Agg

\* The index holds ids and seconds.
LEMMA DedupTyped ==
  ASSUME NEW d \in SUBSET (Ids \X Nat), NEW rec \in Records
  PROVE  EvictDedup(d) \in SUBSET (Ids \X Nat) /\ AddDedup(d, rec) \in SUBSET (Ids \X Nat)
  BY Bucketed DEF EvictDedup, AddDedup

\* What of the history is durable was accepted.
LEMMA SinceBootAcked ==
  ASSUME TypeOK
  PROVE  AckedSinceBoot \subseteq ToSet(acked)
<1>1. /\ acked \in Seq(Ids \X (0..MaxTime) \X Nat) /\ Len(acked) \in Nat
      /\ booted \in 0..Len(acked) /\ DOMAIN acked = 1..Len(acked)
  BY DEF TypeOK
<1> DEFINE s == SubSeq(acked, booted + 1, Len(acked))
<1>2. /\ DOMAIN s = 1..(Len(acked) - booted)
      /\ \A i \in 1..(Len(acked) - booted) : s[i] = acked[booted + i] /\ booted + i \in 1..Len(acked)
  BY <1>1
<1> HIDE DEF s
<1>3. ToSet(s) \subseteq ToSet(acked)
  BY <1>1, <1>2 DEF ToSet
<1> QED
  BY <1>3 DEF AckedSinceBoot, s

\* What a new process makes of its files.
LEMMA BootMakes ==
  ASSUME TypeOK, NEW w \in Seq(Records), NEW s, Agrees(s), s.base \in Nat, Boot(w, s)
  PROVE  /\ base' = s.base /\ ~compacting' /\ UNCHANGED <<now, acked, durable>>
         /\ booted' = Len(acked) /\ restarts' = restarts + 1
         /\ entries' \in Seq(Records) /\ dedup' \subseteq Ids \X Nat
         /\ entries' = Kept(Scanned(w))
         /\ Agrees(Agg') /\ counts' \in [Ids -> Nat] /\ timeline' \in Seq(Records)
         /\ timeline' = RecoverAgg(s, entries').timeline
<1>1. /\ entries' = Replay(w) /\ dedup' = Reindex(Replay(w))
      /\ SetAgg(RecoverAgg(s, Replay(w))) /\ base' = s.base /\ compacting' = FALSE
      /\ UNCHANGED <<now, acked, durable>> /\ booted' = Len(acked) /\ restarts' = restarts + 1
  BY DEF Boot
<1>2. Replay(w) = Kept(Scanned(w)) /\ Replay(w) \in Seq(Records)
  BY ScannedIs, ReplayIsFold, KeptIs
<1>3. ToSet(Replay(w)) \in SUBSET Records
  BY <1>2 DEF ToSet
<1>4. Reindex(Replay(w)) \subseteq Ids \X Nat
  BY <1>3, Bucketed DEF Reindex, EvictDedup
<1>5. Agrees(RecoverAgg(s, Replay(w)))
  BY <1>2, RecoverAgrees
<1>6. Agrees(Agg') /\ counts' \in [Ids -> Nat] /\ timeline' \in Seq(Records)
  BY <1>1, <1>5, SetAgrees
<1> QED
  BY <1>1, <1>2, <1>4, <1>6 DEF SetAgg

\* Append: one more record in log, WAL and aggregate.
LEMMA AppendSound ==
  ASSUME Sound, NEW id \in Ids, AppendEvent(id)
  PROVE  Sound'
<1> USE DEF Sound
<1> DEFINE rec == <<id, now>>
           e == <<id, now, LogHead>>
<1>1. /\ ~compacting /\ entries' = Append(entries, rec)
      /\ dedup' = AddDedup(IF Idempotent THEN EvictDedup(dedup) ELSE dedup, rec)
      /\ wal' = (IF torn THEN wal ELSE Append(wal, rec)) /\ torn' = FALSE
      /\ UNCHANGED <<synced, snap, snapSynced>>
      /\ SetAgg(ApplyAgg(Agg, rec))
      /\ acked' = Append(acked, e)
      /\ UNCHANGED <<now, base, compacting, booted, durable, restarts>>
  BY DEF AppendEvent, WriteLine
<1>2. rec \in Records /\ At(rec) = now /\ now \in Int
  BY RecordOf
<1>3. e \in Ids \X (0..MaxTime) \X Nat
  <2>1. LogHead \in Nat
    BY DEF TypeOK, LogHead
  <2> QED
    BY <2>1 DEF TypeOK
<1>4. Agrees(Agg') /\ counts' \in [Ids -> Nat] /\ timeline' \in Seq(Records)
  BY <1>1, <1>2, ApplyAgrees, SetAgrees
<1> HIDE DEF rec, e
<1>5. /\ entries' \in Seq(Records) /\ wal' \in Seq(Records) /\ Len(wal') >= Len(wal)
      /\ Len(wal) \in Nat /\ Len(wal') \in Nat
      /\ \A i \in DOMAIN wal' : wal'[i] = rec \/ (i \in DOMAIN wal /\ wal'[i] = wal[i])
  <2>1. entries \in Seq(Records) /\ wal \in Seq(Records)
    BY DEF TypeOK
  <2>2. CASE torn
    BY <1>1, <1>2, <2>1, <2>2
  <2>3. CASE ~torn
    BY <1>1, <1>2, <2>1, <2>3
  <2> QED
    BY <2>2, <2>3
<1>6. dedup' \subseteq Ids \X Nat
  <2>1. dedup \in SUBSET (Ids \X Nat)
    BY DEF TypeOK
  <2>2. (IF Idempotent THEN EvictDedup(dedup) ELSE dedup) \in SUBSET (Ids \X Nat)
    BY <2>1, <1>2, DedupTyped
  <2> QED
    BY <1>1, <1>2, <2>2, DedupTyped
<1>7. /\ acked' \in Seq(Ids \X (0..MaxTime) \X Nat) /\ booted' \in 0..Len(acked')
      /\ ToSet(acked) \subseteq ToSet(acked')
  <2>1. acked \in Seq(Ids \X (0..MaxTime) \X Nat) /\ Len(acked) \in Nat /\ booted \in 0..Len(acked)
    BY DEF TypeOK
  <2>2. /\ acked' \in Seq(Ids \X (0..MaxTime) \X Nat) /\ Len(acked') = Len(acked) + 1
        /\ \A i \in 1..Len(acked) : acked'[i] = acked[i]
    BY <1>1, <1>3, <2>1
  <2>3. DOMAIN acked = 1..Len(acked) /\ DOMAIN acked' = 1..(Len(acked) + 1)
        /\ 1..Len(acked) \subseteq 1..(Len(acked) + 1)
    BY <2>1, <2>2
  <2>4. ToSet(acked) \subseteq ToSet(acked')
    BY <2>2, <2>3 DEF ToSet
  <2> QED
    BY <1>1, <2>1, <2>2, <2>4
<1>8. TypeOK'
  <2>1. synced' \in 0..Len(wal') /\ durable' \subseteq ToSet(acked')
    BY <1>1, <1>5, <1>7 DEF TypeOK
  <2> QED
    BY <1>1, <1>4, <1>5, <1>6, <1>7, <2>1 DEF TypeOK
<1>9. Anchored'
  BY <1>1 DEF Anchored
<1>10. \A i \in DOMAIN wal' : At(wal'[i]) <= now'
  BY <1>1, <1>2, <1>5
<1> QED
  BY <1>1, <1>4, <1>8, <1>9, <1>10

\* A repeated id changes the index alone.
LEMMA DuplicateSound ==
  ASSUME Sound, NEW id \in Ids, AppendDuplicate(id)
  PROVE  Sound'
<1>1. /\ UNCHANGED <<now, base, entries, counts, timeline, compacting, wal, torn, synced, snap,
                     snapSynced, acked, booted, durable, restarts>>
      /\ dedup' \subseteq dedup
  BY DEF AppendDuplicate, files, history, EvictDedup
<1> QED
  BY <1>1 DEF Sound, TypeOK, Agg, Agrees, Anchored, LogHead

\* Eviction keeps counts and timeline together.
LEMMA EvictSound ==
  ASSUME Sound, SetAgg(EvictAgg(Agg, now))
  PROVE  Agrees(Agg') /\ counts' \in [Ids -> Nat] /\ timeline' \in Seq(Records)
<1>1. now \in Int
  BY DEF Sound, TypeOK
<1> QED
  BY <1>1, EvictAgrees, SetAgrees DEF Sound

\* A query evicts.
LEMMA QuerySound ==
  ASSUME Sound, Query
  PROVE  Sound'
<1>1. /\ UNCHANGED <<now, base, entries, dedup, compacting, wal, torn, synced, snap, snapSynced,
                     acked, booted, durable, restarts>>
      /\ SetAgg(EvictAgg(Agg, now)) /\ ~compacting
  BY DEF Query, files, history
<1>2. Agrees(Agg') /\ counts' \in [Ids -> Nat] /\ timeline' \in Seq(Records)
  BY <1>1, EvictSound
<1> QED
  BY <1>1, <1>2 DEF Sound, TypeOK, Agrees, Anchored

\* The fsyncer makes durable what was accepted.
LEMMA FsyncSound ==
  ASSUME Sound, Fsync
  PROVE  Sound'
<1>1. /\ UNCHANGED <<now, base, entries, dedup, counts, timeline, compacting, wal, torn, snap,
                     snapSynced, acked, booted, restarts>>
      /\ PowerLoss /\ synced' = Len(wal) /\ durable' = durable \cup AckedSinceBoot
  BY DEF Fsync, memory
<1>2. Len(wal) \in Nat
  BY DEF Sound, TypeOK
<1>3. durable' \subseteq ToSet(acked)
  BY <1>1, SinceBootAcked DEF Sound, TypeOK
<1>4. synced' \in 0..Len(wal)
  BY <1>1, <1>2
<1> QED
  BY <1>1, <1>3, <1>4 DEF Sound, TypeOK, Agg, Agrees, Anchored, LogHead

\* The snapshot is the aggregate, evicted, under the log's head.
LEMMA SnapshotSound ==
  ASSUME Sound, CompactSnapshot
  PROVE  Sound'
<1>1. /\ UNCHANGED <<now, base, entries, dedup, wal, torn, synced, snapSynced,
                     acked, booted, durable, restarts>>
      /\ SetAgg(EvictAgg(Agg, now)) /\ compacting' = TRUE
      /\ snap' = Snapshot(LogHead)
  BY DEF CompactSnapshot, history
<1>2. Agrees(Agg') /\ counts' \in [Ids -> Nat] /\ timeline' \in Seq(Records)
  BY <1>1, EvictSound
<1>3. snap'.base = LogHead /\ snap'.counts = counts' /\ snap'.timeline = timeline'
  BY <1>1 DEF Snapshot, SetAgg
<1>4. LogHead \in Nat /\ LogHead' = LogHead
  BY <1>1 DEF Sound, TypeOK, LogHead
<1>5. Agrees(snap')
  BY <1>2, <1>3 DEF Agrees, Agg
<1>6. TypeOK'
  BY <1>1, <1>2, <1>3, <1>4 DEF Sound, TypeOK
<1> QED
  BY <1>1, <1>2, <1>3, <1>4, <1>5, <1>6 DEF Sound, Anchored

\* The second half of Compact leaves nothing in the log: what it drops is all there was
\* when the first half took the snapshot.
LEMMA CompactEmpties ==
  ASSUME Sound, CompactWal
  PROVE  /\ entries' = <<>> /\ wal' = <<>> /\ base' = snap.base /\ ~torn' /\ ~compacting'
         /\ compacting /\ UNCHANGED <<now, dedup, counts, timeline, snap, snapSynced>>
         /\ UNCHANGED <<acked, booted, restarts>>
<1>1. /\ compacting /\ entries' = Drop(entries, snap.base - base) /\ base' = snap.base
      /\ wal' = entries' /\ torn' = FALSE /\ compacting' = FALSE
      /\ UNCHANGED <<now, dedup, counts, timeline, snap, snapSynced>>
      /\ UNCHANGED <<acked, booted, restarts>>
  BY DEF CompactWal, Rewrite
<1>2. snap.base = base + Len(entries) /\ base \in Nat /\ entries \in Seq(Records)
  BY <1>1 DEF Sound, Anchored, TypeOK, LogHead
<1>3. snap.base - base = Len(entries)
  BY <1>2
<1>4. Drop(entries, Len(entries)) = <<>>
  BY <1>2 DEF Drop
<1> QED
  BY <1>1, <1>3, <1>4

\* The truncation leaves the snapshot where the log begins.
LEMMA CompactSound ==
  ASSUME Sound, CompactWal
  PROVE  Sound'
<1>1. /\ entries' = <<>> /\ wal' = <<>> /\ base' = snap.base /\ ~torn' /\ ~compacting'
      /\ compacting /\ UNCHANGED <<now, dedup, counts, timeline, snap, snapSynced>>
      /\ UNCHANGED <<acked, booted, restarts>>
  BY CompactEmpties
<1>2. /\ synced' = (IF PowerLoss THEN Len(wal') ELSE synced)
      /\ durable' \subseteq durable \cup AckedSinceBoot /\ torn' = FALSE /\ compacting' = FALSE
  BY DEF CompactWal
<1>3. synced' = 0
  BY <1>1, <1>2 DEF Sound
<1>4. durable' \subseteq ToSet(acked)
  BY <1>2, SinceBootAcked DEF Sound, TypeOK
<1>5. <<>> \in Seq(Records) /\ Len(<<>>) = 0 /\ DOMAIN <<>> = {}
  OBVIOUS
<1>6. TypeOK'
  <2>1. entries' \in Seq(Records) /\ wal' \in Seq(Records) /\ synced' \in 0..Len(wal')
    BY <1>1, <1>3, <1>5
  <2>2. durable' \subseteq ToSet(acked') /\ booted' \in 0..Len(acked')
    BY <1>1, <1>4 DEF Sound, TypeOK
  <2> QED
    BY <1>1, <1>2, <2>1, <2>2 DEF Sound, TypeOK
<1>7. Anchored'
  BY <1>1 DEF Anchored
<1> QED
  BY <1>1, <1>3, <1>5, <1>6, <1>7 DEF Sound, Agrees, Agg

\* The zero snapshot counts nothing.
LEMMA NoSnapshot ==
  Agrees(ZeroSnap) /\ ZeroSnap.base = 0 /\ ZeroSnap.timeline = <<>>
  /\ \A R : Count(R, ZeroSnap.timeline) = 0
<1>1. \A S : <<>> \in Seq(S)
  OBVIOUS
<1> QED
  BY <1>1, CountNone DEF Agrees, ZeroSnap

\* What a death leaves of the files: a prefix of the WAL, at least what was synced, and one of
\* the two snapshots or none.
LEMMA DeathIs ==
  ASSUME Sound, Kill \/ HostDies
  PROVE  \E s \in {snap, snapSynced, ZeroSnap} : \E k \in synced..Len(wal) :
           /\ wal' = SubSeq(wal, 1, k) /\ snap' = s /\ snapSynced' \in {snap, snapSynced, ZeroSnap}
           /\ Boot(wal', s) /\ synced' \in 0..k /\ (~PowerLoss => synced' = synced)
           /\ torn' \in (IF Torn THEN BOOLEAN ELSE {torn})
           /\ (compacting => CrashInCompact)
<1>1. CASE Kill
  <2>1. UNCHANGED <<wal, torn, synced, snap, snapSynced>> /\ Boot(wal, snap)
        /\ (compacting => CrashInCompact)
    BY <1>1 DEF Kill, files
  <2>2. wal = SubSeq(wal, 1, Len(wal)) /\ Len(wal) \in synced..Len(wal) /\ synced \in 0..Len(wal)
        /\ torn \in BOOLEAN
    BY DEF Sound, TypeOK
  <2>3. wal' = SubSeq(wal, 1, Len(wal)) /\ Boot(wal', snap)
    BY <2>1, <2>2
  <2>4. torn' \in (IF Torn THEN BOOLEAN ELSE {torn})
    BY <2>1, <2>2
  <2> QED
    BY <2>1, <2>2, <2>3, <2>4
<1>2. CASE HostDies
  <2>1. PICK k \in synced..Len(wal) :
             /\ wal' = SubSeq(wal, 1, k) /\ synced' = k
             /\ torn' \in IF Torn /\ k < Len(wal) THEN BOOLEAN ELSE {torn}
    BY <1>2 DEF HostDies
  <2>2. /\ PowerLoss /\ snap' \in {snap, snapSynced, ZeroSnap} /\ snapSynced' = snap'
        /\ Boot(wal', snap') /\ (compacting => CrashInCompact)
    BY <1>2 DEF HostDies
  <2>3. k \in 0..k
    BY <2>1 DEF Sound, TypeOK
  <2>4. torn' \in (IF Torn THEN BOOLEAN ELSE {torn})
    BY <2>1 DEF Sound, TypeOK
  <2> QED
    BY <2>1, <2>2, <2>3, <2>4
<1> QED
  BY <1>1, <1>2

\* A new process is sound on whatever the death left.
LEMMA DeathSound ==
  ASSUME Sound, Kill \/ HostDies
  PROVE  Sound'
<1>1. \E s \in {snap, snapSynced, ZeroSnap} : \E k \in synced..Len(wal) :
         /\ wal' = SubSeq(wal, 1, k) /\ snap' = s
         /\ snapSynced' \in {snap, snapSynced, ZeroSnap} /\ Boot(wal', s) /\ synced' \in 0..k /\ (~PowerLoss => synced' = synced)
         /\ torn' \in (IF Torn THEN BOOLEAN ELSE {torn})
         /\ (compacting => CrashInCompact)
  BY DeathIs
<1>2. PICK s \in {snap, snapSynced, ZeroSnap} : \E k \in synced..Len(wal) :
         /\ wal' = SubSeq(wal, 1, k) /\ snap' = s
         /\ snapSynced' \in {snap, snapSynced, ZeroSnap} /\ Boot(wal', s) /\ synced' \in 0..k /\ (~PowerLoss => synced' = synced)
         /\ torn' \in BOOLEAN
  BY <1>1 DEF Sound, TypeOK
<1>3. PICK k \in synced..Len(wal) :
         /\ wal' = SubSeq(wal, 1, k) /\ snap' = s
         /\ snapSynced' \in {snap, snapSynced, ZeroSnap} /\ Boot(wal', s) /\ synced' \in 0..k /\ (~PowerLoss => synced' = synced)
         /\ torn' \in BOOLEAN
  BY <1>2
<1>4. wal \in Seq(Records) /\ k \in 0..Len(wal) /\ Len(wal) \in Nat
  BY DEF Sound, TypeOK
<1>5. /\ wal' \in Seq(Records) /\ Len(wal') = k /\ DOMAIN wal' = 1..k
      /\ \A i \in 1..k : wal'[i] = wal[i] /\ i \in DOMAIN wal
  <2>1. SubSeq(wal, 1, k) \in Seq(Records) /\ Len(SubSeq(wal, 1, k)) = k
        /\ DOMAIN SubSeq(wal, 1, k) = 1..k
        /\ \A i \in 1..k : SubSeq(wal, 1, k)[i] = wal[i] /\ i \in DOMAIN wal
    BY <1>4
  <2> QED
    BY <1>3, <2>1
<1>6. Agrees(s) /\ s.base \in Nat /\ Agrees(snapSynced') /\ snapSynced'.base \in Nat
  <2>1. Agrees(ZeroSnap) /\ ZeroSnap.base = 0
    BY NoSnapshot
  <2>2. \A v \in {snap, snapSynced, ZeroSnap} : Agrees(v) /\ v.base \in Nat
    BY <2>1 DEF Sound, TypeOK
  <2> QED
    BY <1>3, <2>2
<1>7. restarts < MaxRestarts
  BY DEF Kill, HostDies
<1>8. /\ base' = s.base /\ ~compacting' /\ UNCHANGED <<now, acked, durable>>
      /\ booted' = Len(acked) /\ restarts' = restarts + 1
      /\ entries' \in Seq(Records) /\ dedup' \subseteq Ids \X Nat
      /\ Agrees(Agg') /\ counts' \in [Ids -> Nat] /\ timeline' \in Seq(Records)
  BY <1>3, <1>5, <1>6, BootMakes DEF Sound
<1>9. TypeOK'
  <2>1. compacting' = FALSE
    BY <1>3 DEF Boot
  <2>2. restarts' \in 0..MaxRestarts
    BY <1>7, <1>8, LogConstants DEF Sound, TypeOK
  <2>3. booted' \in 0..Len(acked')
    BY <1>8 DEF Sound, TypeOK
  <2>4. synced' \in 0..Len(wal')
    BY <1>3, <1>5
  <2> QED
    BY <1>3, <1>5, <1>6, <1>8, <2>1, <2>2, <2>3, <2>4 DEF Sound, TypeOK
<1>10. Anchored'
  BY <1>3, <1>8 DEF Anchored
<1>11. \A i \in DOMAIN wal' : At(wal'[i]) <= now'
  BY <1>5, <1>8 DEF Sound
<1>12. ~PowerLoss => synced' = 0
  BY <1>3 DEF Sound
<1> QED
  BY <1>3, <1>6, <1>8, <1>9, <1>10, <1>11, <1>12 DEF Sound

\* Sound holds at the start ...
LEMMA StartSound == Init => Sound
<1> SUFFICES ASSUME Init PROVE Sound
  OBVIOUS
<1>1. \A S : <<>> \in Seq(S)
  OBVIOUS
<1>2. Len(<<>>) = 0 /\ DOMAIN <<>> = {}
  OBVIOUS
<1>3. Agrees(ZeroSnap)
  BY NoSnapshot
<1>4. TypeOK
  <2>1. 0 \in 0..MaxTime /\ 0 \in 0..MaxRestarts /\ 0 \in 0..0
    BY LogConstants
  <2>2. synced \in 0..Len(wal) /\ booted \in 0..Len(acked)
    BY <1>2, <2>1 DEF Init
  <2>3. counts \in [Ids -> Nat] /\ snap.base = 0 /\ snapSynced.base = 0
    BY DEF Init, ZeroSnap
  <2>4. now \in 0..MaxTime /\ base \in Nat /\ restarts \in 0..MaxRestarts
    BY <2>1 DEF Init
  <2>5. entries \in Seq(Records) /\ timeline \in Seq(Records) /\ wal \in Seq(Records)
    BY <1>1 DEF Init
  <2>6. compacting = FALSE /\ torn = FALSE /\ dedup = {} /\ durable = {}
    BY DEF Init
  <2>7. acked \in Seq(Ids \X (0..MaxTime) \X Nat)
    BY <1>1 DEF Init
  <2> QED
    <3>1. dedup \subseteq Ids \X Nat /\ durable \subseteq ToSet(acked)
      BY <2>6
    <3>2. {compacting, torn} \subseteq BOOLEAN
      BY <2>6
    <3>3. {snap.base, snapSynced.base} \subseteq Nat
      BY <2>3
    <3> QED
      BY <2>2, <2>3, <2>4, <2>5, <2>7, <3>1, <3>2, <3>3, Zenon DEF TypeOK
<1>5. Agrees(Agg)
  BY <1>3 DEF Init, Agg, Agrees, ZeroSnap
<1> QED
  BY <1>2, <1>3, <1>4, <1>5 DEF Init, Sound, Anchored, ZeroSnap

\* ... is kept by every step ...
LEMMA StepSound == Sound /\ [Next]_vars => Sound'
<1> SUFFICES ASSUME Sound, [Next]_vars PROVE Sound'
  OBVIOUS
<1>1. CASE \E id \in Ids : AppendEvent(id) \/ AppendDuplicate(id)
  BY <1>1, AppendSound, DuplicateSound
<1>2. CASE Query \/ Fsync
  BY <1>2, QuerySound, FsyncSound
<1>3. CASE CompactSnapshot \/ CompactWal
  BY <1>3, SnapshotSound, CompactSound
<1>4. CASE Kill \/ HostDies
  BY <1>4, DeathSound
<1>5. CASE SnapWriteBack
  <2>1. /\ UNCHANGED <<now, base, entries, dedup, counts, timeline, compacting, wal, torn, synced, snap,
                       acked, booted, durable, restarts>> /\ snapSynced' = snap
    BY <1>5 DEF SnapWriteBack, memory, history
  <2> QED
    BY <2>1 DEF Sound, TypeOK, Agg, Agrees, Anchored, LogHead
<1>6. CASE Tick
  <2>1. /\ UNCHANGED <<base, entries, dedup, counts, timeline, compacting, wal, torn, synced, snap,
                       snapSynced, acked, booted, durable, restarts>>
        /\ now' = now + 1 /\ now < MaxTime
    BY <1>6 DEF Tick, memory, files, history
  <2>2. now \in Nat /\ now' \in 0..MaxTime /\ now <= now'
    BY <2>1, LogConstants DEF Sound, TypeOK
  <2>3. \A i \in DOMAIN wal : At(wal[i]) <= now'
    <3> SUFFICES ASSUME NEW i \in DOMAIN wal PROVE At(wal[i]) <= now'
      OBVIOUS
    <3>1. wal[i] \in Records /\ At(wal[i]) <= now
      BY DEF Sound, TypeOK
    <3>2. At(wal[i]) \in Int
      BY <3>1, RecordIs
    <3> QED
      BY <2>1, <2>2, <3>1, <3>2
  <2> QED
    BY <2>1, <2>2, <2>3 DEF Sound, TypeOK, Agg, Agrees, Anchored, LogHead
<1>7. CASE UNCHANGED vars
  BY <1>7 DEF vars, memory, files, history, Sound, TypeOK, Agg, Agrees, Anchored, LogHead
<1> QED
  BY <1>1, <1>2, <1>3, <1>4, <1>5, <1>6, <1>7 DEF Next

\* ... and so holds always.
LEMMA SoundHolds == Spec => []Sound
  BY StartSound, StepSound, PTL DEF Spec

\* Occurrences and Count say the same of a timeline.
LEMMA OccurrencesAre ==
  ASSUME NEW s \in Seq(Records), NEW id \in Ids
  PROVE  Occurrences(id, s) = Count(Of(id), s)
<1>1. \A i \in DOMAIN s : s[i] \in Records
  OBVIOUS
<1>2. {i \in DOMAIN s : IdOf(s[i]) = id} = Hits(Of(id), s)
  BY <1>1, RecordIs DEF Hits, Of
<1> QED
  BY <1>2 DEF Occurrences, Count

\* Every variable keeps its type, no count of Aggregate.evict falls below zero, and each count
\* is the number of its timeline's entries: through applies, evictions, snapshots and recoveries
\* (aggregate.go Apply, evict, Snapshot, Restore; partition.go run), whatever a death leaves.
THEOREM WellFormedHolds == Spec => []WellFormed
<1>1. Sound => WellFormed
  <2> SUFFICES ASSUME Sound, NEW id \in Ids PROVE TypeOK /\ counts[id] = Occurrences(id, timeline)
    BY DEF WellFormed, CountsMatchTimeline, Sound
  <2>1. timeline \in Seq(Records)
    BY DEF Sound, TypeOK
  <2> QED
    BY <2>1, OccurrencesAre, AggParts DEF Sound, Agrees
<1> QED
  BY <1>1, SoundHolds, PTL

-----------------------------------------------------------------------------
\* No event is counted twice.


\* The second inductive invariant: nothing is counted that was not accepted, nor would be
\* if the process started again on either snapshot.
Backed ==
    \A R \in SUBSET Records :
      /\ Count(R, timeline) <= Count(R, acked)
      /\ \A s \in {snap, snapSynced} :
           IF compacting THEN Count(R, s.timeline) <= Count(R, acked)
                         ELSE Count(R, s.timeline) + Count(R, wal) <= Count(R, acked)

\* Counts are numbers in every state.
LEMMA CountsAre ==
  ASSUME Sound
  PROVE  \A R : /\ Count(R, timeline) \in Nat /\ Count(R, acked) \in Nat /\ Count(R, wal) \in Nat
                /\ \A s \in {snap, snapSynced} : Count(R, s.timeline) \in Nat
<1>1. /\ timeline \in Seq(Records) /\ acked \in Seq(Ids \X (0..MaxTime) \X Nat) /\ wal \in Seq(Records)
      /\ \A s \in {snap, snapSynced} : s.timeline \in Seq(Records)
  BY DEF Sound, TypeOK, Agrees
<1> QED
  BY <1>1, CountIs

\* Append: one record more is counted, and one more was accepted.
LEMMA AppendBacked ==
  ASSUME Sound, Backed, NEW id \in Ids, AppendEvent(id)
  PROVE  Backed'
<1> DEFINE rec == <<id, now>>
           e == <<id, now, LogHead>>
<1>1. /\ ~compacting /\ wal' = (IF torn THEN wal ELSE Append(wal, rec))
      /\ SetAgg(ApplyAgg(Agg, rec)) /\ acked' = Append(acked, e)
      /\ UNCHANGED <<snap, snapSynced, compacting>>
  BY DEF AppendEvent, WriteLine
<1>2. rec \in Records /\ Key(rec) = rec /\ Key(e) = rec
  BY RecordOf DEF Sound, Key, IdOf, At
<1>3. e \in Ids \X (0..MaxTime) \X Nat
  <2>1. LogHead \in Nat
    BY DEF Sound, TypeOK, LogHead
  <2> QED
    BY <2>1 DEF Sound, TypeOK
<1> HIDE DEF rec, e
<1>4. /\ Agrees(Agg) /\ wal \in Seq(Records) /\ acked \in Seq(Ids \X (0..MaxTime) \X Nat)
  BY DEF Sound, TypeOK
<1> SUFFICES ASSUME NEW R \in SUBSET Records
             PROVE  /\ Count(R, timeline') <= Count(R, acked')
                    /\ \A s \in {snap, snapSynced} :
                         Count(R, s.timeline) + Count(R, wal') <= Count(R, acked')
  BY <1>1 DEF Backed, Count, Hits
<1> DEFINE one == IF rec \in R THEN 1 ELSE 0
<1>5. Count(R, timeline') <= Count(R, timeline) + one
  BY <1>1, <1>2, <1>4, ApplyAgrees, AggParts DEF SetAgg
<1>6. Count(R, acked') = Count(R, acked) + one
  BY <1>1, <1>2, <1>3, <1>4, CountMore
<1>7. Count(R, wal') <= Count(R, wal) + one /\ Count(R, wal') \in Nat
  <2>1. Count(R, Append(wal, rec)) = Count(R, wal) + one
    BY <1>2, <1>4, CountMore
  <2> QED
    BY <1>1, <2>1, CountsAre
<1>8. /\ Count(R, timeline) <= Count(R, acked)
      /\ \A s \in {snap, snapSynced} : Count(R, s.timeline) + Count(R, wal) <= Count(R, acked)
  BY <1>1 DEF Backed
<1>9. one \in {0, 1}
  OBVIOUS
<1> HIDE DEF one
<1>10. /\ \A x, y, z \in Nat : \A i \in {0, 1} : x <= y + i /\ y <= z => x <= z + i
       /\ \A x, y, z, u \in Nat : \A i \in {0, 1} : x <= y + i /\ u + y <= z => u + x <= z + i
  OBVIOUS
<1>11. Count(R, timeline') \in Nat
  <2>1. timeline' \in Seq(Records)
    BY <1>1, <1>2, <1>4, ApplyAgrees, SetAgrees
  <2> QED
    BY <2>1, CountIs
<1>12. Count(R, timeline') <= Count(R, acked')
  BY <1>5, <1>6, <1>8, <1>9, <1>10, <1>11, CountsAre
<1>13. \A s \in {snap, snapSynced} : Count(R, s.timeline) + Count(R, wal') <= Count(R, acked')
  BY <1>6, <1>7, <1>8, <1>9, <1>10, CountsAre
<1> QED
  BY <1>12, <1>13

\* Eviction takes from a count only what is out of the window.
LEMMA EvictCounts ==
  ASSUME Sound, SetAgg(EvictAgg(Agg, now))
  PROVE  /\ \A R : Count(R, timeline') <= Count(R, timeline) /\ Count(R, timeline') \in Nat
         /\ \A R \in SUBSET Since(now) : Count(R, timeline') = Count(R, timeline)
<1>1. now \in Int /\ Agrees(Agg)
  BY DEF Sound, TypeOK
<1>2. timeline' = EvictAgg(Agg, now).timeline /\ timeline' \in Seq(Records)
  BY EvictSound DEF SetAgg
<1> QED
  BY <1>1, <1>2, EvictAgrees, AggParts, CountIs

\* What the first half of Compact does.
LEMMA SnapshotIs ==
  ASSUME CompactSnapshot
  PROVE  /\ UNCHANGED <<now, base, entries, dedup, wal, torn, synced, snapSynced,
                        acked, booted, durable, restarts>>
         /\ SetAgg(EvictAgg(Agg, now)) /\ ~compacting /\ compacting'
         /\ snap'.timeline = timeline'
  BY DEF CompactSnapshot, history, Snapshot, SetAgg

\* A query counts less, if anything.
LEMMA QueryBacked ==
  ASSUME Sound, Backed, Query
  PROVE  Backed'
<1>1. UNCHANGED <<compacting, wal, snap, snapSynced, acked>> /\ SetAgg(EvictAgg(Agg, now))
  BY DEF Query, files, history
<1>2. \A x, y, z \in Nat : x <= y /\ y <= z => x <= z
  OBVIOUS
<1>3. \A R \in SUBSET Records : Count(R, timeline') <= Count(R, acked)
  BY <1>1, <1>2, EvictCounts, CountsAre DEF Backed
<1> QED
  BY <1>1, <1>3 DEF Backed, Count, Hits

\* The snapshot holds no more than the aggregate did.
LEMMA SnapshotBacked ==
  ASSUME Sound, Backed, CompactSnapshot
  PROVE  Backed'
<1>1. /\ UNCHANGED <<wal, snapSynced, acked>> /\ SetAgg(EvictAgg(Agg, now))
      /\ ~compacting /\ compacting' /\ snap'.timeline = timeline'
  BY SnapshotIs
<1>2. \A x, y, z \in Nat : x <= y /\ y <= z => x <= z
  OBVIOUS
<1>3. \A x, y, z \in Nat : x + y <= z => x <= z
  OBVIOUS
<1>4. \A R \in SUBSET Records : Count(R, timeline') <= Count(R, acked)
  BY <1>1, <1>2, EvictCounts, CountsAre DEF Backed
<1>5. \A R \in SUBSET Records : Count(R, snapSynced.timeline) <= Count(R, acked)
  BY <1>1, <1>3, CountsAre DEF Backed
<1>6. \A s \in {snap, snapSynced}' : s.timeline = timeline' \/ s.timeline = snapSynced.timeline
  BY <1>1
<1>7. Backed' <=> \A R \in SUBSET Records :
         /\ Count(R, timeline') <= Count(R, acked)
         /\ \A s \in {snap, snapSynced}' : Count(R, s.timeline) <= Count(R, acked)
  BY <1>1 DEF Backed, Count, Hits
<1> HIDE DEF Count
<1> QED
  BY <1>4, <1>5, <1>6, <1>7

\* With the WAL empty the snapshots count for themselves.
LEMMA CompactBacked ==
  ASSUME Sound, Backed, CompactWal
  PROVE  Backed'
<1>1. /\ wal' = <<>> /\ compacting /\ ~compacting'
      /\ UNCHANGED <<timeline, snap, snapSynced, acked>>
  BY CompactEmpties
<1>2. \A R : Count(R, wal') = 0
  BY <1>1, CountNone
<1>3. \A R \in SUBSET Records : /\ Count(R, timeline) <= Count(R, acked)
                                /\ \A s \in {snap, snapSynced} : Count(R, s.timeline) <= Count(R, acked)
  BY <1>1 DEF Backed
<1>4. \A R \in SUBSET Records : \A s \in {snap, snapSynced} :
         Count(R, s.timeline) + Count(R, wal') <= Count(R, acked)
  BY <1>2, <1>3, CountsAre
<1> QED
  BY <1>1, <1>3, <1>4 DEF Backed, Count, Hits

\* What a new process reads and counts.
LEMMA DeathCounts ==
  ASSUME Sound, Kill \/ HostDies
  PROVE  \E s \in {snap, snapSynced, ZeroSnap} :
           /\ snap' = s /\ snapSynced' \in {snap, snapSynced, ZeroSnap} /\ ~compacting'
           /\ (compacting => CrashInCompact)
           /\ torn' \in (IF Torn THEN BOOLEAN ELSE {torn})
           /\ wal' \in Seq(Records) /\ entries' \in Seq(Records) /\ timeline' \in Seq(Records)
           /\ acked' = acked /\ now' = now
           /\ (BigIds = {} => entries' = Kept(wal'))
           /\ \A R : /\ Count(R, wal') <= Count(R, wal)
                     /\ Count(R, timeline') <= Count(R, s.timeline) + Count(R, wal)
           /\ \A R \in SUBSET Since(now) :
                Count(R, timeline') = Count(R, s.timeline) + Count(R, entries')
<1>1. PICK s \in {snap, snapSynced, ZeroSnap} : \E k \in synced..Len(wal) :
         /\ wal' = SubSeq(wal, 1, k) /\ snap' = s
         /\ snapSynced' \in {snap, snapSynced, ZeroSnap}
         /\ Boot(wal', s) /\ torn' \in (IF Torn THEN BOOLEAN ELSE {torn})
         /\ (compacting => CrashInCompact)
  BY DeathIs
<1>2. PICK k \in synced..Len(wal) :
         /\ wal' = SubSeq(wal, 1, k) /\ snap' = s
         /\ snapSynced' \in {snap, snapSynced, ZeroSnap}
         /\ Boot(wal', s) /\ torn' \in (IF Torn THEN BOOLEAN ELSE {torn})
         /\ (compacting => CrashInCompact)
  BY <1>1
<1>3. /\ wal \in Seq(Records) /\ k \in 0..Len(wal) /\ Len(wal) \in Nat
      /\ Agrees(s) /\ s.base \in Nat /\ now \in Int /\ TypeOK
      /\ \A i \in 1..Len(wal) : At(wal[i]) <= now
  <2>1. \A v \in {snap, snapSynced, ZeroSnap} : Agrees(v) /\ v.base \in Nat
    BY NoSnapshot DEF Sound, TypeOK
  <2>2. wal \in Seq(Records) /\ synced \in 0..Len(wal) /\ now \in 0..MaxTime
    BY DEF Sound, TypeOK
  <2>3. now \in Int
    BY <2>2, LogConstants
  <2> QED
    BY <2>1, <2>2, <2>3 DEF Sound
<1>4. /\ wal' \in Seq(Records) /\ Len(wal') = k /\ \A i \in 1..k : wal'[i] = wal[i]
      /\ \A R : Count(R, wal') <= Count(R, wal)
  BY <1>2, <1>3, CountOfPrefix
<1>5. /\ ~compacting' /\ UNCHANGED <<now, acked>>
      /\ entries' \in Seq(Records) /\ entries' = Kept(Scanned(wal'))
      /\ timeline' \in Seq(Records) /\ timeline' = RecoverAgg(s, entries').timeline
  BY <1>2, <1>3, <1>4, BootMakes
<1>6. /\ Scanned(wal') \in Seq(Records)
      /\ \A R : Count(R, Scanned(wal')) <= Count(R, wal')
      /\ \A i \in 1..Len(Scanned(wal')) : \E j \in 1..Len(wal') : Scanned(wal')[i] = wal'[j]
      /\ BigIds = {} => Scanned(wal') = wal'
  BY <1>4, ScannedIs
<1>7. /\ \A R : Count(R, entries') <= Count(R, Scanned(wal'))
      /\ \A i \in 1..Len(entries') : \E j \in 1..Len(Scanned(wal')) : entries'[i] = Scanned(wal')[j]
  BY <1>5, <1>6, KeptIs
<1>8. \A i \in 1..Len(entries') : At(entries'[i]) <= now
  <2> SUFFICES ASSUME NEW i \in 1..Len(entries') PROVE At(entries'[i]) <= now
    OBVIOUS
  <2>1. PICK j \in 1..Len(Scanned(wal')) : entries'[i] = Scanned(wal')[j]
    BY <1>7
  <2>2. PICK m \in 1..Len(wal') : Scanned(wal')[j] = wal'[m]
    BY <1>6
  <2>3. m \in 1..Len(wal) /\ wal'[m] = wal[m]
    BY <1>3, <1>4
  <2> QED
    BY <1>3, <2>1, <2>2, <2>3
<1>9. /\ \A R : Count(R, timeline') <= Count(R, s.timeline) + Count(R, entries')
      /\ \A R \in SUBSET Since(now) :
           Count(R, timeline') = Count(R, s.timeline) + Count(R, entries')
  BY <1>3, <1>5, <1>8, RecoverAgrees
<1>10. \A R : /\ Count(R, wal) \in Nat /\ Count(R, wal') \in Nat /\ Count(R, Scanned(wal')) \in Nat
              /\ Count(R, entries') \in Nat /\ Count(R, s.timeline) \in Nat /\ Count(R, timeline') \in Nat
  <2>1. s.timeline \in Seq(Records)
    BY <1>3 DEF Agrees
  <2> QED
    BY <1>3, <1>4, <1>5, <1>6, <2>1, CountIs
<1>11. \A x, y, e, c, v, w \in Nat : x <= y + e /\ e <= c /\ c <= v /\ v <= w => x <= y + w
  OBVIOUS
<1>12. \A R : Count(R, timeline') <= Count(R, s.timeline) + Count(R, wal)
  <2> TAKE R
  <2> QED
    BY <1>4, <1>6, <1>7, <1>9, <1>10, <1>11
<1> QED
  BY <1>2, <1>4, <1>5, <1>6, <1>9, <1>12

\* Recovery counts each accepted event by snapshot or by WAL, never by both.
LEMMA DeathBacked ==
  ASSUME Sound, Backed, Kill \/ HostDies, ~CrashInCompact
  PROVE  Backed'
<1>1. PICK s \in {snap, snapSynced, ZeroSnap} :
           /\ snap' = s /\ snapSynced' \in {snap, snapSynced, ZeroSnap} /\ ~compacting' /\ ~compacting
           /\ wal' \in Seq(Records) /\ acked' = acked /\ timeline' \in Seq(Records)
           /\ \A R : /\ Count(R, wal') <= Count(R, wal)
                     /\ Count(R, timeline') <= Count(R, s.timeline) + Count(R, wal)
  BY DeathCounts
<1>2. \A R \in SUBSET Records : \A v \in {snap, snapSynced, ZeroSnap} :
         Count(R, v.timeline) + Count(R, wal) <= Count(R, acked) /\ Count(R, v.timeline) \in Nat
  <2>1. \A x, y, z \in Nat : x + y <= z => 0 + y <= z /\ 0 \in Nat
    OBVIOUS
  <2>2. \A R \in SUBSET Records : \A v \in {snap, snapSynced} :
           Count(R, v.timeline) + Count(R, wal) <= Count(R, acked)
    BY <1>1 DEF Backed
  <2>3. \A R \in SUBSET Records :
           Count(R, ZeroSnap.timeline) + Count(R, wal) <= Count(R, acked)
    BY <2>1, <2>2, CountsAre, NoSnapshot
  <2> QED
    BY <2>2, <2>3, CountsAre, NoSnapshot
<1>3. /\ \A x, y, z, u \in Nat : x <= y + z /\ y + z <= u => x <= u
      /\ \A x, y, z, u \in Nat : x <= y /\ z + y <= u => z + x <= u
  OBVIOUS
<1>4. \A R : Count(R, timeline') \in Nat /\ Count(R, wal') \in Nat
  BY <1>1, CountIs
<1>5. \A R \in SUBSET Records : Count(R, timeline') <= Count(R, acked)
  BY <1>1, <1>2, <1>3, <1>4, CountsAre
<1>6. \A R \in SUBSET Records : \A v \in {snap, snapSynced, ZeroSnap} :
         Count(R, v.timeline) + Count(R, wal') <= Count(R, acked)
  BY <1>1, <1>2, <1>3, <1>4, CountsAre
<1>7. \A v \in {snap, snapSynced}' : v \in {snap, snapSynced, ZeroSnap}
  BY <1>1
<1>8. Backed' <=> \A R \in SUBSET Records :
         /\ Count(R, timeline') <= Count(R, acked)
         /\ \A v \in {snap, snapSynced}' : Count(R, v.timeline) + Count(R, wal') <= Count(R, acked)
  BY <1>1 DEF Backed, Count, Hits
<1> QED
  BY <1>5, <1>6, <1>7, <1>8

\* Backed holds at the start ...
LEMMA StartBacked == Init => Backed
<1> SUFFICES ASSUME Init PROVE Backed
  OBVIOUS
<1>1. /\ timeline = <<>> /\ acked = <<>> /\ wal = <<>> /\ ~compacting
      /\ \A s \in {snap, snapSynced} : s.timeline = <<>>
  BY DEF Init, ZeroSnap
<1>2. \A R : /\ Count(R, timeline) = 0 /\ Count(R, acked) = 0 /\ Count(R, wal) = 0
             /\ \A s \in {snap, snapSynced} : Count(R, s.timeline) = 0
  BY <1>1, CountNone
<1> QED
  BY <1>1, <1>2 DEF Backed

\* ... and is kept by every step, if no process dies inside Compact.
LEMMA StepBacked ==
  ASSUME ~CrashInCompact
  PROVE  Sound /\ Backed /\ [Next]_vars => Backed'
<1> SUFFICES ASSUME Sound, Backed, [Next]_vars PROVE Backed'
  OBVIOUS
<1>1. ASSUME NEW id \in Ids, AppendEvent(id) PROVE Backed'
  BY <1>1, AppendBacked
<1>2. ASSUME NEW id \in Ids, AppendDuplicate(id) PROVE Backed'
  <2>1. UNCHANGED <<timeline, compacting, wal, snap, snapSynced, acked>>
    BY <1>2 DEF AppendDuplicate, files, history
  <2> QED
    BY <2>1 DEF Backed, Count, Hits
<1>3. CASE Query
  BY <1>3, QueryBacked
<1>4. CASE Fsync \/ Tick \/ UNCHANGED vars
  <2>1. UNCHANGED <<timeline, compacting, wal, snap, snapSynced, acked>>
    BY <1>4 DEF Fsync, Tick, vars, memory, files, history
  <2> QED
    BY <2>1 DEF Backed, Count, Hits
<1>5. CASE CompactSnapshot
  BY <1>5, SnapshotBacked
<1>6. CASE CompactWal
  BY <1>6, CompactBacked
<1>7. CASE Kill \/ HostDies
  BY <1>7, DeathBacked
<1>8. CASE SnapWriteBack
  <2>1. UNCHANGED <<timeline, compacting, wal, snap, acked>> /\ snapSynced' = snap
    BY <1>8 DEF SnapWriteBack, memory, history
  <2> QED
    BY <2>1 DEF Backed, Count, Hits
<1> QED
  BY <1>1, <1>2, <1>3, <1>4, <1>5, <1>6, <1>7, <1>8 DEF Next

\* The records of an id in the window.
Recent(id) == {r \in Records : IdOf(r) = id /\ At(r) >= now - Window}

\* What a window holds of an id is such a count.
LEMMA InWindowIs ==
  ASSUME Sound, NEW id \in Ids
  PROVE  /\ Recent(id) \in SUBSET Records /\ Recent(id) \in SUBSET Since(now)
         /\ \A s \in Seq(Records) : InWindow(id, s) = Count(Recent(id), s)
         /\ InWindow(id, acked) = Count(Recent(id), acked)
<1>1. Recent(id) \in SUBSET Records /\ Recent(id) \in SUBSET Since(now)
  BY DEF Recent, Since
<1>2. ASSUME NEW s \in Seq(Records) PROVE InWindow(id, s) = Count(Recent(id), s)
  <2>1. \A i \in DOMAIN s : s[i] \in Records
    OBVIOUS
  <2>2. {i \in DOMAIN s : IdOf(s[i]) = id /\ At(s[i]) >= now - Window} = Hits(Recent(id), s)
    BY <2>1, RecordIs DEF Hits, Recent
  <2> QED
    BY <2>2 DEF InWindow, Count
<1>3. InWindow(id, acked) = Count(Recent(id), acked)
  <2>1. \A i \in DOMAIN acked : acked[i] \in Ids \X (0..MaxTime) \X Nat
    BY DEF Sound, TypeOK
  <2>2. \A e \in Ids \X (0..MaxTime) \X Nat :
           /\ Key(e) \in Records /\ IdOf(Key(e)) = IdOf(e) /\ At(Key(e)) = At(e)
    BY DEF Key, IdOf, At, Records
  <2>3. {i \in DOMAIN acked : IdOf(acked[i]) = id /\ At(acked[i]) >= now - Window}
          = Hits(Recent(id), acked)
    BY <2>1, <2>2 DEF Hits, Recent
  <2> QED
    BY <2>3 DEF InWindow, Count
<1> QED
  BY <1>1, <1>2, <1>3

\* Unless a process dies between the rename and the truncation of Compact, recovery never counts
\* an event twice: what TopK reports of the window was accepted in the window, after any
\* sequence of compactions, kills and power losses (partition.go run, log.go Compact).
THEOREM NothingOvercounted ==
  ASSUME ~CrashInCompact
  PROVE  Spec => []NeverOvercounts
<1>1. Sound /\ Backed => NeverOvercounts
  <2> SUFFICES ASSUME Sound, Backed, NEW id \in Ids
               PROVE  InWindow(id, timeline) <= InWindow(id, acked)
    BY DEF NeverOvercounts
  <2>1. timeline \in Seq(Records)
    BY DEF Sound, TypeOK
  <2>2. Count(Recent(id), timeline) <= Count(Recent(id), acked)
    BY InWindowIs DEF Backed
  <2> QED
    BY <2>1, <2>2, InWindowIs
<1>2. Spec => []Backed
  <2>1. Sound /\ Backed /\ [Next]_vars => Backed'
    BY StepBacked
  <2> QED
    BY <2>1, StartBacked, SoundHolds, PTL DEF Spec
<1> QED
  BY <1>1, <1>2, SoundHolds, PTL

-----------------------------------------------------------------------------
\* The third inductive invariant: WAL and log agree but for repetitions of an id, and snapshot
\* and WAL tail together are exactly the aggregate in memory, as far as the window reaches.
Exact ==
    /\ ~torn
    /\ Kept(wal) = Kept(entries)
    /\ ~compacting /\ NoRepeat(wal) =>
         \A R \in SUBSET Since(now) : Count(R, timeline) = Count(R, snap.timeline) + Count(R, wal)

\* Append writes the same record to all three.
LEMMA AppendExact ==
  ASSUME Sound, Exact, NEW id \in Ids, AppendEvent(id)
  PROVE  Exact'
<1> DEFINE rec == <<id, now>>
<1>1. /\ ~compacting /\ wal' = Append(wal, rec) /\ entries' = Append(entries, rec)
      /\ SetAgg(ApplyAgg(Agg, rec)) /\ torn' = FALSE
      /\ UNCHANGED <<snap, now>>
  BY DEF AppendEvent, WriteLine, Exact
<1>2. rec \in Records /\ At(rec) = now /\ Key(rec) = rec
  BY RecordOf DEF Sound, Key, IdOf, At
<1> HIDE DEF rec
<1>3. /\ wal \in Seq(Records) /\ entries \in Seq(Records) /\ Agrees(Agg)
  BY DEF Sound, TypeOK
<1>4. Kept(wal') = Kept(entries')
  <2>1. Kept(wal') = Keeping(Kept(wal), rec) /\ Kept(entries') = Keeping(Kept(entries), rec)
    BY <1>1, <1>2, <1>3, KeptMore
  <2> QED
    BY <2>1 DEF Exact
<1>5. NoRepeat(wal') => NoRepeat(wal)
  <2>1. \A i \in DOMAIN wal : i \in DOMAIN wal' /\ wal'[i] = wal[i]
    BY <1>1, <1>2, <1>3
  <2> QED
    BY <2>1 DEF NoRepeat
<1>6. ASSUME NoRepeat(wal'), NEW R \in SUBSET Since(now)
      PROVE  Count(R, timeline') = Count(R, snap.timeline) + Count(R, wal')
  <2>1. Count(R, timeline) = Count(R, snap.timeline) + Count(R, wal)
    BY <1>1, <1>5, <1>6 DEF Exact
  <2>2. Count(R, timeline') = Count(R, timeline) + (IF rec \in R THEN 1 ELSE 0)
    BY <1>1, <1>2, <1>3, ApplyAgrees, AggParts DEF SetAgg
  <2>3. Count(R, wal') = Count(R, wal) + (IF rec \in R THEN 1 ELSE 0)
    BY <1>1, <1>2, <1>3, CountMore
  <2>4. \A x, y \in Nat : \A i \in {0, 1} : (x + y) + i = x + (y + i)
    OBVIOUS
  <2> QED
    BY <2>1, <2>2, <2>3, <2>4, CountsAre
<1>7. Since(now)' = Since(now)
  BY <1>1 DEF Since
<1>8. Exact' <=> /\ ~torn' /\ Kept(wal') = Kept(entries')
                 /\ ~compacting' /\ NoRepeat(wal') =>
                      \A R \in SUBSET Since(now) :
                        Count(R, timeline') = Count(R, snap.timeline) + Count(R, wal')
  BY <1>1, <1>7 DEF Exact, Kept, Count, Hits, NoRepeat
<1> QED
  BY <1>1, <1>4, <1>6, <1>8

\* A query evicts only what is out of the window.
LEMMA EvictExact ==
  ASSUME Sound, Exact, Query
  PROVE  Exact'
<1>1. UNCHANGED <<now, entries, compacting, wal, torn, snap>> /\ SetAgg(EvictAgg(Agg, now))
  BY DEF Query, files, history
<1>2. \A R \in SUBSET Since(now) : Count(R, timeline') = Count(R, timeline)
  BY <1>1, EvictCounts
<1>3. Exact' <=> /\ ~torn /\ Kept(wal) = Kept(entries)
                 /\ ~compacting /\ NoRepeat(wal) =>
                      \A R \in SUBSET Since(now) :
                        Count(R, timeline') = Count(R, snap.timeline) + Count(R, wal)
  BY <1>1 DEF Exact, Kept, Count, Hits, NoRepeat, Since
<1> QED
  BY <1>2, <1>3 DEF Exact

\* The snapshot is the aggregate when the WAL is emptied.
LEMMA CompactExact ==
  ASSUME Sound, Exact, CompactSnapshot \/ CompactWal
  PROVE  Exact'
<1>1. CASE CompactSnapshot
  <2>1. UNCHANGED <<entries, wal, torn>> /\ compacting'
    BY <1>1, SnapshotIs
  <2> QED
    BY <2>1 DEF Exact, Kept
<1>2. CASE CompactWal
  <2>1. entries' = <<>> /\ wal' = <<>> /\ ~torn' /\ snap' = snap /\ timeline' = timeline /\ compacting
    BY <1>2, CompactEmpties
  <2>2. snap.timeline = timeline
    BY <2>1 DEF Sound, Anchored
  <2>3. \A R : Count(R, wal') = 0 /\ Count(R, timeline) + 0 = Count(R, timeline)
    BY <2>1, CountNone, CountsAre
  <2>4. \A R : Count(R, timeline') = Count(R, snap'.timeline) + Count(R, wal')
    <3> HIDE DEF Count
    <3> QED
      BY <2>1, <2>2, <2>3
  <2> HIDE DEF Kept, Count
  <2> QED
    BY <2>1, <2>4 DEF Exact
<1> QED
  BY <1>1, <1>2

\* A new process has read the whole WAL.
LEMMA DeathExact ==
  ASSUME Sound, Exact, Kill \/ HostDies, BigIds = {}, ~Torn
  PROVE  /\ Exact'
         /\ entries' = Kept(wal')
<1>1. /\ torn' = torn /\ wal' \in Seq(Records) /\ entries' \in Seq(Records) /\ now' = now
      /\ entries' = Kept(wal')
      /\ \A R \in SUBSET Since(now) : Count(R, timeline') = Count(R, snap'.timeline) + Count(R, entries')
  BY DeathCounts
<1>2. NoRepeat(entries')
  BY <1>1, KeptIs
<1>3. Kept(entries') = entries'
  BY <1>1, <1>2, KeptAll
<1>4. NoRepeat(wal') => entries' = wal'
  BY <1>1, KeptAll
<1>5. Since(now)' = Since(now)
  BY <1>1 DEF Since
<1>6. Exact' <=> /\ ~torn' /\ Kept(wal') = Kept(entries')
                 /\ ~compacting' /\ NoRepeat(wal') =>
                      \A R \in SUBSET Since(now) :
                        Count(R, timeline') = Count(R, snap'.timeline) + Count(R, wal')
  BY <1>5 DEF Exact, Kept, Count, Hits, NoRepeat
<1> QED
  BY <1>1, <1>3, <1>4, <1>6 DEF Exact

\* Time makes the window smaller.
LEMMA TickExact ==
  ASSUME Sound, Exact, Tick
  PROVE  Exact'
<1>1. UNCHANGED <<entries, timeline, compacting, wal, torn, snap>> /\ now' = now + 1
  BY DEF Tick, memory, files, history
<1>2. now \in Nat
  BY DEF Sound, TypeOK
<1>3. \A r \in Since(now)' : r \in Since(now)
  <2> SUFFICES ASSUME NEW r \in Records, At(r) >= now' - Window PROVE At(r) >= now - Window
    BY DEF Since
  <2>1. At(r) \in Int
    BY RecordIs, LogConstants
  <2> QED
    BY <1>1, <1>2, <2>1, LogConstants
<1>4. SUBSET Since(now)' \subseteq SUBSET Since(now)
  BY <1>3
<1>5. Exact' <=> /\ ~torn /\ Kept(wal) = Kept(entries)
                 /\ ~compacting /\ NoRepeat(wal) =>
                      \A R \in SUBSET Since(now)' :
                        Count(R, timeline) = Count(R, snap.timeline) + Count(R, wal)
  BY <1>1 DEF Exact, Kept, Count, Hits, NoRepeat, Since
<1> QED
  BY <1>4, <1>5 DEF Exact

\* Nothing that Exact speaks of has changed.
LEMMA SameExact ==
  ASSUME Exact, UNCHANGED <<now, entries, timeline, compacting, wal, torn, snap>>
  PROVE  Exact'
<1>1. Exact' <=> /\ ~torn /\ Kept(wal) = Kept(entries)
                 /\ ~compacting /\ NoRepeat(wal) =>
                      \A R \in SUBSET Since(now) :
                        Count(R, timeline) = Count(R, snap.timeline) + Count(R, wal)
  BY DEF Exact, Kept, Count, Hits, NoRepeat, Since
<1> QED
  BY <1>1 DEF Exact

\* Every step keeps Exact, if every line can be read back.
LEMMA StepExact ==
  ASSUME BigIds = {}, ~Torn
  PROVE  Sound /\ Exact /\ [Next]_vars => Exact'
<1> SUFFICES ASSUME Sound, Exact, [Next]_vars PROVE Exact'
  OBVIOUS
<1>1. ASSUME NEW id \in Ids, AppendEvent(id) PROVE Exact'
  BY <1>1, AppendExact
<1>2. ASSUME NEW id \in Ids, AppendDuplicate(id) PROVE Exact'
  <2>1. UNCHANGED <<now, entries, timeline, compacting, wal, torn, snap>>
    BY <1>2 DEF AppendDuplicate, files, history
  <2> QED
    BY <2>1, SameExact
<1>3. CASE Query
  BY <1>3, EvictExact
<1>4. CASE Fsync \/ SnapWriteBack \/ UNCHANGED vars
  <2>1. UNCHANGED <<now, entries, timeline, compacting, wal, torn, snap>>
    BY <1>4 DEF Fsync, SnapWriteBack, vars, memory, files, history
  <2> QED
    BY <2>1, SameExact
<1>5. CASE CompactSnapshot \/ CompactWal
  BY <1>5, CompactExact
<1>6. CASE Kill \/ HostDies
  BY <1>6, DeathExact
<1>7. CASE Tick
  BY <1>7, TickExact
<1> QED
  BY <1>1, <1>2, <1>3, <1>4, <1>5, <1>6, <1>7 DEF Next

\* All is empty at the start.
LEMMA StartExact == Init => Exact
<1> SUFFICES ASSUME Init PROVE Exact
  OBVIOUS
<1>1. timeline = <<>> /\ wal = <<>> /\ entries = <<>> /\ snap.timeline = <<>> /\ ~torn
  BY DEF Init, ZeroSnap
<1>2. \A R : Count(R, timeline) = 0 /\ Count(R, wal) = 0 /\ Count(R, snap.timeline) = 0
  BY <1>1, CountNone
<1>3. Kept(wal) = Kept(entries)
  BY <1>1
<1> QED
  BY <1>1, <1>2, <1>3 DEF Exact

\* Where every line of the WAL can be read back, a process killed between two operations comes
\* back with the same log under the same offsets, less the repetitions of an id, and, if the WAL
\* has none, with the same counts in the window (log.go Open and Snapshot, partition.go run).
THEOREM RestartIsExact ==
  ASSUME BigIds = {}, ~Torn
  PROVE  Spec => RestartKeeps
<1>1. Spec => []Exact
  <2>1. Sound /\ Exact /\ [Next]_vars => Exact'
    BY StepExact
  <2> QED
    BY <2>1, StartExact, SoundHolds, PTL DEF Spec
<1>2. ASSUME Sound, Exact, Kill, ~compacting
      PROVE  /\ base' = base
             /\ Promise!OnlyFirsts(entries', entries)
             /\ Promise!Firsts(wal) = DOMAIN wal =>
                  \A id \in Ids : InWindow(id, timeline') = InWindow(id, timeline)
  <2>1. Boot(wal, snap) /\ wal' = wal /\ snap' = snap
    BY <1>2 DEF Kill, files
  <2>2. wal \in Seq(Records) /\ entries \in Seq(Records) /\ timeline \in Seq(Records)
    BY <1>2 DEF Sound, TypeOK
  <2>3. base' = base
    BY <1>2, <2>1 DEF Boot, Sound, Anchored
  <2>4. entries' = Kept(wal)
    BY <1>2, <2>1, DeathExact
  <2>5. Promise!OnlyFirsts(entries', entries)
    <3>1. entries' = Kept(entries)
      BY <1>2, <2>4 DEF Exact
    <3> QED
      BY <2>2, <3>1, KeptIs
  <2>6. /\ ~compacting' /\ timeline' \in Seq(Records)
        /\ \A R \in SUBSET Since(now) :
             Count(R, timeline') = Count(R, snap.timeline) + Count(R, entries')
    BY <1>2, <2>1, DeathCounts
  <2>7. ASSUME Promise!Firsts(wal) = DOMAIN wal, NEW id \in Ids
        PROVE  InWindow(id, timeline') = InWindow(id, timeline)
    <3>1. NoRepeat(wal)
      BY <2>2, <2>7, FirstsOfAll
    <3>2. entries' = wal
      BY <2>2, <2>4, <3>1, KeptAll
    <3>3. Recent(id) \in SUBSET Since(now)
      BY <1>2, InWindowIs
    <3>4. Count(Recent(id), timeline') = Count(Recent(id), snap.timeline) + Count(Recent(id), wal)
      BY <2>6, <3>2, <3>3
    <3>5. Count(Recent(id), timeline) = Count(Recent(id), snap.timeline) + Count(Recent(id), wal)
      BY <1>2, <3>1, <3>3 DEF Exact
    <3> QED
      BY <1>2, <2>2, <2>6, <3>4, <3>5, InWindowIs
  <2> QED
    BY <2>3, <2>5, <2>7
<1>3. Sound /\ Exact =>
        [Kill /\ ~compacting =>
           /\ base' = base
           /\ Promise!OnlyFirsts(entries', entries)
           /\ Promise!Firsts(wal) = DOMAIN wal =>
                \A id \in Ids : InWindow(id, timeline') = InWindow(id, timeline)]_vars
  BY <1>2
<1> QED
  BY <1>1, <1>3, SoundHolds, PTL DEF RestartKeeps

-----------------------------------------------------------------------------
\* The idempotency index.

(***************************************************************************)
(* A theorem about EventLog: what the idempotency index of one process      *)
(* remembers, for any TTL, number of events and schedule of evictions,      *)
(* compactions and queries.                                                 *)
(***************************************************************************)

\* Times are numbers and the history is a sequence.
History ==
    /\ now \in Nat
    /\ booted \in Nat
    /\ \E T : acked \in Seq(T)
    /\ \A i \in 1..Len(acked) : At(acked[i]) \in Nat

\* The index holds every event that this process accepted in the last TTL seconds.
Remembered ==
    Idempotent =>
      \A i \in booted + 1..Len(acked) :
        Unix(At(acked[i])) > Unix(now) - TTL => InBucket(acked[i]) \in dedup

\* Append on a sequence of anything.
LEMMA Appended ==
  ASSUME NEW T, NEW s \in Seq(T), NEW e
  PROVE  /\ \E U : Append(s, e) \in Seq(U)
         /\ Len(s) \in Nat
         /\ Len(Append(s, e)) = Len(s) + 1
         /\ \A i \in 1..Len(s) : Append(s, e)[i] = s[i]
         /\ Append(s, e)[Len(s) + 1] = e
<1> DEFINE U == T \cup {e}
<1>1. s \in Seq(U) /\ e \in U
  OBVIOUS
<1> HIDE DEF U
<1>2. Append(s, e) \in Seq(U)
  BY <1>1
<1> QED
  BY <1>1, <1>2

\* The steps that accept nothing and keep the index: neither writes nor restarts.
LEMMA QuietStep ==
  ASSUME Query \/ Fsync \/ CompactSnapshot \/ CompactWal \/ SnapWriteBack
  PROVE  UNCHANGED <<now, dedup, acked, booted>>
  BY DEF Query, Fsync, CompactSnapshot, CompactWal, SnapWriteBack, memory, history

\* What accepting an event does: the index did not know the id, and knows it now.
LEMMA AcceptStep ==
  ASSUME NEW id \in Ids, AppendEvent(id), Idempotent
  PROVE  /\ UNCHANGED <<now, booted>>
         /\ \A r \in dedup : At(r) > Unix(now) - TTL => IdOf(r) # id
         /\ dedup' = {r \in dedup : At(r) > Unix(now) - TTL} \cup {<<id, Unix(now)>>}
<1>1. ~Seen(id)
  BY DEF AppendEvent, Fresh
<1>2. \A r \in dedup : At(r) > Unix(now) - TTL => IdOf(r) # id
  BY <1>1 DEF Seen, EvictDedup
<1>3. dedup' = AddDedup(EvictDedup(dedup), <<id, now>>)
  BY DEF AppendEvent
<1>4. ~ \E r \in EvictDedup(dedup) : IdOf(r) = IdOf(<<id, now>>)
  BY <1>2 DEF EvictDedup, IdOf
<1>5. InBucket(<<id, now>>) = <<id, Unix(now)>>
  BY DEF InBucket, IdOf, At
<1>6. UNCHANGED <<now, booted>>
  BY DEF AppendEvent
<1> QED
  BY <1>2, <1>3, <1>4, <1>5, <1>6 DEF AddDedup, EvictDedup

\* What it does to the history: one event more, at the end.
LEMMA AckedStep ==
  ASSUME History, NEW id \in Ids, AppendEvent(id)
  PROVE  /\ \E U : acked' \in Seq(U)
         /\ Len(acked) \in Nat
         /\ Len(acked') = Len(acked) + 1
         /\ \A i \in 1..Len(acked) : acked'[i] = acked[i]
         /\ IdOf(acked'[Len(acked')]) = id /\ At(acked'[Len(acked')]) = now
<1>1. PICK T : acked \in Seq(T)
  BY DEF History
<1> DEFINE e == <<id, now, LogHead>>
<1>2. acked' = Append(acked, e) /\ IdOf(e) = id /\ At(e) = now
  BY DEF AppendEvent, IdOf, At
<1> HIDE DEF e
<1> QED
  BY <1>1, <1>2, Appended

\* Every step keeps History ...
LEMMA HistoryStep == History /\ [Next]_vars => History'
<1> SUFFICES ASSUME History, [Next]_vars PROVE History'
  OBVIOUS
<1>0. Len(acked) \in Nat
  BY DEF History
<1>1. ASSUME NEW id \in Ids, AppendEvent(id) PROVE History'
  <2>1. now' = now /\ booted' = booted
    BY <1>1 DEF AppendEvent
  <2>2. \A i \in 1..Len(acked') : i \in 1..Len(acked) \/ i = Len(acked')
    BY <1>1, AckedStep
  <2>3. \A i \in 1..Len(acked') : At(acked'[i]) \in Nat
    BY <1>1, <2>2, AckedStep DEF History
  <2> QED
    BY <1>1, <2>1, <2>3, AckedStep DEF History
<1>2. ASSUME NEW id \in Ids, AppendDuplicate(id) PROVE History'
  BY <1>2 DEF AppendDuplicate, history, History
<1>3. CASE Query \/ Fsync \/ CompactSnapshot \/ CompactWal \/ SnapWriteBack
  BY <1>3, QuietStep DEF History
<1>4. CASE Kill \/ HostDies
  BY <1>0, <1>4 DEF Kill, HostDies, Boot, History
<1>5. CASE Tick
  BY <1>5 DEF Tick, history, History
<1>6. CASE UNCHANGED vars
  BY <1>6 DEF vars, history, History
<1> QED
  BY <1>1, <1>2, <1>3, <1>4, <1>5, <1>6 DEF Next

\* ... and Remembered: what eviction takes is older than the TTL.
LEMMA RememberedStep == History /\ Remembered /\ [Next]_vars => Remembered'
<1> SUFFICES ASSUME History, Remembered, Idempotent, [Next]_vars,
                    NEW i \in booted' + 1..Len(acked'),
                    Unix(At(acked'[i])) > Unix(now') - TTL
             PROVE  InBucket(acked'[i]) \in dedup'
  BY DEF Remembered, InBucket, Unix, IdOf, At
<1>0. Len(acked) \in Nat /\ TTL \in Nat
  BY LogAssumption DEF History
<1>b. \A e : IdOf(InBucket(e)) = IdOf(e) /\ At(InBucket(e)) = Unix(At(e))
  BY DEF InBucket, IdOf, At
<1>1. ASSUME NEW id \in Ids, AppendEvent(id)
      PROVE  InBucket(acked'[i]) \in dedup'
  <2>1. CASE i = Len(acked')
    BY <1>1, <2>1, AckedStep, AcceptStep DEF InBucket
  <2>2. CASE i # Len(acked')
    <3>1. i \in booted + 1..Len(acked) /\ acked'[i] = acked[i]
      BY <1>1, <2>2, AckedStep, AcceptStep DEF History
    <3>2. InBucket(acked[i]) \in dedup
      BY <1>1, <3>1, AcceptStep DEF Remembered
    <3> QED
      BY <1>1, <1>b, <3>1, <3>2, AcceptStep
  <2> QED
    BY <2>1, <2>2
<1>2. ASSUME NEW id \in Ids, AppendDuplicate(id)
      PROVE  InBucket(acked'[i]) \in dedup'
  <2>1. UNCHANGED <<now, acked, booted>> /\ dedup' = EvictDedup(dedup)
    BY <1>2 DEF AppendDuplicate, history
  <2>2. InBucket(acked[i]) \in dedup /\ Unix(At(acked[i])) > Unix(now) - TTL
    BY <2>1 DEF Remembered
  <2> QED
    BY <1>b, <2>1, <2>2 DEF EvictDedup
<1>3. CASE Query \/ Fsync \/ CompactSnapshot \/ CompactWal \/ SnapWriteBack
  BY <1>3, QuietStep DEF Remembered
<1>4. CASE Kill \/ HostDies
  BY <1>0, <1>4 DEF Kill, HostDies, Boot
<1>5. CASE Tick
  <2>1. now' = now + 1 /\ UNCHANGED <<dedup, acked, booted>>
    BY <1>5 DEF Tick, memory, history
  <2>2. At(acked[i]) \in Nat
    BY <2>1 DEF History
  <2>3. Unix(At(acked[i])) \in Int /\ Unix(now) \in Int /\ Unix(now + 1) \in Int
        /\ Unix(now) <= Unix(now + 1)
    <3>1. At(acked[i]) \in Int /\ now \in Int /\ now + 1 \in Int
      BY <2>2 DEF History
    <3> QED
      BY <3>1, Truncation, Zenon
  <2>4. Unix(At(acked[i])) > Unix(now) - TTL
    BY <1>0, <2>1, <2>3
  <2> QED
    BY <2>1, <2>4 DEF Remembered
<1>6. CASE UNCHANGED vars
  BY <1>6 DEF vars, memory, history, Remembered
<1> QED
  BY <1>1, <1>2, <1>3, <1>4, <1>5, <1>6 DEF Next

\* DedupWindow in every behaviour: while a process lives, no event id is accepted
\* again within the TTL less a second (Log.Append and dedupSet, which cuts times to
\* seconds), whatever was evicted, compacted or queried in between.
THEOREM DedupHolds == Spec => DedupWindow
<1> DEFINE Inv == History /\ Remembered
<1> DEFINE Fresher == Idempotent => \A i \in booted + 1..Len(acked) : NoRepeatOf(i, Recall)
<1>1. Init => Inv
  <2>1. Init => now = 0 /\ booted = 0 /\ acked = <<>>
    BY DEF Init
  <2>2. <<>> \in Seq({})
    OBVIOUS
  <2> QED
    BY <2>1, <2>2 DEF History, Remembered
<1>2. Inv /\ [Next]_vars => Inv'
  BY HistoryStep, RememberedStep
<1>3. Inv /\ [Next]_vars => [Fresher]_vars
  <2> SUFFICES ASSUME History, Remembered, [Next]_vars, Idempotent,
                      NEW i \in booted + 1..Len(acked),
                      Len(acked') > Len(acked), IdOf(acked[i]) = IdOf(Last(acked'))
               PROVE  now - At(acked[i]) > Recall
    BY DEF NoRepeatOf
  <2>0. Len(acked) \in Nat /\ TTL \in Nat /\ now \in Nat /\ At(acked[i]) \in Nat
    BY LogAssumption DEF History
  <2>1. PICK id \in Ids : AppendEvent(id)
    BY <2>0, QuietStep
       DEF Next, AppendDuplicate, Kill, HostDies, Boot, Tick, vars, history
  <2>2. IdOf(acked[i]) = id
    BY <2>1, AckedStep DEF Last
  <2>3. ~ (Unix(At(acked[i])) > Unix(now) - TTL)
    <3> SUFFICES ASSUME Unix(At(acked[i])) > Unix(now) - TTL PROVE FALSE
      OBVIOUS
    <3>1. InBucket(acked[i]) \in dedup
      BY DEF Remembered
    <3>2. IdOf(InBucket(acked[i])) = IdOf(acked[i]) /\ At(InBucket(acked[i])) = Unix(At(acked[i]))
      BY DEF InBucket, IdOf, At
    <3> QED
      BY <2>1, <2>2, <3>1, <3>2, AcceptStep
  <2>4. At(acked[i]) \in Int /\ now \in Int
    BY <2>0
  <2>5. Unix(At(acked[i])) \in Int /\ Unix(now) \in Int
    BY <2>4, Truncation, Zenon
  <2>6. Unix(At(acked[i])) <= Unix(now) - TTL
    BY <2>0, <2>3, <2>5
  <2> QED
    BY <2>4, <2>6, SecondsApart
<1> QED
  BY <1>1, <1>2, <1>3, PTL DEF Spec, DedupWindow

-----------------------------------------------------------------------------
\* The journal.

\* What replay keeps of a prefix of the WAL is a prefix of what it keeps of the WAL, and
\* each further line adds at most one record.
LEMMA KeptPrefix ==
  ASSUME NEW w \in Seq(Records), NEW k \in 0..Len(w)
  PROVE  LET l == Kept(SubSeq(w, 1, k))
         IN /\ l \in Seq(Records) /\ Kept(w) \in Seq(Records)
            /\ Len(l) \in 0..Len(Kept(w))
            /\ Len(Kept(w)) <= Len(l) + (Len(w) - k)
            /\ SubSeq(Kept(w), 1, Len(l)) = l
<1> DEFINE K(j) == Kept(SubSeq(w, 1, j))
           l == K(k)
           Good(i) == /\ K(k + i) \in Seq(Records)
                      /\ Len(l) <= Len(K(k + i)) /\ Len(K(k + i)) <= Len(l) + i
                      /\ \A x \in 1..Len(l) : K(k + i)[x] = l[x]
           T == {i \in Nat : k + i <= Len(w) => Good(i)}
<1>1. k \in Nat /\ k <= Len(w) /\ Len(w) \in Nat /\ k + 0 = k
  OBVIOUS
<1>2. \A j \in 0..Len(w) : SubSeq(w, 1, j) \in Seq(Records)
  BY CountOfPrefix
<1>3. l \in Seq(Records) /\ Len(l) \in Nat
  <2>1. SubSeq(w, 1, k) \in Seq(Records)
    BY <1>2
  <2>2. l \in Seq(Records)
    BY <2>1, KeptIs
  <2> HIDE DEF l
  <2> QED
    BY <2>2
<1>4. \A j \in Nat : j < Len(w) => K(j + 1) = Keeping(K(j), w[j + 1]) /\ w[j + 1] \in Records
  BY Replayed!FoldPrefix, Replayed!PrefixStep DEF Kept
<1>5. K(Len(w)) = Kept(w)
  BY Replayed!FoldPrefix DEF Kept
<1> HIDE DEF K
<1>6. 0 \in T
  BY <1>1, <1>3
<1>7. ASSUME NEW i \in Nat, i \in T PROVE i + 1 \in T
  <2> SUFFICES ASSUME k + (i + 1) <= Len(w) PROVE Good(i + 1)
    OBVIOUS
  <2> DEFINE m == K(k + i)
             rec == w[(k + i) + 1]
  <2>1. /\ k + i \in Nat /\ k + i < Len(w) /\ k + (i + 1) = (k + i) + 1
    BY <1>1
  <2>2. K(k + (i + 1)) = Keeping(m, rec) /\ rec \in Records
    BY <1>4, <2>1
  <2>3. /\ m \in Seq(Records) /\ Len(m) \in Nat
        /\ Len(l) <= Len(m) /\ Len(m) <= Len(l) + i
        /\ \A x \in 1..Len(l) : m[x] = l[x]
    BY <1>7, <2>1
  <2> HIDE DEF l, m, rec
  <2>4. CASE Keeping(m, rec) = m
    BY <1>3, <2>2, <2>3, <2>4
  <2>5. CASE Keeping(m, rec) = Append(m, rec)
    <3> DEFINE next == K(k + (i + 1))
    <3>0. next = Append(m, rec) /\ rec \in Records
      BY <2>2, <2>5
    <3> HIDE DEF next
    <3>1. /\ next \in Seq(Records) /\ Len(next) = Len(m) + 1
          /\ \A x \in 1..Len(m) : next[x] = m[x]
      BY <2>3, <3>0
    <3>2. \A x \in 1..Len(l) : x \in 1..Len(m)
      BY <1>3, <2>3
    <3>3. Len(l) <= Len(next) /\ Len(next) <= Len(l) + (i + 1)
      BY <1>3, <2>3, <3>1
    <3>4. \A x \in 1..Len(l) : next[x] = l[x]
      BY <2>3, <3>1, <3>2
    <3> QED
      BY <3>1, <3>3, <3>4 DEF next
  <2> QED
    BY <2>4, <2>5 DEF Keeping
<1>8. Good(Len(w) - k)
  <2>1. \A i \in Nat : i \in T
    <3> HIDE DEF T
    <3> QED
      BY <1>6, <1>7, Replayed!Induction
  <2>2. Len(w) - k \in Nat /\ k + (Len(w) - k) = Len(w)
    BY <1>1
  <2> HIDE DEF Good
  <2> QED
    BY <1>1, <2>1, <2>2
<1>9. k + (Len(w) - k) = Len(w)
  BY <1>1
<1>10. /\ Kept(w) \in Seq(Records) /\ Len(Kept(w)) \in Nat
       /\ Len(l) <= Len(Kept(w)) /\ Len(Kept(w)) <= Len(l) + (Len(w) - k)
       /\ \A x \in 1..Len(l) : Kept(w)[x] = l[x]
  <2> HIDE DEF l
  <2> QED
    BY <1>5, <1>8, <1>9
<1> HIDE DEF l
<1>11. SubSeq(Kept(w), 1, Len(l)) = l
  <2>1. /\ SubSeq(Kept(w), 1, Len(l)) \in Seq(Records) /\ Len(SubSeq(Kept(w), 1, Len(l))) = Len(l)
        /\ \A x \in 1..Len(l) : SubSeq(Kept(w), 1, Len(l))[x] = Kept(w)[x]
    BY <1>3, <1>10, CountOfPrefix
  <2> QED
    BY <1>3, <1>10, <2>1
<1> QED
  BY <1>3, <1>10, <1>11 DEF l, K

\* Replay keeps no more records than there are lines.
LEMMA KeptShorter ==
  ASSUME NEW w \in Seq(Records)
  PROVE  Len(Kept(w)) \in 0..Len(w)
<1>1. SubSeq(w, 1, 0) = <<>> /\ 0 \in 0..Len(w) /\ Len(w) \in Nat
  OBVIOUS
<1>2. Kept(<<>>) = <<>> /\ Len(<<>>) = 0
  BY KeptNothing
<1>3. Kept(w) \in Seq(Records) /\ Len(Kept(w)) <= 0 + (Len(w) - 0)
  BY <1>1, <1>2, KeptPrefix
<1> QED
  BY <1>1, <1>3

\* The lines w hold the log es: each prefix of w replays to what a prefix of es does, and
\* the shorter of the two leaves out no more than es does of w as a whole.
Pairs(w, es) ==
    \A k \in 0..Len(w) : \E m \in 0..Len(es) :
      /\ m >= k - (Len(w) - Len(es))
      /\ Kept(SubSeq(w, 1, k)) = Kept(SubSeq(es, 1, m))

\* Whole, they replay to the same log.
LEMMA PairsWhole ==
  ASSUME NEW w \in Seq(Records), NEW es \in Seq(Records), Pairs(w, es)
  PROVE  Kept(w) = Kept(es)
<1>1. Len(w) \in 0..Len(w) /\ Len(w) \in Nat /\ Len(es) \in Nat
  OBVIOUS
<1>2. PICK m \in 0..Len(es) : /\ m >= Len(w) - (Len(w) - Len(es))
                             /\ Kept(SubSeq(w, 1, Len(w))) = Kept(SubSeq(es, 1, m))
  BY <1>1 DEF Pairs
<1>3. m = Len(es)
  BY <1>1, <1>2
<1>4. SubSeq(w, 1, Len(w)) = w /\ SubSeq(es, 1, Len(es)) = es
  OBVIOUS
<1> QED
  BY <1>2, <1>3, <1>4

\* The same record at the end of both leaves them a pair.
LEMMA PairsAppend ==
  ASSUME NEW w \in Seq(Records), NEW es \in Seq(Records), Pairs(w, es), NEW rec \in Records
  PROVE  Pairs(Append(w, rec), Append(es, rec))
<1> DEFINE v == Append(w, rec)
           fs == Append(es, rec)
<1>1. /\ Len(w) \in Nat /\ Len(es) \in Nat /\ Len(v) = Len(w) + 1 /\ Len(fs) = Len(es) + 1
      /\ v \in Seq(Records) /\ fs \in Seq(Records)
  OBVIOUS
<1>2. SubSeq(v, 1, Len(v)) = v /\ SubSeq(fs, 1, Len(fs)) = fs
  BY <1>1
<1>3. \A k \in 0..Len(w) : SubSeq(v, 1, k) = SubSeq(w, 1, k)
  OBVIOUS
<1>4. \A m \in 0..Len(es) : SubSeq(fs, 1, m) = SubSeq(es, 1, m)
  OBVIOUS
<1>5. Kept(v) = Kept(fs)
  BY PairsWhole, KeptMore
<1> HIDE DEF v, fs
<1>6. SUFFICES ASSUME NEW k \in 0..Len(v)
               PROVE  \E m \in 0..Len(fs) : /\ m >= k - (Len(v) - Len(fs))
                                            /\ Kept(SubSeq(v, 1, k)) = Kept(SubSeq(fs, 1, m))
  BY DEF Pairs, v, fs
<1>7. CASE k = Len(v)
  <2>1. Len(fs) \in 0..Len(fs) /\ Len(fs) >= k - (Len(v) - Len(fs))
    BY <1>1, <1>7
  <2> QED
    BY <1>2, <1>5, <1>7, <2>1
<1>8. CASE k \in 0..Len(w)
  <2>1. PICK m \in 0..Len(es) : /\ m >= k - (Len(w) - Len(es))
                               /\ Kept(SubSeq(w, 1, k)) = Kept(SubSeq(es, 1, m))
    BY <1>8 DEF Pairs
  <2>2. m \in 0..Len(fs) /\ m >= k - (Len(v) - Len(fs))
    BY <1>1, <1>8, <2>1
  <2> QED
    BY <1>3, <1>4, <1>8, <2>1, <2>2
<1> QED
  BY <1>1, <1>7, <1>8

\* What a new process keeps of its WAL is a pair with it.
LEMMA PairsReplay ==
  ASSUME NEW w \in Seq(Records)
  PROVE  Pairs(w, Kept(w))
<1> SUFFICES ASSUME NEW k \in 0..Len(w)
             PROVE  \E m \in 0..Len(Kept(w)) :
                      /\ m >= k - (Len(w) - Len(Kept(w)))
                      /\ Kept(SubSeq(w, 1, k)) = Kept(SubSeq(Kept(w), 1, m))
  BY DEF Pairs
<1> DEFINE l == Kept(SubSeq(w, 1, k))
<1>1. /\ l \in Seq(Records) /\ Len(l) \in 0..Len(Kept(w)) /\ Kept(w) \in Seq(Records)
      /\ Len(Kept(w)) <= Len(l) + (Len(w) - k) /\ SubSeq(Kept(w), 1, Len(l)) = l
  BY KeptPrefix
<1>2. Kept(l) = l
  <2>1. SubSeq(w, 1, k) \in Seq(Records)
    BY CountOfPrefix
  <2> QED
    BY <1>1, <2>1, KeptIs, KeptAll
<1> HIDE DEF l
<1>3. Len(l) >= k - (Len(w) - Len(Kept(w)))
  <2>1. Len(l) \in Nat /\ Len(w) \in Nat /\ Len(Kept(w)) \in Nat /\ k \in Nat
    BY <1>1
  <2> QED
    BY <1>1, <2>1
<1> QED
  BY <1>1, <1>2, <1>3 DEF l

\* The fourth inductive invariant: lines and log are a pair; the index holds every record
\* that the log shows of the last TTL seconds; and the snapshot on the platter is no newer than the file.
Paired  == Pairs(wal, entries)
Indexed == Idempotent =>
             \A i \in DOMAIN entries :
               Unix(At(entries[i])) > Unix(now) - TTL => InBucket(entries[i]) \in dedup
Older   == snapSynced.base <= snap.base
Journaled == Paired /\ Indexed /\ Older

\* Its parts after a step.
LEMMA PairedNext == Paired' <=> Pairs(wal', entries')
  BY DEF Paired, Pairs, Kept

LEMMA SamePaired == ASSUME Paired, UNCHANGED <<wal, entries>> PROVE Paired'
  BY PairedNext DEF Paired

LEMMA SameIndexed == ASSUME Indexed, UNCHANGED <<now, entries, dedup>> PROVE Indexed'
  BY DEF Indexed, InBucket, Unix, IdOf, At

\* The numbers that Firm compares.
LEMMA FirmNumbers ==
  ASSUME Sound
  PROVE  /\ wal \in Seq(Records) /\ entries \in Seq(Records)
         /\ Len(wal) \in Nat /\ Len(entries) \in Nat /\ synced \in Nat /\ synced <= Len(wal)
         /\ base \in Nat /\ now \in Nat /\ snap.base \in Nat /\ snapSynced.base \in Nat
         /\ Firm \in Nat
<1>1. /\ wal \in Seq(Records) /\ entries \in Seq(Records) /\ synced \in 0..Len(wal)
      /\ base \in Nat /\ now \in 0..MaxTime /\ snap.base \in Nat /\ snapSynced.base \in Nat
  BY DEF Sound, TypeOK
<1> QED
  BY <1>1, LogConstants DEF Firm

\* Append is Accept: what the index does not know is not in the log, or too old.
LEMMA AppendAccepts ==
  ASSUME Sound, Exact, Journaled, NEW id \in Ids, AppendEvent(id)
  PROVE  Journaled' /\ Promise!Accept(id)
<1> DEFINE rec == <<id, now>>
<1>1. /\ wal' = Append(wal, rec) /\ entries' = Append(entries, rec)
      /\ UNCHANGED <<now, base, synced, snap, snapSynced>>
  BY DEF AppendEvent, WriteLine, Exact
<1>2. rec \in Records /\ IdOf(rec) = id /\ At(rec) = now
  BY RecordOf DEF Sound
<1>3. wal \in Seq(Records) /\ entries \in Seq(Records) /\ Len(wal) \in Nat /\ Len(entries) \in Nat
  BY FirmNumbers
<1>4. Paired'
  BY <1>1, <1>2, <1>3, PairedNext, PairsAppend DEF Journaled, Paired
<1>5. Indexed'
  <2> SUFFICES ASSUME Idempotent, NEW i \in DOMAIN entries',
                      Unix(At(entries'[i])) > Unix(now) - TTL
               PROVE  InBucket(entries'[i]) \in dedup'
    BY <1>1 DEF Indexed, InBucket, Unix, IdOf, At
  <2>1. dedup' = {r \in dedup : At(r) > Unix(now) - TTL} \cup {InBucket(rec)}
    BY <1>2, AcceptStep DEF InBucket
  <2> HIDE DEF rec
  <2>2. CASE i = Len(entries) + 1
    BY <1>1, <1>3, <2>1, <2>2
  <2>3. CASE i \in 1..Len(entries)
    <3>1. entries'[i] = entries[i] /\ i \in DOMAIN entries
      BY <1>1, <1>3, <2>3
    <3>2. InBucket(entries[i]) \in dedup /\ entries[i] \in Records
      BY <1>3, <3>1 DEF Journaled, Indexed
    <3> QED
      BY <2>1, <3>1, <3>2, Bucketed
  <2> QED
    BY <1>1, <1>3, <2>2, <2>3
<1>6. Older'
  BY <1>1 DEF Journaled, Older
<1>7. Firm' = Firm
  <2> HIDE DEF rec
  <2>1. Len(wal') = Len(wal) + 1 /\ Len(entries') = Len(entries) + 1
    BY <1>1, <1>3
  <2>2. Len(wal') - Len(entries') = Len(wal) - Len(entries)
    BY <1>3, <2>1
  <2> QED
    BY <1>1, <2>2 DEF Firm
<1>8. ASSUME Idempotent, NEW i \in DOMAIN entries, entries[i][1] = id
      PROVE  now - entries[i][2] > Recall
  <2>1. entries[i] \in Records
    BY <1>3
  <2>2. At(entries[i]) \in Int /\ now \in Int /\ TTL \in Int
    BY <2>1, RecordIs, LogConstants, FirmNumbers
  <2>3. ~ (Unix(At(entries[i])) > Unix(now) - TTL)
    <3> SUFFICES ASSUME Unix(At(entries[i])) > Unix(now) - TTL PROVE FALSE
      OBVIOUS
    <3>1. InBucket(entries[i]) \in dedup
      BY <1>8 DEF Journaled, Indexed
    <3> QED
      BY <1>8, <2>1, <3>1, AcceptStep, Bucketed DEF IdOf
  <2>4. Unix(At(entries[i])) <= Unix(now) - TTL
    BY <2>2, <2>3, Truncation
  <2> QED
    BY <2>2, <2>4, SecondsApart DEF At
<1>9. Promise!Accept(id)
  BY <1>1, <1>7, <1>8 DEF Promise!Accept
<1> QED
  BY <1>4, <1>5, <1>6, <1>9 DEF Journaled

\* What the journal does not see: refusals, queries, snapshots.
LEMMA UnseenSteps ==
  ASSUME Sound, Exact, Journaled,
         \/ \E id \in Ids : AppendDuplicate(id)
         \/ Query \/ CompactSnapshot \/ SnapWriteBack \/ UNCHANGED vars
  PROVE  Journaled' /\ UNCHANGED Promise!journalVars
<1>1. UNCHANGED <<now, base, entries, wal, synced>>
  BY DEF AppendDuplicate, Query, CompactSnapshot, SnapWriteBack, files, history, memory, vars
<1>2. UNCHANGED Promise!journalVars
  BY <1>1 DEF Promise!journalVars, Firm
<1>3. Paired'
  BY <1>1, SamePaired DEF Journaled
<1>4. Indexed'
  <2>1. \/ dedup' = dedup
        \/ dedup' = {r \in dedup : At(r) > Unix(now) - TTL}
    BY DEF AppendDuplicate, Query, CompactSnapshot, SnapWriteBack, memory, vars, EvictDedup
  <2> SUFFICES ASSUME Idempotent, NEW i \in DOMAIN entries,
                      Unix(At(entries[i])) > Unix(now) - TTL
               PROVE  InBucket(entries[i]) \in dedup'
    BY <1>1 DEF Indexed, InBucket, Unix, IdOf, At
  <2>2. InBucket(entries[i]) \in dedup /\ At(InBucket(entries[i])) = Unix(At(entries[i]))
    BY FirmNumbers, Bucketed DEF Journaled, Indexed
  <2> QED
    BY <2>1, <2>2
<1>5. Older'
  <2>1. CASE CompactSnapshot
    <3>1. ~compacting /\ snap' = Snapshot(LogHead) /\ snapSynced' = snapSynced
      BY <2>1 DEF CompactSnapshot
    <3>2. snap'.base = base + Len(entries) /\ snap.base = base
      BY <3>1 DEF Snapshot, LogHead, Sound, Anchored
    <3> QED
      BY <3>1, <3>2, FirmNumbers DEF Journaled, Older
  <2>2. CASE SnapWriteBack
    <3>1. snapSynced' = snap /\ snap' = snap
      BY <2>2 DEF SnapWriteBack
    <3> QED
      BY <3>1, FirmNumbers DEF Older
  <2>3. CASE (\E id \in Ids : AppendDuplicate(id)) \/ Query \/ UNCHANGED vars
    <3>1. UNCHANGED <<snap, snapSynced>>
      BY <2>3 DEF AppendDuplicate, Query, files, vars
    <3> QED
      BY <3>1 DEF Journaled, Older
  <2> QED
    BY <2>1, <2>2, <2>3
<1> QED
  BY <1>2, <1>3, <1>4, <1>5 DEF Journaled

\* Fsync is Sync, ...
LEMMA FsyncSyncs ==
  ASSUME Sound, Journaled, Fsync
  PROVE  Journaled' /\ Promise!Sync
<1>1. UNCHANGED <<now, base, entries, dedup, wal, snap, snapSynced>> /\ synced' = Len(wal)
  BY DEF Fsync, memory
<1>2. Firm' = Len(entries)
  <2>1. Firm' = IF Len(wal) > Len(wal) - Len(entries) THEN Len(wal) - (Len(wal) - Len(entries)) ELSE 0
    BY <1>1 DEF Firm
  <2> QED
    BY <2>1, FirmNumbers
<1>3. Promise!Sync
  BY <1>1, <1>2 DEF Promise!Sync
<1>4. Paired' /\ Indexed'
  BY <1>1, SamePaired, SameIndexed DEF Journaled
<1> QED
  BY <1>1, <1>3, <1>4 DEF Journaled, Older

\* ... the second half of Compact is Trim, ...
LEMMA CompactTrims ==
  ASSUME Sound, Journaled, CompactWal
  PROVE  Journaled' /\ Promise!Trim
<1>1. /\ entries' = <<>> /\ wal' = <<>> /\ base' = snap.base /\ compacting
      /\ UNCHANGED <<now, dedup, snap, snapSynced>>
  BY CompactEmpties
<1>2. snap.base = base + Len(entries)
  BY <1>1 DEF Sound, Anchored, LogHead
<1>3. synced' = 0
  <2>1. synced' = IF PowerLoss THEN Len(wal') ELSE synced
    BY DEF CompactWal
  <2> QED
    BY <1>1, <2>1 DEF Sound
<1>4. Firm' = 0
  BY <1>1, <1>3 DEF Firm
<1>5. Promise!Trim
  <2>1. SubSeq(entries, Len(entries) + 1, Len(entries)) = <<>> /\ Len(entries) \in 0..Len(entries)
    BY FirmNumbers
  <2> QED
    BY <1>1, <1>2, <1>4, <2>1 DEF Promise!Trim
<1>6. Paired'
  <2>1. <<>> \in Seq(Records)
    OBVIOUS
  <2> QED
    BY <1>1, <2>1, PairsReplay, KeptNothing, PairedNext
<1>7. Indexed' /\ Older'
  BY <1>1 DEF Journaled, Indexed, Older
<1> QED
  BY <1>5, <1>6, <1>7 DEF Journaled

\* ... and Tick is Tick: records only get older.
LEMMA TickTicks ==
  ASSUME Sound, Journaled, Tick
  PROVE  Journaled' /\ Promise!Tick
<1>1. UNCHANGED <<base, entries, dedup, wal, synced, snap, snapSynced>> /\ now' = now + 1
  BY DEF Tick, memory, files
<1>2. Promise!Tick
  BY <1>1 DEF Promise!Tick, Firm
<1>3. Paired'
  BY <1>1, SamePaired DEF Journaled
<1>4. Indexed'
  <2> SUFFICES ASSUME Idempotent, NEW i \in DOMAIN entries,
                      Unix(At(entries[i])) > Unix(now + 1) - TTL
               PROVE  InBucket(entries[i]) \in dedup
    BY <1>1 DEF Indexed, InBucket, Unix, IdOf, At
  <2>1. entries[i] \in Records /\ now \in Int /\ TTL \in Int
    BY FirmNumbers, LogConstants
  <2>2. At(entries[i]) \in Int
    BY <2>1, RecordIs
  <2>3. Unix(At(entries[i])) \in Int /\ Unix(now) \in Int /\ Unix(now + 1) \in Int
        /\ Unix(now) <= Unix(now + 1)
    BY <2>1, <2>2, Truncation
  <2>4. Unix(At(entries[i])) > Unix(now) - TTL
    BY <2>1, <2>3
  <2> QED
    BY <2>4 DEF Journaled, Indexed
<1> QED
  BY <1>1, <1>2, <1>3, <1>4 DEF Journaled, Older

\* What a new process makes of the files is Journaled again.
LEMMA DeathJournaled ==
  ASSUME Sound, Exact, Journaled, Kill \/ HostDies, BigIds = {}, ~Torn
  PROVE  Journaled'
<1>1. /\ now' = now /\ entries' = Kept(wal') /\ wal' \in Seq(Records)
  <2>1. Sound'
    BY DeathSound
  <2>2. wal' \in Seq(Records)
    BY <2>1 DEF Sound, TypeOK
  <2>3. now' = now
    BY DEF Kill, HostDies, Boot
  <2> QED
    BY <2>2, <2>3, DeathExact
<1>2. Paired'
  BY <1>1, PairsReplay, PairedNext
<1>3. Indexed'
  <2>1. dedup' = EvictDedup({InBucket(rec) : rec \in ToSet(entries')})
    BY DEF Kill, HostDies, Boot, Reindex
  <2>2. entries' \in Seq(Records)
    BY <1>1, KeptIs
  <2> SUFFICES ASSUME Idempotent, NEW i \in DOMAIN entries',
                      Unix(At(entries'[i])) > Unix(now) - TTL
               PROVE  InBucket(entries'[i]) \in dedup'
    BY <1>1 DEF Indexed, InBucket, Unix, IdOf, At
  <2>3. entries'[i] \in ToSet(entries') /\ entries'[i] \in Records
    BY <2>2 DEF ToSet
  <2> QED
    BY <2>1, <2>3, Bucketed DEF EvictDedup
<1>4. Older'
  <2>1. CASE Kill
    BY <2>1 DEF Kill, files, Journaled, Older
  <2>2. CASE HostDies
    <3>1. snapSynced' = snap' /\ snap' \in {snap, snapSynced, ZeroSnap}
      BY <2>2 DEF HostDies
    <3> QED
      BY <3>1, FirmNumbers, NoSnapshot DEF Older
  <2> QED
    BY <2>1, <2>2
<1> QED
  BY <1>2, <1>3, <1>4 DEF Journaled

\* A process that is killed reopens the journal, ...
LEMMA KillReopens ==
  ASSUME Sound, Exact, Journaled, Kill, BigIds = {}, ~Torn, ~CrashInCompact
  PROVE  Promise!Reopen
<1>1. /\ ~compacting /\ base' = snap.base /\ now' = now
      /\ UNCHANGED <<wal, synced>>
  BY DEF Kill, Boot, files
<1>2. base' = base
  BY <1>1 DEF Sound, Anchored
<1>3. entries' = Kept(entries)
  <2>1. entries' = Kept(wal')
    BY DeathExact
  <2> QED
    BY <1>1, <2>1 DEF Exact
<1>4. /\ Promise!OnlyFirsts(entries', entries)
      /\ Len(entries') \in 0..Len(entries)
  <2>1. entries \in Seq(Records)
    BY FirmNumbers
  <2> QED
    BY <1>3, <2>1, KeptIs, KeptShorter
<1>5. Firm' = LET leftOut == Len(wal) - Len(entries')
              IN IF synced > leftOut THEN synced - leftOut ELSE 0
  BY <1>1 DEF Firm
<1>6. Firm' \in 0..Firm /\ Firm - Firm' <= Len(entries) - Len(entries')
  <2>1. Len(entries') \in Nat /\ Len(entries') <= Len(entries)
    BY <1>4, FirmNumbers
  <2> QED
    BY <1>5, <2>1, FirmNumbers DEF Firm
<1> QED
  BY <1>1, <1>2, <1>4, <1>6 DEF Promise!Reopen

\* ... and a host that dies takes from its end.
LEMMA HostLosesPower ==
  ASSUME Sound, Exact, Journaled, HostDies, BigIds = {}, ~Torn, ~CrashInCompact
  PROVE  Promise!LosePower
<1>1. PICK k \in synced..Len(wal) : wal' = SubSeq(wal, 1, k) /\ synced' = k
  BY DEF HostDies
<1>2. /\ ~compacting /\ base' = snap'.base /\ snap' \in {snap, snapSynced, ZeroSnap} /\ now' = now
  BY DEF HostDies, Boot
<1>3. base' \in 0..base
  <2>1. snap.base = base
    BY <1>2 DEF Sound, Anchored
  <2> QED
    BY <1>2, <2>1, FirmNumbers, NoSnapshot DEF Journaled, Older
<1>4. k \in 0..Len(wal) /\ k \in Nat
  BY <1>1, FirmNumbers
<1>5. entries' = Kept(SubSeq(wal, 1, k))
  BY <1>1, DeathExact
<1>6. PICK m \in 0..Len(entries) : /\ m >= k - (Len(wal) - Len(entries))
                                  /\ Kept(SubSeq(wal, 1, k)) = Kept(SubSeq(entries, 1, m))
  BY <1>4 DEF Journaled, Paired, Pairs
<1>7. m \in Firm..Len(entries)
  BY <1>1, <1>4, <1>6, FirmNumbers DEF Firm
<1>8. Promise!OnlyFirsts(entries', SubSeq(entries, 1, m))
  <2>1. SubSeq(entries, 1, m) \in Seq(Records)
    BY <1>6, FirmNumbers, CountOfPrefix
  <2> QED
    BY <1>5, <1>6, <2>1, KeptIs
<1>9. Firm' = Len(entries')
  <2>1. Len(wal') = k /\ wal' \in Seq(Records)
    BY <1>1, <1>4, FirmNumbers, CountOfPrefix
  <2>2. Len(entries') \in Nat
    BY <1>1, <1>5, <2>1, KeptShorter
  <2>3. Firm' = IF k > k - Len(entries') THEN k - (k - Len(entries')) ELSE 0
    BY <1>1, <2>1 DEF Firm
  <2> QED
    BY <1>4, <2>2, <2>3
<1> QED
  BY <1>2, <1>3, <1>7, <1>8, <1>9 DEF Promise!LosePower

\* Every step keeps Journaled and is a step of the journal, or none.
LEMMA JournalStep ==
  ASSUME BigIds = {}, ~Torn, ~CrashInCompact, Sound, Exact, Journaled, [Next]_vars
  PROVE  Journaled' /\ [Promise!Next]_(Promise!journalVars)
<1>1. ASSUME NEW id \in Ids, AppendEvent(id)
      PROVE  Journaled' /\ Promise!Next
  BY <1>1, AppendAccepts DEF Promise!Next
<1>2. CASE \/ \E id \in Ids : AppendDuplicate(id)
           \/ Query \/ CompactSnapshot \/ SnapWriteBack \/ UNCHANGED vars
  BY <1>2, UnseenSteps
<1>3. CASE Fsync
  BY <1>3, FsyncSyncs DEF Promise!Next
<1>4. CASE CompactWal
  BY <1>4, CompactTrims DEF Promise!Next
<1>5. CASE Kill
  BY <1>5, DeathJournaled, KillReopens DEF Promise!Next
<1>6. CASE HostDies
  BY <1>6, DeathJournaled, HostLosesPower DEF Promise!Next
<1>7. CASE Tick
  BY <1>7, TickTicks DEF Promise!Next
<1> QED
  BY <1>1, <1>2, <1>3, <1>4, <1>5, <1>6, <1>7 DEF Next

\* Where every line can be read back and Compact is not interrupted, the log implements the
\* journal: offsets stay through compactions and restarts, repeated ids are known as long as
\* the log shows them, also to a process that has just replayed it, and a loss of power takes
\* a tail that was not synced (log.go Append, fsyncer, Compact, Open).
THEOREM JournalImplemented ==
  ASSUME BigIds = {}, ~Torn, ~CrashInCompact
  PROVE  Spec => ImplementsJournal
<1>1. Init => Journaled
  <2> SUFFICES ASSUME Init PROVE Journaled
    OBVIOUS
  <2>1. wal = <<>> /\ entries = <<>> /\ snap.base = 0 /\ snapSynced.base = 0
    BY DEF Init, ZeroSnap
  <2>2. <<>> \in Seq(Records)
    OBVIOUS
  <2>3. Paired
    BY <2>1, <2>2, PairsReplay, KeptNothing DEF Paired
  <2> QED
    BY <2>1, <2>3 DEF Journaled, Indexed, Older
<1>2. Init => Promise!Init
  BY DEF Init, Promise!Init, Firm
<1>3. Sound /\ Exact /\ [Next]_vars => Exact'
  BY StepExact
<1>4. Sound /\ Exact /\ Journaled /\ [Next]_vars
        => Journaled' /\ [Promise!Next]_(Promise!journalVars)
  BY JournalStep
<1> QED
  BY <1>1, <1>2, <1>3, <1>4, StartExact, SoundHolds, PTL DEF Spec, ImplementsJournal, Promise!Spec
=============================================================================
