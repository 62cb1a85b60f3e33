---------------------------- MODULE OverloadProofs ---------------------------
(***************************************************************************)
(* Proofs about the layers that shed load, for any number of clients,      *)
(* rate, burst, queue and batch size.                                      *)
(*                                                                         *)
(* 1. The rate limiter by itself, among any handlers that call it: what a  *)
(*    bucket holds is weighed against the meter.  The map's bucket never   *)
(*    holds more than the meter leaves of the burst (apart from strays),   *)
(*    and no bucket at all holds less.                                     *)
(* 2. The node's queue: every write that waits is in one place, once, and  *)
(*    the log has spoken on it exactly when its batch has been appended.   *)
(* 3. The gateway in front of both, with a second attempt that races the   *)
(*    first.                                                               *)
(* 4. The queue implements the ledger, step by step.                       *)
(***************************************************************************)
EXTENDS Overload, FiniteSetTheorems, TLAPS

\* What a request finds in the map, or would make there.
Supply == IF current = NoBucket THEN Burst ELSE Tokens(current)

\* Inductive: the tokens on offer are backed by what the meter leaves ...
Backed == meter + Supply <= Burst + (strays * One)
\* ... and every bucket holds what the meter leaves, at least.
Granted == \A b \in Buckets : meter + Tokens(b) >= Burst

LimiterInv == LimiterTypeOK /\ Backed /\ Granted

-----------------------------------------------------------------------------
LEMMA ConstantTypes ==
    /\ One \in Nat /\ One > 0 /\ Rate \in Nat /\ Rate > 0
    /\ Burst \in Nat /\ Longest \in Nat
    /\ Cardinality(Requests) \in Nat /\ Buckets \subseteq Nat \ {0}
<1>1. Cardinality(Requests) \in Nat
  BY RateLimitAssumption, FS_CardinalityType
<1> QED
  BY <1>1, RateLimitAssumption DEF Buckets

\* A tick brings at most the rate, and fills the bucket that it brings less.
LEMMA TickTokens ==
    ASSUME NEW t \in 0..Burst, NEW n \in 0..Longest
    PROVE  LET now == Least(Burst, t + (n * Rate))
               then == Least(Burst, t + (Least(n + 1, Longest) * Rate))
           IN /\ now \in 0..Burst /\ then \in 0..Burst
              /\ then <= now + Rate
              /\ then = Burst \/ then = now + Rate
<1> DEFINE next == Least(n + 1, Longest)
<1>1. /\ One \in Nat /\ Rate \in Nat /\ Rate > 0 /\ Burst \in Nat /\ Longest \in Nat
      /\ Longest * Rate >= Burst
  BY ConstantTypes, RateLimitAssumption
<1>2. (n + 1) * Rate = (n * Rate) + Rate /\ n * Rate \in Nat
  BY <1>1
<1>3. CASE n = Longest
  <2>1. next = n
    BY <1>1, <1>3 DEF Least
  <2> QED
    BY <1>1, <1>2, <1>3, <2>1 DEF Least
<1>4. CASE n # Longest
  <2>1. next = n + 1
    BY <1>1, <1>4 DEF Least
  <2>2. next * Rate = (n * Rate) + Rate
    BY <1>2, <2>1
  <2> HIDE DEF next
  <2>3. Least(Burst, t + (next * Rate)) = Least(Burst, t + (n * Rate) + Rate)
    BY <2>2, <1>1, <1>2 DEF Least
  <2> QED
    BY <1>1, <1>2, <2>3 DEF Least, next
<1> QED
  BY <1>3, <1>4

\* What a well-typed bucket holds.
LEMMA TokensType ==
    ASSUME LimiterTypeOK, NEW b \in Buckets
    PROVE  Tokens(b) \in 0..Burst
<1>1. bucket[b].tokens \in 0..Burst /\ bucket[b].ticks \in 0..Longest
  BY DEF LimiterTypeOK
<1> QED
  BY <1>1, TickTokens DEF Tokens

\* A bucket that was just brought up to date holds what is written in it.
LEMMA FreshTokens ==
    ASSUME NEW t \in 0..Burst
    PROVE  Least(Burst, t + (0 * Rate)) = t
  BY ConstantTypes DEF Least

\* There is a bucket left to make.
LEMMA BucketLeft ==
    ASSUME LimiterTypeOK, current = NoBucket
    PROVE  NewBucket \in Unused
<1> DEFINE Used == {held[r] : r \in Requests}
<1>1. held \in Surjection(Requests, Used)
  BY DEF LimiterTypeOK, Surjection
<1>2. IsFiniteSet(Used) /\ Cardinality(Used) <= Cardinality(Requests)
  BY <1>1, FS_Surjection, RateLimitAssumption
<1>3. IsFiniteSet(Buckets) /\ Cardinality(Buckets) = Cardinality(Requests) + 1
  BY ConstantTypes, FS_Interval DEF Buckets
<1>4. ~(Buckets \subseteq Used)
  <2> HIDE DEF Used
  <2> SUFFICES ASSUME Buckets \in SUBSET Used PROVE FALSE
    OBVIOUS
  <2>1. Cardinality(Buckets) <= Cardinality(Used)
    BY <1>2, FS_Subset
  <2>2. Cardinality(Used) \in Nat
    BY <1>2, FS_CardinalityType
  <2> QED
    BY <1>2, <1>3, <2>1, <2>2, ConstantTypes
<1>5. PICK b \in Buckets : b \notin Used
  BY <1>4
<1>6. b \in Unused
  BY <1>5, ConstantTypes DEF Unused, NoBucket
<1> QED
  BY <1>6 DEF NewBucket

\* What a bucket's record comes to; well-typed records and what Collected keeps.
Holds(x) == Least(Burst, x.tokens + (x.ticks * Rate))
Records == [tokens : 0..Burst, ticks : 0..Longest]

LEMMA HoldsType ==
    ASSUME NEW x \in Records
    PROVE  Holds(x) \in 0..Burst
<1>1. x.tokens \in 0..Burst /\ x.ticks \in 0..Longest
  BY DEF Records
<1> QED
  BY <1>1, TickTokens DEF Holds

LEMMA FullHolds == FullBucket \in Records /\ Holds(FullBucket) = Burst
<1>1. Burst \in 0..Burst /\ 0 \in 0..Longest
  BY ConstantTypes
<1> QED
  BY <1>1, FreshTokens DEF FullBucket, Holds, Records

LEMMA FreshHolds ==
    ASSUME NEW t \in 0..Burst
    PROVE  /\ [tokens |-> t, ticks |-> 0] \in Records
           /\ Holds([tokens |-> t, ticks |-> 0]) = t
<1>1. 0 \in 0..Longest
  BY ConstantTypes
<1> QED
  BY <1>1, FreshTokens DEF Holds, Records

LEMMA CollectedKeeps ==
    ASSUME NEW bs \in [Buckets -> Records], NEW cur, NEW hs
    PROVE  /\ Collected(bs, cur, hs) \in [Buckets -> Records]
           /\ cur \in Buckets => Collected(bs, cur, hs)[cur] = bs[cur]
           /\ \A b \in Buckets : \/ Collected(bs, cur, hs)[b] = bs[b]
                                 \/ Holds(Collected(bs, cur, hs)[b]) = Burst
  BY FullHolds DEF Collected

LEMMA InitInv == LimiterInit => LimiterInv
<1> SUFFICES ASSUME LimiterInit PROVE LimiterInv
  OBVIOUS
<1>1. LimiterTypeOK
  BY FullHolds DEF LimiterInit, LimiterTypeOK, Records
<1>2. Backed
  BY ConstantTypes DEF LimiterInit, Backed, Supply
<1>3. Granted
  <2> SUFFICES ASSUME NEW b \in Buckets PROVE meter + Tokens(b) >= Burst
    BY DEF Granted
  <2>1. Tokens(b) = Holds(FullBucket)
    BY DEF LimiterInit, Tokens, Holds
  <2> QED
    BY <2>1, FullHolds, ConstantTypes DEF LimiterInit
<1> QED
  BY <1>1, <1>2, <1>3 DEF LimiterInv

-----------------------------------------------------------------------------
\* A bucket that is looked at and put down again, refilled but not used, changes
\* nothing.

LEMMA Refilled ==
    ASSUME LimiterInv, NEW b \in Buckets, NEW cur, NEW hs,
           bucket' = Collected([bucket EXCEPT ![b] = [tokens |-> Tokens(b), ticks |-> 0]],
                               cur, hs)
    PROVE  /\ bucket' \in [Buckets -> Records]
           /\ cur \in Buckets => Holds(bucket'[cur]) = Tokens(cur)
           /\ \A c \in Buckets : Holds(bucket'[c]) >= Tokens(c)
<1> DEFINE bs == [bucket EXCEPT ![b] = [tokens |-> Tokens(b), ticks |-> 0]]
<1>1. \A c \in Buckets : Tokens(c) \in 0..Burst /\ Tokens(c) = Holds(bucket[c])
  BY TokensType DEF LimiterInv, Tokens, Holds
<1>2. [tokens |-> Tokens(b), ticks |-> 0] \in Records
      /\ Holds([tokens |-> Tokens(b), ticks |-> 0]) = Tokens(b)
  BY <1>1, FreshHolds
<1>3. bucket \in [Buckets -> Records]
  BY DEF LimiterInv, LimiterTypeOK, Records
<1>4. bs \in [Buckets -> Records] /\ \A c \in Buckets : Holds(bs[c]) = Tokens(c)
  <2>1. bs \in [Buckets -> Records] /\ bs[b] = [tokens |-> Tokens(b), ticks |-> 0]
    BY <1>2, <1>3
  <2>2. \A c \in Buckets : c # b => bs[c] = bucket[c]
    BY <1>3
  <2>3. ASSUME NEW c \in Buckets PROVE Holds(bs[c]) = Tokens(c)
    <3>1. CASE c = b
      BY <1>2, <2>1, <3>1
    <3>2. CASE c # b
      BY <1>1, <2>2, <3>2
    <3> QED
      BY <3>1, <3>2
  <2> QED
    BY <2>1, <2>3
<1>5. bucket' = Collected(bs, cur, hs)
  OBVIOUS
<1> HIDE DEF bs
<1>6. /\ bucket' \in [Buckets -> Records]
      /\ cur \in Buckets => bucket'[cur] = bs[cur]
      /\ \A c \in Buckets : bucket'[c] = bs[c] \/ Holds(bucket'[c]) = Burst
  <2> DEFINE cs == Collected(bs, cur, hs)
  <2>1. /\ cs \in [Buckets -> Records]
        /\ cur \in Buckets => cs[cur] = bs[cur]
        /\ \A c \in Buckets : cs[c] = bs[c] \/ Holds(cs[c]) = Burst
    BY <1>4, CollectedKeeps
  <2>2. bucket' = cs
    BY <1>5
  <2> HIDE DEF cs
  <2> QED
    BY <2>1, <2>2
<1>7. ASSUME NEW c \in Buckets PROVE Holds(bucket'[c]) >= Tokens(c)
  <2>1. Tokens(c) \in 0..Burst /\ Holds(bs[c]) = Tokens(c)
    BY <1>1, <1>4
  <2>2. bucket'[c] = bs[c] \/ Holds(bucket'[c]) = Burst
    BY <1>6
  <2> QED
    BY <2>1, <2>2, ConstantTypes
<1> QED
  BY <1>4, <1>6, <1>7

LEMMA LookupStep ==
    ASSUME LimiterInv, NEW r \in Requests, Lookup(r)
    PROVE  LimiterInv'
<1>1. LimiterTypeOK'
  BY DEF LimiterInv, LimiterTypeOK, Lookup
<1>2. Backed' /\ Granted'
  BY DEF LimiterInv, Lookup, Backed, Granted, Supply, Tokens
<1> QED
  BY <1>1, <1>2 DEF LimiterInv

LEMMA CreateStep ==
    ASSUME LimiterInv, NEW r \in Requests, Create(r)
    PROVE  LimiterInv'
<1>0. bucket \in [Buckets -> Records]
  BY DEF LimiterInv, LimiterTypeOK, Records
<1>1. CASE current = NoBucket
  <2>1. NewBucket \in Buckets /\ NewBucket # current
    BY <1>1, BucketLeft DEF LimiterInv, Unused
  <2>2. /\ current' = NewBucket
        /\ bucket' = [bucket EXCEPT ![NewBucket] = FullBucket]
        /\ held' = [held EXCEPT ![r] = NewBucket]
        /\ UNCHANGED <<meter, strays>>
    BY <1>1, <2>1 DEF Create, FoundOrNew
  <2>3. bucket' \in [Buckets -> Records]
    BY <1>0, <2>2, FullHolds
  <2>4. LimiterTypeOK'
    BY <2>1, <2>2, <2>3 DEF LimiterInv, LimiterTypeOK, Records
  <2>5. Supply' = Burst /\ Supply = Burst
    <3>1. current' # NoBucket /\ bucket'[current'] = FullBucket
      BY <1>0, <2>1, <2>2, ConstantTypes DEF NoBucket
    <3> QED
      BY <1>1, <3>1, FullHolds DEF Supply, Tokens, Holds
  <2>6. \A b \in Buckets : Tokens(b)' >= Tokens(b)
    <3> SUFFICES ASSUME NEW b \in Buckets PROVE Tokens(b)' >= Tokens(b)
      OBVIOUS
    <3>1. Tokens(b) \in 0..Burst
      BY TokensType DEF LimiterInv
    <3>2. CASE b = NewBucket
      BY <1>0, <2>2, <3>1, <3>2, FullHolds, ConstantTypes DEF Tokens, Holds
    <3>3. CASE b # NewBucket
      BY <1>0, <2>2, <3>1, <3>3, ConstantTypes DEF Tokens
    <3> QED
      BY <3>2, <3>3
  <2>7. Backed' /\ Granted'
    <3>1. Backed'
      BY <2>2, <2>5 DEF LimiterInv, Backed
    <3>2. \A b \in Buckets : Tokens(b) \in 0..Burst /\ Tokens(b)' \in 0..Burst
      <4>1. \A b \in Buckets : Tokens(b)' = Holds(bucket'[b])
        BY DEF Tokens, Holds
      <4> QED
        BY <2>3, <4>1, TokensType, HoldsType DEF LimiterInv
    <3>3. Granted'
      BY <2>2, <2>6, <3>2, ConstantTypes DEF LimiterInv, LimiterTypeOK, Granted
    <3> QED
      BY <3>1, <3>3
  <2> QED
    BY <2>4, <2>7 DEF LimiterInv
<1>2. CASE current # NoBucket
  <2>1. UNCHANGED <<bucket, current, meter, strays>> /\ held' = [held EXCEPT ![r] = current]
    BY <1>2 DEF Create, FoundOrNew
  <2>2. LimiterTypeOK'
    BY <1>2, <2>1 DEF LimiterInv, LimiterTypeOK
  <2>3. Backed' /\ Granted'
    BY <2>1 DEF LimiterInv, Backed, Granted, Supply, Tokens
  <2> QED
    BY <2>2, <2>3 DEF LimiterInv
<1> QED
  BY <1>1, <1>2

LEMMA AllowStep ==
    ASSUME LimiterInv, NEW r \in Requests, Allow(r)
    PROVE  LimiterInv'
<1> DEFINE h == held[r]
           left == [tokens |-> Tokens(h) - One, ticks |-> 0]
           bs == [bucket EXCEPT ![h] = left]
<1>1. h \in Buckets /\ Tokens(h) >= One
  BY DEF Allow, Decides, Admits
<1>2. \A c \in Buckets : Tokens(c) \in 0..Burst /\ Tokens(c) = Holds(bucket[c])
  BY TokensType DEF LimiterInv, Tokens, Holds
<1>3. left \in Records /\ Holds(left) = Tokens(h) - One
  <2>1. Tokens(h) - One \in 0..Burst
    <3>1. Tokens(h) \in 0..Burst /\ Tokens(h) >= One
      BY <1>1, <1>2
    <3> QED
      BY <3>1, ConstantTypes
  <2> QED
    BY <2>1, FreshHolds
<1>4. bucket \in [Buckets -> Records]
  BY DEF LimiterInv, LimiterTypeOK, Records
<1>5. bs \in [Buckets -> Records] /\ bs[h] = left
      /\ \A c \in Buckets : c # h => bs[c] = bucket[c]
  BY <1>1, <1>3, <1>4
<1>6. bucket' = Collected(bs, current, held')
  BY DEF Allow
<1>7. /\ meter' = meter + One /\ UNCHANGED current
      /\ strays' = IF h = current THEN strays ELSE strays + 1
      /\ meter \in Nat /\ strays \in Nat
  BY DEF Allow, LimiterInv, LimiterTypeOK
<1> HIDE DEF bs, left
<1>8. bucket' \in [Buckets -> Records]
      /\ (current \in Buckets => bucket'[current] = bs[current])
      /\ \A c \in Buckets : bucket'[c] = bs[c] \/ Holds(bucket'[c]) = Burst
  BY <1>5, <1>6, CollectedKeeps
<1>9. LimiterTypeOK'
  <2>1. held' \in [Requests -> Buckets \cup {NoBucket, Missing}]
    BY DEF Allow, LimiterInv, LimiterTypeOK
  <2>2. meter' \in Nat /\ strays' \in Nat
    BY <1>7, ConstantTypes
  <2> QED
    BY <1>7, <1>8, <2>1, <2>2 DEF LimiterInv, LimiterTypeOK, Records
<1>10. Backed'
  <2>1. strays * One \in Nat /\ (strays + 1) * One = (strays * One) + One
    BY <1>7, ConstantTypes
  <2>2. CASE h = current
    <3>1. current # NoBucket /\ current \in Buckets
      BY <1>1, <2>2, ConstantTypes DEF NoBucket
    <3>2. Supply' = Holds(bucket'[current])
      BY <1>7, <3>1 DEF Supply, Tokens, Holds
    <3>3. Supply' = Tokens(h) - One /\ Supply = Tokens(h)
      BY <1>3, <1>5, <1>8, <2>2, <3>1, <3>2 DEF Supply
    <3> QED
      <4>1. Supply \in 0..Burst /\ meter + Supply <= Burst + (strays * One)
        BY <1>1, <1>2, <3>3 DEF LimiterInv, Backed
      <4>2. strays' * One = strays * One
        BY <1>7, <2>2
      <4>3. meter' = meter + One /\ Supply' = Supply - One
        BY <1>7, <3>3
      <4> QED
        BY <1>7, <2>1, <4>1, <4>2, <4>3, ConstantTypes DEF Backed
  <2>3. CASE h # current
    <3>1. Supply' = Supply /\ Supply \in 0..Burst
      <4>1. CASE current = NoBucket
        BY <1>7, <4>1, ConstantTypes DEF Supply
      <4>2. CASE current # NoBucket
        <5>1. current \in Buckets
          BY <4>2 DEF LimiterInv, LimiterTypeOK
        <5>2. bucket'[current] = bucket[current]
          BY <1>5, <1>8, <2>3, <5>1
        <5> QED
          BY <1>2, <1>7, <4>2, <5>1, <5>2 DEF Supply, Tokens
      <4> QED
        BY <4>1, <4>2
    <3>2. strays' * One = (strays * One) + One
      BY <1>7, <2>1, <2>3
    <3> QED
      BY <1>7, <2>1, <3>1, <3>2, ConstantTypes DEF LimiterInv, Backed
  <2> QED
    BY <2>2, <2>3
<1>11. Granted'
  <2> SUFFICES ASSUME NEW c \in Buckets PROVE (meter + Tokens(c) >= Burst)'
    BY DEF Granted
  <2>1. Tokens(c)' = Holds(bucket'[c])
    BY DEF Tokens, Holds
  <2>2. CASE Holds(bucket'[c]) = Burst
    BY <1>7, <2>1, <2>2, ConstantTypes
  <2>3. CASE bucket'[c] = bs[c]
    <3>1. Holds(bs[c]) >= Tokens(c) - One
      <4>1. CASE c = h
        BY <1>2, <1>3, <1>5, <4>1, ConstantTypes
      <4>2. CASE c # h
        BY <1>2, <1>5, <4>2, ConstantTypes
      <4> QED
        BY <4>1, <4>2
    <3>2. meter + Tokens(c) >= Burst
      BY DEF LimiterInv, Granted
    <3>3. Holds(bs[c]) \in 0..Burst
      BY <1>5, HoldsType
    <3> QED
      BY <1>2, <1>7, <2>1, <2>3, <3>1, <3>2, <3>3, ConstantTypes
  <2> QED
    BY <1>8, <2>2, <2>3
<1> QED
  BY <1>9, <1>10, <1>11 DEF LimiterInv

LEMMA DenyStep ==
    ASSUME LimiterInv, NEW r \in Requests, Deny(r)
    PROVE  LimiterInv'
<1>1. held[r] \in Buckets /\ UNCHANGED <<current, meter, strays>>
  BY DEF Deny, Decides
<1>2. /\ bucket' \in [Buckets -> Records]
      /\ current \in Buckets => Holds(bucket'[current]) = Tokens(current)
      /\ \A c \in Buckets : Holds(bucket'[c]) >= Tokens(c)
  <2>1. bucket' = Collected([bucket EXCEPT ![held[r]] =
                               [tokens |-> Tokens(held[r]), ticks |-> 0]], current, held')
    BY DEF Deny
  <2> QED
    BY <1>1, <2>1, Refilled
<1>3. LimiterTypeOK'
  BY <1>1, <1>2 DEF Deny, LimiterInv, LimiterTypeOK, Records
<1>4. Backed'
  <2>1. Supply' = Supply
    BY <1>1, <1>2 DEF Supply, Tokens, Holds, LimiterInv, LimiterTypeOK
  <2> QED
    BY <1>1, <2>1 DEF LimiterInv, Backed
<1>5. Granted'
  <2> SUFFICES ASSUME NEW c \in Buckets PROVE (meter + Tokens(c) >= Burst)'
    BY DEF Granted
  <2>1. Tokens(c)' = Holds(bucket'[c]) /\ Holds(bucket'[c]) \in 0..Burst
    BY <1>2, HoldsType DEF Tokens, Holds
  <2>2. Tokens(c) \in 0..Burst /\ meter \in Nat /\ meter + Tokens(c) >= Burst
    BY TokensType DEF LimiterInv, LimiterTypeOK, Granted
  <2> QED
    BY <1>1, <1>2, <2>1, <2>2, ConstantTypes
<1> QED
  BY <1>3, <1>4, <1>5 DEF LimiterInv

LEMMA SweepStep ==
    ASSUME LimiterInv, Sweep
    PROVE  LimiterInv'
<1>1. current \in Buckets /\ current # NoBucket /\ UNCHANGED <<held, meter, strays>>
  BY DEF Sweep, LimiterInv, LimiterTypeOK
<1>2. /\ bucket' \in [Buckets -> Records]
      /\ current' \in Buckets => Holds(bucket'[current']) = Tokens(current')
      /\ \A c \in Buckets : Holds(bucket'[c]) >= Tokens(c)
  <2>1. bucket' = Collected([bucket EXCEPT ![current] =
                               [tokens |-> Tokens(current), ticks |-> 0]], current', held)
    BY DEF Sweep
  <2> HIDE DEF Tokens
  <2>2. current' = NoBucket \/ current' = current
    BY DEF Sweep
  <2> QED
    BY <1>1, <2>1, <2>2, Refilled
<1>3. Tokens(current) \in 0..Burst
  BY <1>1, TokensType DEF LimiterInv
<1>4. LimiterTypeOK'
  BY <1>1, <1>2 DEF Sweep, LimiterInv, LimiterTypeOK, Records
<1>5. Backed'
  <2>1. Supply = Tokens(current)
    BY <1>1 DEF Supply
  <2>2. CASE Full(current)
    <3>1. Supply' = Burst /\ Tokens(current) = Burst
      BY <1>3, <2>2, ConstantTypes DEF Sweep, Full, Supply
    <3> QED
      BY <1>1, <2>1, <3>1 DEF LimiterInv, Backed
  <2>3. CASE ~Full(current)
    <3>1. current' = current /\ Supply' = Holds(bucket'[current])
      BY <1>1, <2>3 DEF Sweep, Supply, Tokens, Holds
    <3> QED
      BY <1>1, <1>2, <2>1, <3>1 DEF LimiterInv, Backed
  <2> QED
    BY <2>2, <2>3
<1>6. Granted'
  <2> SUFFICES ASSUME NEW c \in Buckets PROVE (meter + Tokens(c) >= Burst)'
    BY DEF Granted
  <2>1. Tokens(c)' = Holds(bucket'[c]) /\ Holds(bucket'[c]) \in 0..Burst
    BY <1>2, HoldsType DEF Tokens, Holds
  <2>2. Tokens(c) \in 0..Burst /\ meter \in Nat /\ meter + Tokens(c) >= Burst
    BY TokensType DEF LimiterInv, LimiterTypeOK, Granted
  <2> QED
    BY <1>1, <1>2, <2>1, <2>2, ConstantTypes
<1> QED
  BY <1>4, <1>5, <1>6 DEF LimiterInv

\* The meter leaks no faster than the buckets fill.
LEMMA TickStep ==
    ASSUME LimiterInv, Tick
    PROVE  LimiterInv'
<1> DEFINE older(b) == [bucket[b] EXCEPT !.ticks = Least(bucket[b].ticks + 1, Longest)]
           bs == [b \in Buckets |-> older(b)]
<1>1. \A b \in Buckets : bucket[b].tokens \in 0..Burst /\ bucket[b].ticks \in 0..Longest
                         /\ bucket[b] \in Records
  BY DEF LimiterInv, LimiterTypeOK, Records
<1>2. ASSUME NEW b \in Buckets
      PROVE  /\ older(b) \in Records
             /\ Tokens(b) \in 0..Burst /\ Holds(older(b)) \in 0..Burst
             /\ Holds(older(b)) <= Tokens(b) + Rate
             /\ Holds(older(b)) = Burst \/ Holds(older(b)) = Tokens(b) + Rate
  <2>1. older(b).tokens = bucket[b].tokens
        /\ older(b).ticks = Least(bucket[b].ticks + 1, Longest)
    BY <1>1 DEF Records
  <2>2. older(b) \in Records
    <3>1. Least(bucket[b].ticks + 1, Longest) \in 0..Longest
      BY <1>1, ConstantTypes DEF Least
    <3> QED
      BY <1>1, <3>1 DEF Records
  <2> HIDE DEF older
  <2> QED
    BY <1>1, <2>1, <2>2, TickTokens DEF Tokens, Holds
<1>3. bs \in [Buckets -> Records] /\ \A b \in Buckets : bs[b] = older(b)
  BY <1>2
<1>4. /\ bucket' = Collected(bs, current, held)
      /\ meter' = Most(0, meter - Rate)
      /\ UNCHANGED <<current, held, strays>>
      /\ meter \in Nat /\ strays \in Nat
  BY DEF Tick, LimiterInv, LimiterTypeOK
<1> HIDE DEF bs, older
<1>5. bucket' \in [Buckets -> Records]
      /\ (current \in Buckets => bucket'[current] = bs[current])
      /\ \A c \in Buckets : bucket'[c] = bs[c] \/ Holds(bucket'[c]) = Burst
  BY <1>3, <1>4, CollectedKeeps
<1>6. meter' \in Nat /\ \/ meter' = meter - Rate
                        \/ meter' = 0 /\ meter < Rate
  BY <1>4, ConstantTypes DEF Most
<1>7. LimiterTypeOK'
  BY <1>4, <1>5, <1>6 DEF LimiterInv, LimiterTypeOK, Records
<1>8. Backed'
  <2>1. Supply \in 0..Burst /\ Supply' \in 0..Burst /\ Supply' <= Supply + Rate
    <3>1. CASE current = NoBucket
      BY <1>4, <3>1, ConstantTypes DEF Supply
    <3>2. CASE current # NoBucket
      <4>1. current \in Buckets
        BY <3>2 DEF LimiterInv, LimiterTypeOK
      <4>2. Supply = Tokens(current) /\ Supply' = Holds(bucket'[current])
        BY <1>4, <3>2 DEF Supply, Tokens, Holds
      <4> QED
        BY <1>2, <1>3, <1>5, <4>1, <4>2
    <3> QED
      BY <3>1, <3>2
  <2>2. strays * One \in Nat /\ strays' = strays
    BY <1>4, ConstantTypes
  <2>3. meter + Supply <= Burst + (strays * One)
    BY DEF LimiterInv, Backed
  <2> HIDE DEF Supply
  <2> QED
    BY <1>4, <1>6, <2>1, <2>2, <2>3, ConstantTypes DEF Backed
<1>9. Granted'
  <2> SUFFICES ASSUME NEW c \in Buckets PROVE (meter + Tokens(c) >= Burst)'
    BY DEF Granted
  <2>1. Tokens(c)' = Holds(bucket'[c])
    BY DEF Tokens, Holds
  <2>2. meter + Tokens(c) >= Burst
    BY DEF LimiterInv, Granted
  <2>3. CASE Holds(bucket'[c]) = Burst
    <3>1. meter' \in Nat /\ Burst \in Nat
      BY <1>4, <1>6, ConstantTypes
    <3>2. meter' + Burst >= Burst
      BY <1>4, <3>1
    <3> QED
      BY <2>1, <2>3, <3>2
  <2>4. CASE Holds(bucket'[c]) = Tokens(c) + Rate
    <3>1. Tokens(c) \in 0..Burst
      BY <1>2
    <3>2. meter' + (Tokens(c) + Rate) >= Burst
      BY <1>4, <1>6, <2>2, <3>1, ConstantTypes
    <3> QED
      BY <2>1, <2>4, <3>2
  <2> QED
    BY <1>2, <1>3, <1>5, <2>3, <2>4
<1> QED
  BY <1>7, <1>8, <1>9 DEF LimiterInv

-----------------------------------------------------------------------------
\* Every step of the limiter keeps the invariant.
LEMMA NextInv == LimiterInv /\ [LimiterNext]_limiterVars => LimiterInv'
<1> SUFFICES ASSUME LimiterInv, [LimiterNext]_limiterVars PROVE LimiterInv'
  OBVIOUS
<1>1. CASE \E r \in Requests : Lookup(r) \/ Create(r) \/ Allow(r) \/ Deny(r)
  BY <1>1, LookupStep, CreateStep, AllowStep, DenyStep
<1>2. CASE Sweep
  BY <1>2, SweepStep
<1>3. CASE Tick
  BY <1>3, TickStep
<1>4. CASE UNCHANGED limiterVars
  BY <1>4 DEF limiterVars, LimiterInv, LimiterTypeOK, Backed, Granted, Supply, Tokens
<1> QED
  BY <1>1, <1>2, <1>3, <1>4 DEF LimiterNext

LEMMA InvHolds == LimiterSpec => []LimiterInv
  BY InitInv, NextInv, PTL DEF LimiterSpec

\* For any handlers that call Map.Allow in any order with its sweep and its clock:
\* the limiter's variables keep their types.
THEOREM LimiterTypeCorrect == LimiterSpec => []LimiterTypeOK
<1>1. LimiterInv => LimiterTypeOK
  BY DEF LimiterInv
<1> QED
  BY <1>1, InvHolds, PTL

\* Whatever the burst, the rate and the number of handlers, a key's requests
\* exceed burst and rate by no more than those that a sweep overtook between
\* their lookup and their use of the bucket.
THEOREM LimiterKeepsRate == LimiterSpec => []RateKept
<1>1. LimiterInv => RateKept
  <2> SUFFICES ASSUME LimiterInv PROVE meter <= Burst + (strays * One)
    BY DEF RateKept
  <2>1. Supply \in Nat
    <3>1. CASE current = NoBucket
      BY <3>1, ConstantTypes DEF Supply
    <3>2. CASE current # NoBucket
      BY <3>2, TokensType DEF Supply, LimiterInv, LimiterTypeOK
    <3> QED
      BY <3>1, <3>2
  <2>2. meter + Supply <= Burst + (strays * One) /\ meter \in Nat /\ strays \in Nat
    BY DEF LimiterInv, LimiterTypeOK, Backed
  <2>3. strays * One \in Nat
    BY <2>2, ConstantTypes
  <2> HIDE DEF Supply
  <2> QED
    BY <2>1, <2>2, <2>3, ConstantTypes
<1> QED
  BY <1>1, InvHolds, PTL

\* No request is turned away that burst and rate would have admitted: neither
\* the sweep nor a race of two creations loses tokens.
THEOREM LimiterDeniesOnlyExcess == LimiterSpec => DeniesOnlyExcess
<1>1. LimiterInv /\ [LimiterNext]_limiterVars
      => [\A r \in Requests : Deny(r) => meter + One > Burst]_limiterVars
  <2> SUFFICES ASSUME LimiterInv, NEW r \in Requests, Deny(r)
               PROVE  meter + One > Burst
    OBVIOUS
  <2>1. held[r] \in Buckets /\ ~(Tokens(held[r]) >= One)
    BY DEF Deny, Decides, Admits
  <2>2. meter + Tokens(held[r]) >= Burst /\ Tokens(held[r]) \in 0..Burst /\ meter \in Nat
    BY <2>1, TokensType DEF LimiterInv, LimiterTypeOK, Granted
  <2> QED
    BY <2>1, <2>2, ConstantTypes
<1> QED
  BY <1>1, InvHolds, PTL DEF LimiterSpec, DeniesOnlyExcess

-----------------------------------------------------------------------------
\* Sequences.

\* Sequences without repetition.
OneToOne(s) == \A i, j \in DOMAIN s : s[i] = s[j] => i = j

\* The library writes the range with a DOMAIN.
LEMMA RangeIs == ASSUME NEW S, NEW s \in Seq(S) PROVE Range(s) = {s[i] : i \in 1..Len(s)}
  BY DEF Range

\* An empty sequence has no element.
LEMMA NothingIn ==
  ASSUME NEW S, NEW z \in Seq(S), Len(z) = 0
  PROVE  OneToOne(z) /\ Range(z) = {}
<1>1. \A i : i \notin DOMAIN z
  OBVIOUS
<1>2. OneToOne(z)
  BY <1>1 DEF OneToOne
<1>3. Range(z) = {}
  BY <1>1 DEF Range
<1> QED
  BY <1>2, <1>3

\* An element joins a sequence at the end.
LEMMA AppendNew ==
  ASSUME NEW S, NEW s \in Seq(S), NEW e \in S
  PROVE  /\ Append(s, e) \in Seq(S) /\ Len(Append(s, e)) = Len(s) + 1
         /\ Append(s, e) # <<>>
         /\ Range(Append(s, e)) = Range(s) \cup {e}
         /\ OneToOne(s) /\ e \notin Range(s) => OneToOne(Append(s, e))
<1> DEFINE n == Len(s)
           t == Append(s, e)
<1>1. /\ t \in Seq(S) /\ n \in Nat /\ Len(t) = n + 1 /\ t[n + 1] = e
      /\ \A i \in 1..n : t[i] = s[i]
  OBVIOUS
<1> HIDE DEF t
<1>2. DOMAIN t = 1..(n + 1) /\ DOMAIN s = 1..n
  BY <1>1
<1>3. \A i \in 1..(n + 1) : i \in 1..n \/ i = n + 1
  BY <1>1
<1>4. 1..n \subseteq 1..(n + 1) /\ n + 1 \in 1..(n + 1)
  BY <1>1
<1>5. Range(t) = Range(s) \cup {e}
  BY <1>1, <1>2, <1>3, <1>4 DEF Range
<1>6. OneToOne(s) /\ e \notin Range(s) => OneToOne(t)
  BY <1>1, <1>2, <1>3 DEF OneToOne, Range
<1>7. t # <<>>
  BY <1>1
<1> QED
  BY <1>1, <1>5, <1>6, <1>7 DEF t

\* The head of a sequence leaves it.
LEMMA TailOf ==
  ASSUME NEW S, NEW s \in Seq(S), s # <<>>
  PROVE  /\ Tail(s) \in Seq(S) /\ Len(Tail(s)) = Len(s) - 1 /\ Len(s) >= 1
         /\ Head(s) \in S /\ Head(s) \in Range(s)
         /\ Range(s) = Range(Tail(s)) \cup {Head(s)}
         /\ OneToOne(s) => OneToOne(Tail(s)) /\ Head(s) \notin Range(Tail(s))
<1> DEFINE n == Len(s)
           t == Tail(s)
<1>1. /\ t \in Seq(S) /\ n \in Nat /\ n >= 1 /\ Len(t) = n - 1
      /\ \A i \in 1..(n - 1) : t[i] = s[i + 1]
      /\ Head(s) = s[1] /\ s[1] \in S
  OBVIOUS
<1> HIDE DEF t
<1>2. DOMAIN t = 1..(n - 1) /\ DOMAIN s = 1..n
  BY <1>1
<1>3. /\ \A i \in 1..n : i = 1 \/ (i - 1 \in 1..(n - 1) /\ (i - 1) + 1 = i)
      /\ \A i \in 1..(n - 1) : i + 1 \in 1..n /\ i + 1 # 1
      /\ 1 \in 1..n
  BY <1>1
<1>4. Range(s) = Range(t) \cup {s[1]}
  <2>1. ASSUME NEW x \in Range(s) PROVE x \in Range(t) \cup {s[1]}
    <3>1. PICK i \in 1..n : x = s[i]
      BY <1>2 DEF Range
    <3>2. CASE i = 1
      BY <3>1, <3>2
    <3>3. CASE i - 1 \in 1..(n - 1) /\ (i - 1) + 1 = i
      <4>1. t[i - 1] = s[i]
        BY <1>1, <3>3
      <4>2. t[i - 1] \in Range(t)
        BY <1>2, <3>3 DEF Range
      <4> QED
        BY <3>1, <4>1, <4>2, Zenon
    <3> QED
      BY <1>3, <3>2, <3>3
  <2>2. ASSUME NEW x \in Range(t) PROVE x \in Range(s)
    BY <1>1, <1>2, <1>3, SMTT(30) DEF Range
  <2>3. s[1] \in Range(s)
    BY <1>2, <1>3 DEF Range
  <2> QED
    BY <2>1, <2>2, <2>3
<1>5. OneToOne(s) => OneToOne(t) /\ s[1] \notin Range(t)
  <2> SUFFICES ASSUME OneToOne(s) PROVE OneToOne(t) /\ s[1] \notin Range(t)
    OBVIOUS
  <2>1. ASSUME NEW i \in 1..(n - 1), NEW j \in 1..(n - 1), t[i] = t[j] PROVE i = j
    <3>1. s[i + 1] = s[j + 1]
      BY <1>1, <2>1
    <3>2. i + 1 = j + 1
      BY <1>2, <1>3, <3>1 DEF OneToOne
    <3> QED
      BY <3>2
  <2>2. ASSUME NEW i \in 1..(n - 1) PROVE t[i] # s[1]
    BY <1>1, <1>2, <1>3 DEF OneToOne
  <2> QED
    BY <1>2, <2>1, <2>2 DEF OneToOne, Range
<1>6. Head(s) \in Range(s)
  BY <1>1, <1>4
<1> QED
  BY <1>1, <1>4, <1>5, <1>6 DEF t

\* Two sequences are put one after the other.
LEMMA JoinOf ==
  ASSUME NEW S, NEW s \in Seq(S), NEW t \in Seq(S)
  PROVE  /\ s \o t \in Seq(S) /\ Len(s \o t) = Len(s) + Len(t)
         /\ Range(s \o t) = Range(s) \cup Range(t)
         /\ OneToOne(s) /\ OneToOne(t) /\ Range(s) \cap Range(t) = {} => OneToOne(s \o t)
<1> DEFINE m == Len(s)
           n == Len(t)
           u == s \o t
<1>1. /\ u \in Seq(S) /\ m \in Nat /\ n \in Nat /\ Len(u) = m + n
      /\ \A i \in 1..m : u[i] = s[i]
      /\ \A i \in 1..n : u[m + i] = t[i]
  OBVIOUS
<1> HIDE DEF u
<1>2. DOMAIN s = 1..m /\ DOMAIN t = 1..n /\ DOMAIN u = 1..(m + n)
  BY <1>1
<1>3. /\ \A i \in 1..(m + n) : i \in 1..m \/ (i - m \in 1..n /\ m + (i - m) = i)
      /\ \A i \in 1..m : i \in 1..(m + n)
      /\ \A i \in 1..n : m + i \in 1..(m + n)
  BY <1>1
<1>4. \A i \in 1..(m + n) : \/ i \in 1..m /\ u[i] = s[i]
                            \/ i - m \in 1..n /\ m + (i - m) = i /\ u[i] = t[i - m]
  <2> TAKE i \in 1..(m + n)
  <2>1. CASE i \in 1..m
    BY <1>1, <2>1
  <2>2. CASE i - m \in 1..n /\ m + (i - m) = i
    <3>1. u[m + (i - m)] = t[i - m]
      BY <1>1, <2>2
    <3> QED
      BY <2>2, <3>1
  <2> QED
    BY <1>3, <2>1, <2>2
<1>5. Range(u) = Range(s) \cup Range(t)
  <2>1. ASSUME NEW x \in Range(u) PROVE x \in Range(s) \cup Range(t)
    BY <1>2, <1>4 DEF Range
  <2>2. ASSUME NEW x \in Range(s) PROVE x \in Range(u)
    BY <1>1, <1>2, <1>3 DEF Range
  <2>3. ASSUME NEW x \in Range(t) PROVE x \in Range(u)
    BY <1>1, <1>2, <1>3 DEF Range
  <2> QED
    BY <2>1, <2>2, <2>3
<1>6. OneToOne(s) /\ OneToOne(t) /\ Range(s) \cap Range(t) = {} => OneToOne(u)
  <2> SUFFICES ASSUME OneToOne(s), OneToOne(t), Range(s) \cap Range(t) = {},
                      NEW i \in 1..(m + n), NEW j \in 1..(m + n), u[i] = u[j]
               PROVE  i = j
    BY <1>2 DEF OneToOne
  <2>1. CASE i \in 1..m /\ u[i] = s[i] /\ j \in 1..m /\ u[j] = s[j]
    BY <1>2, <2>1 DEF OneToOne
  <2>2. CASE /\ i - m \in 1..n /\ m + (i - m) = i /\ u[i] = t[i - m]
             /\ j - m \in 1..n /\ m + (j - m) = j /\ u[j] = t[j - m]
    <3>1. i - m = j - m
      BY <1>2, <2>2 DEF OneToOne
    <3> QED
      BY <2>2, <3>1
  <2>3. CASE i \in 1..m /\ u[i] = s[i] /\ j - m \in 1..n /\ u[j] = t[j - m]
    <3>1. u[i] \in Range(s) /\ u[j] \in Range(t)
      BY <1>2, <2>3 DEF Range
    <3> QED
      BY <3>1
  <2>4. CASE j \in 1..m /\ u[j] = s[j] /\ i - m \in 1..n /\ u[i] = t[i - m]
    <3>1. u[j] \in Range(s) /\ u[i] \in Range(t)
      BY <1>2, <2>4 DEF Range
    <3> QED
      BY <3>1
  <2> QED
    BY <1>4, <2>1, <2>2, <2>3, <2>4
<1> QED
  BY <1>1, <1>5, <1>6 DEF u

\* A sequence without repetition is as long as its range is large.
LEMMA CountOf ==
  ASSUME NEW S, NEW s \in Seq(S), OneToOne(s)
  PROVE  IsFiniteSet(Range(s)) /\ Cardinality(Range(s)) = Len(s)
<1>1. DOMAIN s = 1..Len(s) /\ Len(s) \in Nat /\ s \in [1..Len(s) -> Range(s)]
  BY DEF Range
<1>2. s \in Bijection(1..Len(s), Range(s))
  BY <1>1 DEF Bijection, Injection, Surjection, IsInjective, OneToOne, Range
<1>3. ExistsBijection(1..Len(s), Range(s))
  BY <1>2 DEF ExistsBijection
<1>4. IsFiniteSet(1..Len(s)) /\ Cardinality(1..Len(s)) = Len(s)
  BY <1>1, FS_Interval
<1> QED
  BY <1>3, <1>4, FS_Bijection

-----------------------------------------------------------------------------
\* What AppendBatch does to the log.

\* The events that the calls bring, and how AppendBatch records one.
EventIds == {IdOf[c] : c \in Calls}
Recording(l, c) == IF IdOf[c] \in Range(l) THEN l ELSE Append(l, IdOf[c])
Recorded == INSTANCE SequenceFolds WITH Op <- Recording

\* AppendBatch and the ledger record alike, one call after the other.
LEMMA BatchIsFold == \A l, cs : AppendBatch(l, cs) = Recorded!Fold(l, cs)
  BY DEF AppendBatch, Recording, Recorded!Fold, FoldLeft, Recorded!FoldLeft, MapThenFoldSet,
         Recorded!MapThenFoldSet, Max, Recorded!Max

LEMMA EffectIsFold == \A l, cs : Promise!FoldLeft(Promise!After, l, cs) = Recorded!Fold(l, cs)
  BY DEF Promise!After, Promise!Range, Range, Recording, Recorded!Fold, Promise!FoldLeft, Recorded!FoldLeft,
         Promise!MapThenFoldSet,
         Recorded!MapThenFoldSet, Promise!Max, Recorded!Max

\* The events of a batch.
Bringing(cs) == {IdOf[cs[i]] : i \in 1..Len(cs)}

\* A batch brings all its events to the log, and none a second time.
LEMMA RecordedIs ==
  ASSUME NEW l \in Seq(EventIds), OneToOne(l), NEW cs \in Seq(Calls)
  PROVE  /\ Recorded!Fold(l, cs) \in Seq(EventIds)
         /\ OneToOne(Recorded!Fold(l, cs))
         /\ Range(Recorded!Fold(l, cs)) = Range(l) \cup Bringing(cs)
<1> DEFINE After(k) == Recorded!Fold(l, SubSeq(cs, 1, k))
           T == {k \in Nat : k <= Len(cs) =>
                   /\ After(k) \in Seq(EventIds) /\ OneToOne(After(k))
                   /\ Range(After(k)) = Range(l) \cup {IdOf[cs[i]] : i \in 1..k}}
<1>0. Len(cs) \in Nat
  OBVIOUS
<1>1. 0 \in T
  <2>1. After(0) = l
    BY Recorded!FoldPrefix
  <2>2. {IdOf[cs[i]] : i \in 1..0} = {}
    OBVIOUS
  <2> QED
    BY <2>1, <2>2
<1>2. ASSUME NEW k \in Nat, k \in T PROVE k + 1 \in T
  <2> SUFFICES ASSUME k + 1 <= Len(cs)
               PROVE  /\ After(k + 1) \in Seq(EventIds) /\ OneToOne(After(k + 1))
                      /\ Range(After(k + 1)) = Range(l) \cup {IdOf[cs[i]] : i \in 1..(k + 1)}
    OBVIOUS
  <2> DEFINE q == After(k)
             e == IdOf[cs[k + 1]]
  <2>1. /\ q \in Seq(EventIds) /\ OneToOne(q)
        /\ Range(q) = Range(l) \cup {IdOf[cs[i]] : i \in 1..k}
    BY <1>0, <1>2
  <2>2. k < Len(cs) /\ cs[k + 1] \in Calls /\ e \in EventIds
    BY <1>0 DEF EventIds
  <2>3. After(k + 1) = Recording(q, cs[k + 1])
    BY <2>2, Recorded!FoldPrefix
  <2>4. {IdOf[cs[i]] : i \in 1..(k + 1)} = {IdOf[cs[i]] : i \in 1..k} \cup {e}
    <3>1. \A i \in 1..(k + 1) : i \in 1..k \/ i = k + 1
      OBVIOUS
    <3>2. 1..k \subseteq 1..(k + 1) /\ k + 1 \in 1..(k + 1)
      OBVIOUS
    <3> QED
      BY <3>1, <3>2
  <2> HIDE DEF q, e
  <2>5. CASE e \in Range(q)
    BY <2>1, <2>3, <2>4, <2>5 DEF Recording, e
  <2>6. CASE e \notin Range(q)
    <3>1. After(k + 1) = Append(q, e)
      BY <2>3, <2>6 DEF Recording, e
    <3>2. /\ Append(q, e) \in Seq(EventIds) /\ OneToOne(Append(q, e))
          /\ Range(Append(q, e)) = Range(q) \cup {e}
      BY <2>1, <2>2, <2>6, AppendNew
    <3> HIDE DEF After
    <3> QED
      BY <2>1, <2>4, <3>1, <3>2
  <2> QED
    BY <2>5, <2>6
<1> HIDE DEF T
<1>3. Len(cs) \in T
  BY <1>0, <1>1, <1>2, Recorded!Induction
<1>4. After(Len(cs)) = Recorded!Fold(l, cs)
  BY Recorded!FoldPrefix
<1> QED
  BY <1>0, <1>3, <1>4 DEF T, Bringing

-----------------------------------------------------------------------------
\* The queue: its invariant, and its steps one by one.

\* What a handler is told by the log; the handlers that wait for it.
Told == {"fresh", "duplicate"}
Applies == {c \in Calls : handler[c] = "applying"}

QueueTyped ==
    /\ handler \in [Calls -> {"none", "checked", "applying", "shed", "fresh", "duplicate"}]
    /\ result \in [Calls -> {"none", "fresh", "duplicate"}]
    /\ loop \in {"select", "drain", "reply"}
    /\ asked \subseteq Queries
    /\ log \in Seq(EventIds) /\ OneToOne(log)

\* The writes of the handlers that wait are in the queue, before it or in the
\* batch, each in one place and once.
InOnePlace ==
    /\ queue \in Seq(Calls) /\ blocked \in Seq(Calls) /\ batch \in Seq(Calls)
    /\ OneToOne(queue) /\ OneToOne(blocked) /\ OneToOne(batch)
    /\ Range(queue) \cap Range(blocked) = {}
    /\ Range(queue) \cap Range(batch) = {}
    /\ Range(blocked) \cap Range(batch) = {}
    /\ Range(queue) \cup Range(blocked) \cup Range(batch) = Applies

\* The channel and the batch stay within their sizes, and a handler waits only in
\* front of a full channel.
Bounded ==
    /\ Len(queue) <= QueueCap /\ Len(batch) <= BatchMax
    /\ blocked # <<>> => Len(queue) = QueueCap
    /\ loop = "select" <=> batch = <<>>

\* The log has spoken on a write once its batch is appended, and then holds its event.
Spoken ==
    \A c \in Calls :
        /\ result[c] = "none" <=> handler[c] \notin Told /\ ~(loop = "reply" /\ c \in Range(batch))
        /\ handler[c] \in Told => result[c] = handler[c]
        /\ result[c] # "none" => IdOf[c] \in Range(log)

\* The aggregate lags behind the log by the fresh events of a batch under way.
Owed == IF loop = "reply" THEN {IdOf[c] : c \in {d \in Range(batch) : result[d] = "fresh"}} ELSE {}
Counting == Range(log) = counted \cup Owed

QueueInv == QueueTyped /\ InOnePlace /\ Bounded /\ Spoken /\ Counting

\* The sizes are numbers, and a batch takes one write at least.
LEMMA QueueConstants == QueueCap \in Nat /\ BatchMax \in Nat /\ BatchMax >= 1
  BY QueueAssumption

\* The shed check touches the handler alone.
LEMMA CheckKeeps ==
  ASSUME QueueInv, NEW c \in Calls, CheckShedding(c)
  PROVE  QueueInv'
<1> USE DEF QueueInv
<1>1. /\ UNCHANGED <<queue, blocked, loop, batch, result, log, counted, asked, read>>
      /\ handler[c] = "none"
      /\ \E h \in {"shed", "checked"} : handler' = [handler EXCEPT ![c] = h]
  BY DEF CheckShedding
<1>2. QueueTyped'
  BY <1>1 DEF QueueTyped
<1>3. Applies' = Applies
  BY <1>1 DEF QueueTyped, Applies
<1>4. InOnePlace' /\ Bounded' /\ Counting'
  BY <1>1, <1>3 DEF InOnePlace, Bounded, Counting, Owed
<1>5. Spoken'
  BY <1>1 DEF QueueTyped, Spoken, Told
<1> QED
  BY <1>2, <1>4, <1>5

\* A handler joins the channel, or those in front of it.
LEMMA ApplyKeeps ==
  ASSUME QueueInv, NEW c \in Calls, Apply(c)
  PROVE  QueueInv'
<1> USE DEF QueueInv
<1>1. /\ UNCHANGED <<loop, batch, result, log, counted, asked, read>>
      /\ handler[c] = "checked" /\ handler' = [handler EXCEPT ![c] = "applying"]
      /\ \/ Len(queue) < QueueCap /\ queue' = Append(queue, c) /\ blocked' = blocked
         \/ ~(Len(queue) < QueueCap) /\ blocked' = Append(blocked, c) /\ queue' = queue
  BY DEF Apply
<1>2. QueueTyped'
  BY <1>1 DEF QueueTyped
<1>3. Applies' = Applies \cup {c} /\ c \notin Applies
  BY <1>1 DEF QueueTyped, Applies
<1>4. c \notin Range(queue) /\ c \notin Range(blocked) /\ c \notin Range(batch)
  BY <1>3 DEF InOnePlace
<1>5. /\ queue \in Seq(Calls) /\ blocked \in Seq(Calls) /\ Len(queue) \in Nat
      /\ OneToOne(queue) /\ OneToOne(blocked)
  BY DEF InOnePlace
<1>6. /\ Append(queue, c) \in Seq(Calls) /\ OneToOne(Append(queue, c))
      /\ Range(Append(queue, c)) = Range(queue) \cup {c} /\ Len(Append(queue, c)) = Len(queue) + 1
  BY <1>4, <1>5, AppendNew
<1>7. /\ Append(blocked, c) \in Seq(Calls) /\ OneToOne(Append(blocked, c))
      /\ Range(Append(blocked, c)) = Range(blocked) \cup {c}
  BY <1>4, <1>5, AppendNew
<1>8. InOnePlace'
  <2>1. CASE queue' = Append(queue, c) /\ blocked' = blocked
    BY <1>1, <1>3, <1>4, <1>6, <2>1 DEF InOnePlace
  <2>2. CASE blocked' = Append(blocked, c) /\ queue' = queue
    BY <1>1, <1>3, <1>4, <1>7, <2>2 DEF InOnePlace
  <2> QED
    BY <1>1, <2>1, <2>2
<1>9. Bounded'
  <2>1. CASE Len(queue) < QueueCap /\ queue' = Append(queue, c) /\ blocked' = blocked
    BY <1>1, <1>5, <1>6, <2>1, QueueConstants DEF Bounded
  <2>2. CASE ~(Len(queue) < QueueCap) /\ blocked' = Append(blocked, c) /\ queue' = queue
    BY <1>1, <1>5, <2>2, QueueConstants DEF Bounded
  <2> QED
    BY <1>1, <2>1, <2>2
<1>10. Spoken' /\ Counting'
  BY <1>1, <1>2, <1>4 DEF QueueTyped, Spoken, Told, Counting, Owed
<1> QED
  BY <1>2, <1>8, <1>9, <1>10

\* A write moves from the channel to the batch, and the first of the blocked handlers
\* into the channel.
LEMMA TakeKeeps ==
  ASSUME QueueInv, Take, Len(batch) < BatchMax
  PROVE  InOnePlace' /\ Len(queue') <= QueueCap /\ Len(batch') <= BatchMax /\ batch' # <<>>
         /\ (blocked' # <<>> => Len(queue') = QueueCap)
<1> USE DEF QueueInv
<1> DEFINE h == Head(queue)
           b == Head(blocked)
<1>1. /\ UNCHANGED <<handler, result, log, counted, asked, read>>
      /\ queue # <<>> /\ batch' = Append(batch, h)
      /\ queue' = IF blocked = <<>> THEN Tail(queue) ELSE Append(Tail(queue), b)
      /\ blocked' = IF blocked = <<>> THEN <<>> ELSE Tail(blocked)
  BY DEF Take
<1>2. /\ queue \in Seq(Calls) /\ blocked \in Seq(Calls) /\ batch \in Seq(Calls)
      /\ Len(queue) \in Nat /\ Len(batch) \in Nat
      /\ OneToOne(queue) /\ OneToOne(blocked) /\ OneToOne(batch)
      /\ Range(queue) \cap Range(blocked) = {} /\ Range(queue) \cap Range(batch) = {}
      /\ Range(blocked) \cap Range(batch) = {}
      /\ Range(queue) \cup Range(blocked) \cup Range(batch) = Applies
      /\ Len(queue) <= QueueCap
  BY DEF InOnePlace, Bounded
<1>3. /\ Tail(queue) \in Seq(Calls) /\ Len(Tail(queue)) = Len(queue) - 1
      /\ h \in Calls /\ Range(queue) = Range(Tail(queue)) \cup {h}
      /\ OneToOne(Tail(queue)) /\ h \notin Range(Tail(queue)) /\ h \in Range(queue)
  BY <1>1, <1>2, TailOf
<1>4. /\ batch' \in Seq(Calls) /\ Len(batch') = Len(batch) + 1 /\ batch' # <<>>
      /\ Range(batch') = Range(batch) \cup {h} /\ OneToOne(batch')
  <2>1. h \notin Range(batch)
    BY <1>2, <1>3
  <2> HIDE DEF h
  <2> QED
    BY <1>1, <1>2, <1>3, <2>1, AppendNew
<1>5. Len(batch') <= BatchMax
  BY <1>2, <1>4, QueueConstants
<1>6. Applies' = Applies
  BY <1>1 DEF Applies
<1>7. CASE blocked = <<>>
  <2>1. queue' = Tail(queue) /\ blocked' = blocked
    BY <1>1, <1>7
  <2>2. InOnePlace'
    BY <1>2, <1>3, <1>4, <1>6, <2>1 DEF InOnePlace
  <2>3. Len(queue') <= QueueCap
    BY <1>2, <1>3, <2>1, QueueConstants
  <2> QED
    BY <1>4, <1>5, <1>7, <2>1, <2>2, <2>3
<1>8. CASE blocked # <<>>
  <2>1. queue' = Append(Tail(queue), b) /\ blocked' = Tail(blocked)
    BY <1>1, <1>8
  <2>2. /\ Tail(blocked) \in Seq(Calls) /\ b \in Calls
        /\ Range(blocked) = Range(Tail(blocked)) \cup {b} /\ b \in Range(blocked)
        /\ OneToOne(Tail(blocked)) /\ b \notin Range(Tail(blocked))
    BY <1>2, <1>8, TailOf
  <2>3. b \notin Range(Tail(queue))
    BY <1>2, <1>3, <2>2
  <2> HIDE DEF b, h
  <2>4. /\ Append(Tail(queue), b) \in Seq(Calls) /\ OneToOne(Append(Tail(queue), b))
        /\ Range(Append(Tail(queue), b)) = Range(Tail(queue)) \cup {b}
        /\ Len(Append(Tail(queue), b)) = Len(Tail(queue)) + 1
    <3> DEFINE t == Tail(queue)
    <3>1. t \in Seq(Calls) /\ OneToOne(t) /\ b \in Calls /\ b \notin Range(t)
      BY <1>3, <2>2, <2>3
    <3> HIDE DEF t
    <3>2. /\ Append(t, b) \in Seq(Calls) /\ OneToOne(Append(t, b))
          /\ Range(Append(t, b)) = Range(t) \cup {b} /\ Len(Append(t, b)) = Len(t) + 1
      BY <3>1, AppendNew
    <3> QED
      BY <3>2 DEF t
  <2>5. InOnePlace'
    <3>1. /\ queue' \in Seq(Calls) /\ blocked' \in Seq(Calls) /\ batch' \in Seq(Calls)
          /\ OneToOne(queue') /\ OneToOne(blocked') /\ OneToOne(batch')
      BY <1>4, <2>1, <2>2, <2>4
    <3>2. /\ Range(queue') = Range(Tail(queue)) \cup {b} /\ Range(blocked') = Range(Tail(blocked))
          /\ Range(batch') = Range(batch) \cup {h}
      BY <1>4, <2>1, <2>4
    <3>3. /\ Range(queue') \cap Range(blocked') = {} /\ Range(queue') \cap Range(batch') = {}
          /\ Range(blocked') \cap Range(batch') = {}
          /\ Range(queue') \cup Range(blocked') \cup Range(batch') = Applies
      BY <1>2, <1>3, <2>2, <2>3, <3>2
    <3> QED
      BY <1>6, <3>1, <3>3 DEF InOnePlace
  <2>6. Len(queue) = QueueCap
    BY <1>8 DEF Bounded
  <2>7. Len(queue') = QueueCap
    BY <1>2, <1>3, <2>1, <2>4, <2>6, QueueConstants
  <2> QED
    BY <1>4, <1>5, <2>5, <2>7, QueueConstants
<1> QED
  BY <1>7, <1>8

\* An event that a batch brings has a first call that brings it.
LEMMA FirstBringer ==
  ASSUME NEW cs \in Seq(Calls), NEW x \in Bringing(cs)
  PROVE  \E i \in 1..Len(cs) : IdOf[cs[i]] = x /\ \A j \in 1..(i - 1) : IdOf[cs[j]] # x
<1> DEFINE First(i) == IdOf[cs[i]] = x /\ \A j \in 1..(i - 1) : IdOf[cs[j]] # x
           T == {n \in Nat : (\E i \in 1..n : IdOf[cs[i]] = x) => \E i \in 1..n : First(i)}
<1>1. 0 \in T
  OBVIOUS
<1>2. ASSUME NEW n \in Nat, n \in T PROVE n + 1 \in T
  <2> SUFFICES ASSUME \E i \in 1..(n + 1) : IdOf[cs[i]] = x
               PROVE  \E i \in 1..(n + 1) : First(i)
    OBVIOUS
  <2>1. /\ \A i \in 1..(n + 1) : i \in 1..n \/ i = n + 1
        /\ 1..n \subseteq 1..(n + 1) /\ n + 1 \in 1..(n + 1) /\ (n + 1) - 1 = n
    OBVIOUS
  <2>2. CASE \E i \in 1..n : IdOf[cs[i]] = x
    <3>1. PICK i \in 1..n : First(i)
      BY <1>2, <2>2
    <3> HIDE DEF First
    <3> QED
      BY <2>1, <3>1
  <2>3. CASE ~\E i \in 1..n : IdOf[cs[i]] = x
    <3>1. First(n + 1)
      BY <2>1, <2>3
    <3> HIDE DEF First
    <3> QED
      BY <2>1, <3>1
  <2> QED
    BY <2>2, <2>3
<1>3. Len(cs) \in Nat /\ \E i \in 1..Len(cs) : IdOf[cs[i]] = x
  BY DEF Bringing
<1> HIDE DEF T
<1>4. Len(cs) \in T
  BY <1>1, <1>2, <1>3, Recorded!Induction
<1> QED
  BY <1>3, <1>4 DEF T

\* The log speaks on every write of the batch, and holds the events of all.
LEMMA CommitKeeps ==
  ASSUME QueueInv, Commit
  PROVE  QueueInv'
<1> USE DEF QueueInv
<1> DEFINE told(c) == IF \E i \in Firsts(batch) : batch[i] = c THEN "fresh" ELSE "duplicate"
<1>1. /\ UNCHANGED <<handler, queue, blocked, batch, counted, asked, read>>
      /\ loop = "drain" /\ loop' = "reply"
      /\ log' = Recorded!Fold(log, batch)
      /\ result' = [c \in Calls |-> IF c \notin Range(batch) THEN result[c] ELSE told(c)]
  BY BatchIsFold DEF Commit
<1>2. batch \in Seq(Calls) /\ log \in Seq(EventIds) /\ OneToOne(log)
  BY DEF InOnePlace, QueueTyped
<1>3. /\ log' \in Seq(EventIds) /\ OneToOne(log')
      /\ Range(log') = Range(log) \cup Bringing(batch)
  BY <1>1, <1>2, RecordedIs
<1>4. \A c \in Calls : told(c) \in Told
  BY DEF Told
<1>5. QueueTyped'
  <2> HIDE DEF told
  <2>1. result' \in [Calls -> {"none", "fresh", "duplicate"}]
    BY <1>1, <1>4 DEF QueueTyped, Told
  <2> QED
    BY <1>1, <1>3, <2>1 DEF QueueTyped
<1>6. Applies' = Applies
  BY <1>1 DEF Applies
<1>7. InOnePlace' /\ Bounded'
  BY <1>1, <1>6 DEF InOnePlace, Bounded
<1>8. Spoken'
  <2> SUFFICES ASSUME NEW c \in Calls
               PROVE  /\ result'[c] = "none" <=> handler[c] \notin Told /\ c \notin Range(batch)
                      /\ handler[c] \in Told => result'[c] = handler[c]
                      /\ result'[c] # "none" => IdOf[c] \in Range(log')
    BY <1>1 DEF Spoken
  <2>1. CASE c \in Range(batch)
    <3>1. IdOf[c] \in Range(log')
      BY <1>2, <1>3, <2>1, RangeIs DEF Bringing
    <3>2. handler[c] = "applying"
      BY <2>1 DEF InOnePlace, Applies
    <3>3. result'[c] = told(c)
      BY <1>1, <2>1
    <3> HIDE DEF told
    <3> QED
      BY <1>4, <2>1, <3>1, <3>2, <3>3 DEF Told
  <2>2. CASE c \notin Range(batch)
    <3>1. result'[c] = result[c]
      BY <1>1, <2>2
    <3> HIDE DEF told
    <3> QED
      BY <1>1, <1>3, <2>2, <3>1 DEF Spoken
  <2> QED
    BY <2>1, <2>2
<1>9. Counting'
  <2>1. Range(log) = counted
    BY <1>1 DEF Counting, Owed
  <2>2. ASSUME NEW x \in Bringing(batch), x \notin Range(log)
        PROVE  \E c \in Range(batch) : result'[c] = "fresh" /\ IdOf[c] = x
    <3>1. PICK i \in 1..Len(batch) :
                 IdOf[batch[i]] = x /\ \A j \in 1..(i - 1) : IdOf[batch[j]] # x
      BY <1>2, FirstBringer
    <3>2. DOMAIN batch = 1..Len(batch) /\ batch[i] \in Calls /\ batch[i] \in Range(batch)
      BY <1>2 DEF Range
    <3>3. i \in Firsts(batch)
      BY <2>2, <3>1, <3>2 DEF Firsts
    <3>4. result'[batch[i]] = "fresh"
      BY <1>1, <3>2, <3>3
    <3> QED
      BY <3>1, <3>2, <3>4
  <2>3. ASSUME NEW c \in Range(batch) PROVE IdOf[c] \in Bringing(batch)
    BY <1>2, RangeIs DEF Bringing
  <2>4. Owed' = {IdOf[c] : c \in {d \in Range(batch) : result'[d] = "fresh"}}
    BY <1>1 DEF Owed
  <2>5. Owed' \subseteq Bringing(batch) /\ Bringing(batch) \subseteq Range(log) \cup Owed'
    <3> HIDE DEF told
    <3> QED
      BY <2>2, <2>3, <2>4
  <2>6. Range(log') = counted \cup Owed' /\ counted' = counted
    BY <1>1, <1>3, <2>1, <2>5
  <2> QED
    BY <2>6 DEF Counting
<1> QED
  BY <1>5, <1>7, <1>8, <1>9

\* The first write of the batch is counted if it is fresh, and its handler is told.
LEMMA ReplyKeeps ==
  ASSUME QueueInv, Reply
  PROVE  QueueInv'
<1> USE DEF QueueInv
<1> DEFINE c == Head(batch)
           rest == Tail(batch)
<1>1. /\ UNCHANGED <<queue, blocked, result, log, asked, read>>
      /\ loop = "reply" /\ batch' = rest
      /\ handler' = [handler EXCEPT ![c] = result[c]]
      /\ counted' = IF result[c] = "fresh" THEN counted \cup {IdOf[c]} ELSE counted
      /\ loop' = IF Len(batch) = 1 THEN "select" ELSE "reply"
  BY DEF Reply, Counts
<1>2. batch \in Seq(Calls) /\ OneToOne(batch) /\ batch # <<>> /\ Len(batch) \in Nat
  BY <1>1 DEF InOnePlace, Bounded
<1>3. /\ rest \in Seq(Calls) /\ Len(rest) = Len(batch) - 1 /\ Len(batch) >= 1 /\ Len(rest) \in Nat
      /\ c \in Calls /\ Range(batch) = Range(rest) \cup {c} /\ c \in Range(batch)
      /\ OneToOne(rest) /\ c \notin Range(rest)
  BY <1>2, TailOf
<1> HIDE DEF c, rest
<1>4. Len(batch) = 1 <=> rest = <<>>
  <2>1. \A n, m \in Nat : m = n - 1 => (n = 1 <=> m = 0)
    OBVIOUS
  <2>2. Len(rest) = 0 <=> rest = <<>>
    BY <1>3
  <2> QED
    BY <1>2, <1>3, <2>1, <2>2
<1>5. loop' = "select" => Range(rest) = {}
  <2>1. loop' = "select" => Len(rest) = 0
    BY <1>1, <1>3
  <2> QED
    BY <1>3, <2>1, NothingIn
<1>6. handler[c] = "applying" /\ c \notin Range(queue) /\ c \notin Range(blocked)
  BY <1>3 DEF InOnePlace, Applies
<1>7. result[c] \in Told /\ IdOf[c] \in Range(log)
  BY <1>1, <1>3 DEF Spoken, QueueTyped, Told
<1>8. QueueTyped'
  BY <1>1, <1>3, <1>7 DEF QueueTyped, Told
<1>9. Applies' = Applies \ {c}
  BY <1>1, <1>3, <1>7 DEF Applies, QueueTyped, Told
<1>10. InOnePlace'
  BY <1>1, <1>3, <1>6, <1>9 DEF InOnePlace
<1>11. Bounded'
  <2>1. Len(batch') <= BatchMax
    BY <1>1, <1>2, <1>3, QueueConstants DEF Bounded
  <2>2. loop' = "select" <=> batch' = <<>>
    BY <1>1, <1>4
  <2> QED
    BY <1>1, <2>1, <2>2 DEF Bounded
<1>12. Spoken'
  <2> SUFFICES ASSUME NEW d \in Calls
               PROVE  /\ result[d] = "none" <=>
                           handler'[d] \notin Told /\ ~(loop' = "reply" /\ d \in Range(rest))
                      /\ handler'[d] \in Told => result[d] = handler'[d]
                      /\ result[d] # "none" => IdOf[d] \in Range(log)
    BY <1>1 DEF Spoken
  <2>1. CASE d = c
    BY <1>1, <1>3, <1>7, <2>1 DEF QueueTyped, Told
  <2>2. CASE d # c
    <3>1. handler'[d] = handler[d] /\ (d \in Range(rest) <=> d \in Range(batch))
      BY <1>1, <1>3, <2>2 DEF QueueTyped
    <3>2. loop' = "reply" \/ Range(rest) = {}
      BY <1>1, <1>5
    <3> QED
      BY <1>1, <3>1, <3>2 DEF Spoken
  <2> QED
    BY <2>1, <2>2
<1>13. Counting'
  <2>1. Owed = {IdOf[d] : d \in {e \in Range(batch) : result[e] = "fresh"}}
    BY <1>1 DEF Owed
  <2>2. Owed' = {IdOf[d] : d \in {e \in Range(rest) : result[e] = "fresh"}}
    BY <1>1, <1>5 DEF Owed
  <2>3. counted' \cup Owed' = counted \cup Owed
    BY <1>1, <1>3, <2>1, <2>2
  <2> QED
    BY <1>1, <2>3 DEF Counting
<1> QED
  BY <1>8, <1>10, <1>11, <1>12, <1>13

\* select and the drain loop take a write, while there is room in the batch.
LEMMA TakingKeeps ==
  ASSUME QueueInv, Select \/ Drain
  PROVE  QueueInv'
<1>1. /\ Take /\ loop' = "drain" /\ loop # "reply" /\ Len(batch) < BatchMax
  <2>1. CASE Select
    <3>1. Take /\ loop = "select" /\ loop' = "drain"
      BY <2>1 DEF Select
    <3>2. batch = <<>>
      BY <3>1 DEF QueueInv, Bounded
    <3> QED
      BY <3>1, <3>2, QueueConstants
  <2>2. CASE Drain
    BY <2>2 DEF Drain
  <2> QED
    BY <2>1, <2>2
<1>2. InOnePlace' /\ Len(queue') <= QueueCap /\ Len(batch') <= BatchMax /\ batch' # <<>>
      /\ (blocked' # <<>> => Len(queue') = QueueCap)
  BY <1>1, TakeKeeps
<1>3. UNCHANGED <<handler, result, log, counted, asked, read>>
  BY <1>1 DEF Take
<1>4. QueueTyped' /\ Bounded' /\ Spoken' /\ Counting'
  BY <1>1, <1>2, <1>3 DEF QueueInv, QueueTyped, Bounded, Spoken, Counting, Owed
<1> QED
  BY <1>2, <1>4 DEF QueueInv

\* Queries change nothing that writes depend on.
LEMMA AskingKeeps ==
  ASSUME QueueInv, NEW q \in Queries, Query(q) \/ ServeQuery(q)
  PROVE  QueueInv'
<1>1. /\ UNCHANGED <<handler, queue, blocked, loop, batch, result, log, counted>>
      /\ asked' \in {asked \cup {q}, asked \ {q}}
  BY DEF Query, ServeQuery
<1> QED
  BY <1>1 DEF QueueInv, QueueTyped, InOnePlace, Applies, Bounded, Spoken, Counting, Owed

\* Nothing waits at the start.
LEMMA QueueStarts == QueueInit => QueueInv
<1> SUFFICES ASSUME QueueInit PROVE QueueInv
  OBVIOUS
<1>1. /\ handler = [c \in Calls |-> "none"]
      /\ queue = <<>> /\ blocked = <<>> /\ loop = "select" /\ batch = <<>>
      /\ result = [c \in Calls |-> "none"] /\ log = <<>> /\ counted = {} /\ asked = {}
  BY DEF QueueInit
<1>2. \A S : <<>> \in Seq(S) /\ Len(<<>>) = 0
  OBVIOUS
<1>3. OneToOne(<<>>) /\ Range(<<>>) = {}
  BY <1>2, NothingIn
<1>4. Applies = {}
  BY <1>1 DEF Applies
<1>5. QueueTyped /\ InOnePlace
  BY <1>1, <1>2, <1>3, <1>4 DEF QueueTyped, InOnePlace
<1>6. Bounded
  BY <1>1, <1>2, QueueConstants DEF Bounded
<1>7. Spoken /\ Counting
  BY <1>1, <1>3 DEF Spoken, Counting, Owed, Told
<1> QED
  BY <1>5, <1>6, <1>7 DEF QueueInv

\* Every step of the node keeps the queue's invariant.
LEMMA QueueKeeps ==
  ASSUME QueueInv, NodeStep \/ (\E c \in Calls : CheckShedding(c)) \/ UNCHANGED queueVars
  PROVE  QueueInv'
<1>1. CASE UNCHANGED queueVars
  BY <1>1 DEF queueVars, QueueInv, QueueTyped, InOnePlace, Applies, Bounded, Spoken, Counting, Owed
<1>2. CASE \E c \in Calls : CheckShedding(c)
  BY <1>2, CheckKeeps
<1>3. CASE NodeStep
  <2>1. CASE \E c \in Calls : Apply(c)
    BY <2>1, ApplyKeeps
  <2>2. CASE Select \/ Drain
    BY <2>2, TakingKeeps
  <2>3. CASE Commit
    BY <2>3, CommitKeeps
  <2>4. CASE Reply
    BY <2>4, ReplyKeeps
  <2>5. CASE \E q \in Queries : Query(q) \/ ServeQuery(q)
    BY <2>5, AskingKeeps
  <2> QED
    BY <1>3, <2>1, <2>2, <2>3, <2>4, <2>5 DEF NodeStep
<1> QED
  BY <1>1, <1>2, <1>3

\* The invariant implies the type invariant: the places, put end to end, hold every
\* waiting write once.
LEMMA QueueIsTyped == QueueInv => QueueTypeOK
<1> SUFFICES ASSUME QueueInv PROVE QueueTypeOK
  OBVIOUS
<1> USE DEF QueueInv
<1> DEFINE qb == queue \o blocked
           all == queue \o blocked \o batch
<1>1. /\ queue \in Seq(Calls) /\ blocked \in Seq(Calls) /\ batch \in Seq(Calls)
      /\ OneToOne(queue) /\ OneToOne(blocked) /\ OneToOne(batch)
      /\ Range(queue) \cap Range(blocked) = {}
      /\ Range(queue) \cap Range(batch) = {}
      /\ Range(blocked) \cap Range(batch) = {}
      /\ Range(queue) \cup Range(blocked) \cup Range(batch) = Applies
  BY DEF InOnePlace
<1>2. qb \in Seq(Calls) /\ Range(qb) = Range(queue) \cup Range(blocked) /\ OneToOne(qb)
  BY <1>1, JoinOf
<1>3. all = qb \o batch
  OBVIOUS
<1> HIDE DEF qb, all
<1>4. all \in Seq(Calls) /\ Range(all) = Applies /\ OneToOne(all)
  <2>1. Range(qb) \cap Range(batch) = {}
    BY <1>1, <1>2
  <2>2. /\ qb \o batch \in Seq(Calls) /\ OneToOne(qb \o batch)
        /\ Range(qb \o batch) = Range(qb) \cup Range(batch)
    BY <1>1, <1>2, <2>1, JoinOf
  <2> QED
    BY <1>1, <1>2, <1>3, <2>2
<1>5. Cardinality(Range(all)) = Len(all)
  BY <1>4, CountOf
<1>6. Cardinality(Range(queue \o blocked \o batch)) = Len(queue \o blocked \o batch)
      /\ Range(queue \o blocked \o batch) = {c \in Calls : handler[c] = "applying"}
  BY <1>4, <1>5 DEF all, Applies
<1> QED
  BY <1>6 DEF QueueTypeOK, QueueTyped, Bounded

-----------------------------------------------------------------------------
\* The gateway.

\* The gateway's part: a client that has been told "ok" has its event in the log.
Stages == {"new", "limiting", "posting", "busy", "limited", "ok", "error"}

GatewayInv ==
    /\ stage \in [Requests -> Stages]
    /\ attempt \in [Requests -> 0..2]
    /\ held \in [Requests -> Buckets \cup {NoBucket, Missing}]
    /\ Cardinality(Slots) <= MaxInflight
    /\ \A r \in Requests :
         /\ held[r] # NoBucket => stage[r] = "limiting"
         /\ stage[r] = "posting" => attempt[r] \in {1, 2}
         /\ stage[r] = "ok" => IdOf[<<r, 1>>] \in Range(log)

\* The inductive invariant of the composition.
Inv == LimiterInv /\ QueueInv /\ GatewayInv

\* What is counted of a finite set of requests.
LEMMA SlotsOf ==
  ASSUME NEW S \in SUBSET Requests
  PROVE  /\ IsFiniteSet(S) /\ Cardinality(S) \in Nat
         /\ \A T \in SUBSET S : Cardinality(T) <= Cardinality(S)
         /\ \A r : r \notin S => Cardinality(S \cup {r}) = Cardinality(S) + 1
<1>1. IsFiniteSet(S)
  BY RateLimitAssumption, FS_Subset
<1>2. \A T \in SUBSET S : Cardinality(T) <= Cardinality(S)
  BY <1>1, FS_Subset
<1>3. \A r : r \notin S => Cardinality(S \cup {r}) = Cardinality(S) + 1
  BY <1>1, FS_AddElement
<1> QED
  BY <1>1, <1>2, <1>3, FS_CardinalityType

\* Requests leave their slots, or stay.
LEMMA SlotsFreed ==
  ASSUME Slots' \subseteq Slots, Cardinality(Slots) <= MaxInflight
  PROVE  Cardinality(Slots') <= MaxInflight
<1>1. Slots \in SUBSET Requests /\ Slots' \in SUBSET Requests
  BY DEF Slots
<1> DEFINE S == Slots
           T == Slots'
<1>2. Cardinality(T) <= Cardinality(S) /\ Cardinality(S) \in Nat /\ Cardinality(T) \in Nat
  <2>1. T \in SUBSET S /\ S \in SUBSET Requests /\ T \in SUBSET Requests
    BY <1>1
  <2> HIDE DEF S, T
  <2> QED
    BY <2>1, SlotsOf
<1> QED
  BY <1>2, OverloadAssumption

\* No event leaves the log.
LEMMA LogGrows ==
  ASSUME QueueInv, NodeStep \/ (\E c \in Calls : CheckShedding(c)) \/ UNCHANGED queueVars
  PROVE  Range(log) \subseteq Range(log')
<1>1. CASE Commit
  <2>1. batch \in Seq(Calls) /\ log \in Seq(EventIds) /\ OneToOne(log)
    BY DEF QueueInv, InOnePlace, QueueTyped
  <2>2. log' = Recorded!Fold(log, batch)
    BY <1>1, BatchIsFold DEF Commit
  <2> QED
    BY <2>1, <2>2, RecordedIs
<1>2. CASE ~Commit
  <2>1. log' = log
    BY <1>2 DEF NodeStep, Apply, Select, Drain, Take, Reply, Query, ServeQuery, CheckShedding,
                queueVars
  <2> QED
    BY <2>1
<1> QED
  BY <1>1, <1>2

\* To the limiter every step is its own or none.
LEMMA LimiterTaken == [Next]_vars => [LimiterNext]_limiterVars
  BY DEF Next, vars, Enter, Limit, Answered, GiveUp, Arrive, Limiter, Node, LimiterNext

\* To the node every step is its own, the shed check of a call, or none.
LEMMA QueueTaken ==
  [Next]_vars => NodeStep \/ (\E c \in Calls : CheckShedding(c)) \/ UNCHANGED queueVars
  BY DEF Next, vars, Enter, Limit, Answered, GiveUp, Arrive, Limiter, Node

\* A slot is taken only when there is one.
LEMMA EnterKeeps ==
  ASSUME Inv, NEW r \in Requests, Enter(r)
  PROVE  GatewayInv'
<1> USE DEF Inv
<1>1. /\ stage[r] = "new" /\ UNCHANGED <<limiterVars, queueVars, attempt>>
      /\ stage' = [stage EXCEPT ![r] =
            IF Cardinality(Slots) < MaxInflight THEN "limiting" ELSE "busy"]
  BY DEF Enter
<1>2. /\ stage' \in [Requests -> Stages]
      /\ \A s \in Requests : s # r => stage'[s] = stage[s]
      /\ stage'[r] = IF Cardinality(Slots) < MaxInflight THEN "limiting" ELSE "busy"
  BY <1>1 DEF GatewayInv, Stages
<1>3. held' = held /\ log' = log
  BY <1>1 DEF limiterVars, queueVars
<1>4. Cardinality(Slots') <= MaxInflight
  <2>1. CASE Cardinality(Slots) < MaxInflight
    <3>1. Slots' = Slots \cup {r} /\ r \notin Slots
      BY <1>1, <1>2, <2>1 DEF Slots
    <3>2. Slots \in SUBSET Requests
      BY DEF Slots
    <3> DEFINE S == Slots
    <3>3. Cardinality(S \cup {r}) = Cardinality(S) + 1 /\ Cardinality(S) \in Nat
      <4> HIDE DEF S
      <4>1. S \in SUBSET Requests /\ r \notin S
        BY <3>1, <3>2 DEF S
      <4> QED
        BY <4>1, SlotsOf
    <3> QED
      BY <2>1, <3>1, <3>3, OverloadAssumption
  <2>2. CASE ~(Cardinality(Slots) < MaxInflight)
    <3>1. Slots' \subseteq Slots
      BY <1>1, <1>2, <2>2 DEF Slots
    <3> QED
      BY <3>1, SlotsFreed DEF GatewayInv
  <2> QED
    BY <2>1, <2>2
<1>5. \A s \in Requests :
         /\ held[s] # NoBucket => stage'[s] = "limiting"
         /\ stage'[s] = "posting" => attempt[s] \in {1, 2}
         /\ stage'[s] = "ok" => IdOf[<<s, 1>>] \in Range(log)
  BY <1>1, <1>2 DEF GatewayInv
<1> QED
  BY <1>1, <1>2, <1>3, <1>4, <1>5 DEF GatewayInv

\* A request is in the limiter until it is allowed or denied.
LEMMA LimitKeeps ==
  ASSUME Inv, NEW r \in Requests, Limit(r), LimiterInv'
  PROVE  GatewayInv'
<1> USE DEF Inv
<1>1. stage[r] = "limiting" /\ log' = log
  BY DEF Limit, queueVars
<1>2. /\ held \in [Requests -> Buckets \cup {NoBucket, Missing}]
      /\ held' \in [Requests -> Buckets \cup {NoBucket, Missing}]
  BY DEF LimiterInv, LimiterTypeOK
<1>3. CASE (Lookup(r) \/ Create(r)) /\ UNCHANGED gatewayVars
  <2>1. \A s \in Requests : s # r => held'[s] = held[s]
    BY <1>2, <1>3 DEF Lookup, Create
  <2>2. Slots' = Slots
    BY <1>3 DEF Slots, gatewayVars
  <2> QED
    BY <1>1, <1>2, <1>3, <2>1, <2>2 DEF GatewayInv, gatewayVars
<1>4. CASE Allow(r) \/ Deny(r)
  <2>1. \/ stage' = [stage EXCEPT ![r] = "posting"] /\ attempt' = [attempt EXCEPT ![r] = 1]
        \/ stage' = [stage EXCEPT ![r] = "limited"] /\ attempt' = attempt
        \/ UNCHANGED gatewayVars
    BY DEF Limit
  <2>2. held' = [held EXCEPT ![r] = NoBucket]
    BY <1>4 DEF Allow, Deny
  <2>3. /\ held'[r] = NoBucket
        /\ \A s \in Requests : s # r => held'[s] = held[s]
    BY <1>2, <2>2
  <2>4. /\ stage' \in [Requests -> Stages] /\ attempt' \in [Requests -> 0..2]
        /\ stage'[r] # "ok" /\ (stage'[r] = "posting" => attempt'[r] \in {1, 2})
        /\ \A s \in Requests : s # r => stage'[s] = stage[s] /\ attempt'[s] = attempt[s]
    BY <1>1, <2>1 DEF GatewayInv, Stages, gatewayVars
  <2>5. Slots' \subseteq Slots
    BY <1>1, <2>4 DEF Slots
  <2>6. Cardinality(Slots') <= MaxInflight
    BY <2>5, SlotsFreed DEF GatewayInv
  <2> QED
    BY <1>1, <1>2, <2>3, <2>4, <2>6 DEF GatewayInv
<1> QED
  BY <1>3, <1>4 DEF Limit

\* The answer to either attempt tells of the same event.
LEMMA AnsweredKeeps ==
  ASSUME Inv, NEW r \in Requests, Answered(r)
  PROVE  GatewayInv'
<1> USE DEF Inv
<1>1. /\ stage[r] = "posting" /\ UNCHANGED <<limiterVars, queueVars, attempt>>
      /\ stage' = [stage EXCEPT ![r] = IF Accepted(handler[Call(r)]) THEN "ok" ELSE "error"]
  BY DEF Answered
<1>2. held' = held /\ log' = log
  BY <1>1 DEF limiterVars, queueVars
<1>3. attempt[r] \in {1, 2}
  BY <1>1 DEF GatewayInv
<1>4. Call(r) \in Calls /\ IdOf[Call(r)] = IdOf[<<r, 1>>]
  BY <1>3, OverloadAssumption DEF Call
<1>5. Accepted(handler[Call(r)]) => IdOf[<<r, 1>>] \in Range(log)
  <2> SUFFICES ASSUME Accepted(handler[Call(r)]) PROVE IdOf[Call(r)] \in Range(log)
    BY <1>4
  <2> DEFINE c == Call(r)
  <2>1. c \in Calls /\ handler[c] \in Told
    BY <1>4 DEF Accepted, Told
  <2> HIDE DEF c
  <2>2. IdOf[c] \in Range(log)
    BY <2>1 DEF QueueInv, Spoken, Told
  <2> QED
    BY <2>2 DEF c
<1>6. /\ stage' \in [Requests -> Stages] /\ stage'[r] \in {"ok", "error"}
      /\ stage'[r] = "ok" => IdOf[<<r, 1>>] \in Range(log)
      /\ \A s \in Requests : s # r => stage'[s] = stage[s]
  BY <1>1, <1>5 DEF GatewayInv, Stages
<1>7. Slots' \subseteq Slots
  BY <1>6 DEF Slots
<1>8. Cardinality(Slots') <= MaxInflight
  BY <1>7, SlotsFreed DEF GatewayInv
<1> QED
  BY <1>1, <1>2, <1>6, <1>8 DEF GatewayInv

\* The call that is given up goes on by itself.
LEMMA GiveUpKeeps ==
  ASSUME Inv, NEW r \in Requests, GiveUp(r)
  PROVE  GatewayInv'
<1> USE DEF Inv
<1>1. /\ stage[r] = "posting" /\ UNCHANGED <<limiterVars, queueVars>>
      /\ \/ attempt' = [attempt EXCEPT ![r] = 2] /\ stage' = stage
         \/ stage' = [stage EXCEPT ![r] = "error"] /\ attempt' = attempt
  BY DEF GiveUp
<1>2. held' = held /\ log' = log
  BY <1>1 DEF limiterVars, queueVars
<1>3. /\ stage' \in [Requests -> Stages] /\ attempt' \in [Requests -> 0..2]
      /\ stage'[r] \in {"posting", "error"} /\ attempt'[r] \in {1, 2}
      /\ \A s \in Requests : s # r => stage'[s] = stage[s] /\ attempt'[s] = attempt[s]
  <2>1. /\ stage \in [Requests -> Stages] /\ attempt \in [Requests -> 0..2]
        /\ attempt[r] \in {1, 2}
    BY <1>1 DEF GatewayInv
  <2>2. CASE attempt' = [attempt EXCEPT ![r] = 2] /\ stage' = stage
    BY <1>1, <2>1, <2>2
  <2>3. CASE stage' = [stage EXCEPT ![r] = "error"] /\ attempt' = attempt
    BY <2>1, <2>3 DEF Stages
  <2> QED
    BY <1>1, <2>2, <2>3
<1>4. Slots' \subseteq Slots
  BY <1>1, <1>3 DEF Slots
<1>5. Cardinality(Slots') <= MaxInflight
  BY <1>4, SlotsFreed DEF GatewayInv
<1> QED
  BY <1>1, <1>2, <1>3, <1>5 DEF GatewayInv

\* A step of the node, of the sweep or of the clock, and a step of nobody.
LEMMA GatewayStays ==
  ASSUME Inv, LimiterInv', Range(log) \subseteq Range(log'), UNCHANGED <<gatewayVars, held>>
  PROVE  GatewayInv'
<1>1. UNCHANGED <<stage, attempt, held>>
  BY DEF gatewayVars
<1>2. Slots' = Slots
  BY <1>1 DEF Slots
<1> QED
  BY <1>1, <1>2 DEF Inv, GatewayInv

\* Nobody has entered at the start.
LEMMA Starts == Init => Inv
<1> SUFFICES ASSUME Init PROVE Inv
  OBVIOUS
<1>1. LimiterInv /\ QueueInv
  BY InitInv, QueueStarts DEF Init
<1>2. /\ stage = [r \in Requests |-> "new"] /\ attempt = [r \in Requests |-> 0]
      /\ held = [r \in Requests |-> NoBucket]
  BY DEF Init, LimiterInit
<1>3. Slots = {}
  BY <1>2 DEF Slots
<1>4. Cardinality(Slots) <= MaxInflight
  BY <1>3, FS_EmptySet, OverloadAssumption
<1> QED
  BY <1>1, <1>2, <1>4 DEF Inv, GatewayInv, Stages

\* Every step keeps the invariant of the composition.
LEMMA Keeps == Inv /\ [Next]_vars => Inv'
<1> SUFFICES ASSUME Inv, [Next]_vars PROVE Inv'
  OBVIOUS
<1>1. LimiterInv'
  BY LimiterTaken, NextInv DEF Inv
<1>2. QueueInv'
  BY QueueTaken, QueueKeeps DEF Inv
<1>3. Range(log) \subseteq Range(log')
  BY QueueTaken, LogGrows DEF Inv
<1>4. GatewayInv'
  <2>1. CASE \E r \in Requests : Enter(r) \/ Limit(r) \/ Answered(r) \/ GiveUp(r)
    BY <1>1, <2>1, EnterKeeps, LimitKeeps, AnsweredKeeps, GiveUpKeeps
  <2>2. CASE (\E c \in Calls : Arrive(c)) \/ Limiter \/ Node \/ UNCHANGED vars
    <3>1. UNCHANGED <<gatewayVars, held>>
      BY <2>2 DEF Arrive, Limiter, Node, Sweep, Tick, limiterVars, vars
    <3> QED
      BY <1>1, <1>3, <3>1, GatewayStays
  <2> QED
    BY <2>1, <2>2 DEF Next
<1> QED
  BY <1>1, <1>2, <1>4 DEF Inv

\* So it always holds.
LEMMA Holding == Spec => []Inv
  BY Starts, Keeps, PTL DEF Spec

\* Gateway, limiter and node keep their types under any load: the semaphore, the channel
\* and the batch their bounds, and every waiting handler its one place.
THEOREM TypeCorrect == Spec => []TypeOK
<1>1. Inv => TypeOK
  BY QueueIsTyped DEF Inv, LimiterInv, GatewayInv, Stages, TypeOK
<1> QED
  BY <1>1, Holding, PTL

\* A client that is told its event was accepted (handleEvent's 200) has it in the log
\* once, however its two attempts and other clients' calls were shed, queued and batched.
THEOREM OnceAccepted == Spec => []AcceptedOnce
<1>1. Inv => AcceptedOnce
  <2> SUFFICES ASSUME Inv, NEW r \in Requests, stage[r] = "ok"
               PROVE  Cardinality({i \in DOMAIN log : log[i] = IdOf[<<r, 1>>]}) = 1
    BY DEF AcceptedOnce
  <2>1. IdOf[<<r, 1>>] \in Range(log) /\ OneToOne(log)
    BY DEF Inv, GatewayInv, QueueInv, QueueTyped
  <2>2. PICK i \in DOMAIN log : log[i] = IdOf[<<r, 1>>]
    BY <2>1 DEF Range
  <2>3. {j \in DOMAIN log : log[j] = IdOf[<<r, 1>>]} = {i}
    BY <2>1, <2>2 DEF OneToOne
  <2> QED
    BY <2>3, FS_Singleton
<1> QED
  BY <1>1, Holding, PTL

\* The limiter's behaviour in the composition is one of its own behaviours.
LEMMA LimiterComposed == Spec => LimiterSpec
  BY LimiterTaken, PTL DEF Spec, Init, LimiterSpec

\* In the gateway, under any load on the node: the limiter admits no more than burst
\* and rate allow (but for strays), and denies only what would exceed them.
THEOREM RateUnderLoad == Spec => []RateKept /\ DeniesOnlyExcess
  BY LimiterComposed, LimiterKeepsRate, LimiterDeniesOnlyExcess

-----------------------------------------------------------------------------
\* The ledger.

\* The shed check is nothing to the ledger ...
LEMMA CheckingStutters ==
  ASSUME QueueInv, NEW c \in Calls, CheckShedding(c)
  PROVE  UNCHANGED Promise!ledgerVars
<1>1. /\ UNCHANGED <<queue, blocked, loop, batch, result, log, counted, asked, read>>
      /\ handler[c] = "none"
      /\ \E h \in {"shed", "checked"} : handler' = [handler EXCEPT ![c] = h]
  BY DEF CheckShedding
<1>2. Effect' = Effect
  BY <1>1 DEF Effect, QueueInv, QueueTyped
<1> QED
  BY <1>1, <1>2 DEF Promise!ledgerVars

\* ... and a write is submitted when its handler joins the queue.
LEMMA ApplySubmits ==
  ASSUME QueueInv, NEW c \in Calls, Apply(c)
  PROVE  Promise!Submit(c)
<1>1. /\ UNCHANGED <<loop, batch, result, log, counted, asked, read>>
      /\ handler[c] = "checked" /\ handler' = [handler EXCEPT ![c] = "applying"]
  BY DEF Apply
<1>2. c \notin Range(batch)
  BY <1>1 DEF QueueInv, InOnePlace, Applies
<1>3. result[c] = "none"
  BY <1>1, <1>2 DEF QueueInv, Spoken, Told
<1>4. Effect[c] = "none"
  BY <1>1 DEF Effect
<1>5. Effect' = [Effect EXCEPT ![c] = "pending"]
  BY <1>1, <1>3 DEF Effect, QueueInv, QueueTyped
<1> QED
  BY <1>1, <1>4, <1>5 DEF Promise!Submit

\* What the goroutine takes has no effect yet.
LEMMA TakingStutters ==
  ASSUME Select \/ Drain
  PROVE  UNCHANGED Promise!ledgerVars
  BY DEF Select, Drain, Take, Effect, Promise!ledgerVars

\* The reply tells what has already taken effect.
LEMMA ReplyStutters ==
  ASSUME QueueInv, Reply
  PROVE  UNCHANGED Promise!ledgerVars
<1> DEFINE c == Head(batch)
<1>1. /\ UNCHANGED <<result, log, asked, read>> /\ loop = "reply"
      /\ handler' = [handler EXCEPT ![c] = result[c]]
  BY DEF Reply
<1>2. batch \in Seq(Calls) /\ batch # <<>>
  BY <1>1 DEF QueueInv, InOnePlace, Bounded
<1>3. c \in Calls /\ c \in Range(batch)
  BY <1>2, TailOf
<1> HIDE DEF c
<1>4. handler[c] = "applying"
  BY <1>3 DEF QueueInv, InOnePlace, Applies
<1>5. result[c] \in Told
  BY <1>1, <1>3 DEF QueueInv, QueueTyped, Spoken, Told
<1>6. Effect' = Effect
  BY <1>1, <1>3, <1>4, <1>5 DEF Effect, QueueInv, QueueTyped, Told
<1> QED
  BY <1>1, <1>6 DEF Promise!ledgerVars

\* A query is under way from Query on ...
LEMMA QueryAsks ==
  ASSUME NEW q \in Queries, Query(q)
  PROVE  Promise!Ask(q)
  BY DEF Query, Promise!Ask, Effect

\* ... and reads the whole log: between batches the aggregate lags by nothing.
LEMMA ServingReads ==
  ASSUME QueueInv, NEW q \in Queries, ServeQuery(q)
  PROVE  Promise!Read(q)
<1>1. Range(log) = counted
  BY DEF QueueInv, Counting, Owed, ServeQuery
<1>2. Promise!Range(log) = counted
  BY <1>1 DEF Range, Promise!Range
<1> QED
  BY <1>2 DEF ServeQuery, Promise!Read, Effect

\* The ledger counts as this module does.
LEMMA CardinalityShared == \A S : Promise!Cardinality(S) = Cardinality(S)
  BY DEF Cardinality, Promise!Cardinality

\* A batch is an order of the set of its writes.
LEMMA BatchIsOrder ==
  ASSUME NEW s \in Seq(Calls), OneToOne(s)
  PROVE  s \in Promise!SetToSeqs(Range(s))
<1>1. Cardinality(Range(s)) = Len(s)
  BY CountOf
<1>2. s \in [1..Len(s) -> Range(s)]
  BY DEF Range
<1>3. \A i, j \in 1..Len(s) : i # j => s[i] # s[j]
  BY DEF OneToOne
<1> QED
  BY <1>1, <1>2, <1>3, CardinalityShared DEF Promise!SetToSeqs

\* All writes of a batch take effect together, in its order.
LEMMA CommitTakesEffect ==
  ASSUME QueueInv, Commit
  PROVE  /\ Range(batch) \in SUBSET Promise!Pending
         /\ Promise!TakeEffect(batch)
<1> DEFINE before(i) == Promise!FoldLeft(Promise!After, log, SubSeq(batch, 1, i - 1))
<1>1. /\ UNCHANGED <<handler, asked, read>> /\ loop = "drain"
      /\ log' = AppendBatch(log, batch)
      /\ result' = [c \in Calls |->
            IF c \notin Range(batch) THEN result[c]
            ELSE IF \E i \in Firsts(batch) : batch[i] = c THEN "fresh" ELSE "duplicate"]
  BY DEF Commit
<1>2. /\ batch \in Seq(Calls) /\ OneToOne(batch) /\ log \in Seq(EventIds) /\ OneToOne(log)
      /\ DOMAIN batch = 1..Len(batch) /\ Len(batch) \in Nat
  BY DEF QueueInv, InOnePlace, QueueTyped
<1>3. ASSUME NEW c \in Range(batch)
      PROVE  c \in Calls /\ handler[c] = "applying" /\ Effect[c] = "pending"
  <2>1. c \in Calls /\ handler[c] = "applying"
    BY DEF QueueInv, InOnePlace, Applies
  <2>2. result[c] = "none"
    BY <1>1, <2>1 DEF QueueInv, Spoken, Told
  <2> QED
    BY <2>1, <2>2 DEF Effect
<1>4. Range(batch) \in SUBSET Promise!Pending
  BY <1>3 DEF Promise!Pending
<1>5. log' = Promise!FoldLeft(Promise!After, log, batch)
  BY <1>1, BatchIsFold, EffectIsFold
<1>6. ASSUME NEW i \in 1..Len(batch)
      PROVE  Promise!Range(before(i)) = Range(log) \cup {IdOf[batch[j]] : j \in 1..(i - 1)}
  <2> DEFINE p == SubSeq(batch, 1, i - 1)
  <2>1. p \in Seq(Calls) /\ Len(p) = i - 1 /\ \A j \in 1..(i - 1) : p[j] = batch[j]
    BY <1>2
  <2> HIDE DEF p
  <2>2. Range(Recorded!Fold(log, p)) = Range(log) \cup Bringing(p)
    BY <1>2, <2>1, RecordedIs
  <2>3. Bringing(p) = {IdOf[batch[j]] : j \in 1..(i - 1)}
    BY <2>1 DEF Bringing
  <2>4. Promise!FoldLeft(Promise!After, log, p) = Recorded!Fold(log, p)
    BY EffectIsFold
  <2>5. Promise!Range(Recorded!Fold(log, p)) = Range(Recorded!Fold(log, p))
    BY DEF Range, Promise!Range
  <2> QED
    BY <2>2, <2>3, <2>4, <2>5 DEF p
<1> HIDE DEF before
<1>7. ASSUME NEW c \in Calls
      PROVE  Effect'[c] =
               IF c \notin Promise!Range(batch) THEN Effect[c]
               ELSE LET i == CHOOSE i \in DOMAIN batch : batch[i] = c
                    IN IF IdOf[c] \in Promise!Range(before(i)) THEN "duplicate" ELSE "fresh"
  <2>0. Promise!Range(batch) = Range(batch)
    BY DEF Range, Promise!Range
  <2>1. CASE c \notin Range(batch)
    <3>1. result'[c] = result[c] /\ handler'[c] = handler[c]
      BY <1>1, <2>1
    <3> QED
      BY <2>0, <2>1, <3>1 DEF Effect
  <2>2. CASE c \in Range(batch)
    <3> DEFINE i == CHOOSE k \in DOMAIN batch : batch[k] = c
    <3>1. i \in 1..Len(batch) /\ batch[i] = c
      BY <1>2, <2>2 DEF Range
    <3> HIDE DEF i
    <3>2. (\E k \in Firsts(batch) : batch[k] = c) <=> i \in Firsts(batch)
      BY <1>2, <3>1 DEF Firsts, OneToOne
    <3>3. i \in Firsts(batch) <=> IdOf[c] \notin Promise!Range(before(i))
      BY <1>2, <1>6, <3>1 DEF Firsts
    <3>4. result'[c] = IF IdOf[c] \in Promise!Range(before(i)) THEN "duplicate" ELSE "fresh"
      BY <1>1, <2>2, <3>2, <3>3
    <3>5. Effect'[c] = result'[c]
      BY <1>1, <1>3, <2>2, <3>4 DEF Effect
    <3> QED
      BY <2>0, <2>2, <3>4, <3>5 DEF i
  <2> QED
    BY <2>1, <2>2
<1>8. Effect' = [c \in Calls |->
         IF c \notin Promise!Range(batch) THEN Effect[c]
         ELSE LET i == CHOOSE i \in DOMAIN batch : batch[i] = c
              IN IF IdOf[c] \in Promise!Range(before(i)) THEN "duplicate" ELSE "fresh"]
  <2>1. Effect' = [c \in Calls |-> Effect'[c]]
    BY DEF Effect
  <2> QED
    BY <1>7, <2>1
<1>9. Promise!TakeEffect(batch)
  BY <1>1, <1>5, <1>8 DEF Promise!TakeEffect, before
<1> QED
  BY <1>4, <1>9

\* Every step of the node is a step of the ledger, or none.
LEMMA QueuePromises ==
  ASSUME QueueInv, NodeStep \/ (\E c \in Calls : CheckShedding(c)) \/ UNCHANGED queueVars
  PROVE  [Promise!Next]_(Promise!ledgerVars)
<1>1. CASE UNCHANGED queueVars
  BY <1>1 DEF queueVars, Effect, Promise!ledgerVars
<1>2. CASE \E c \in Calls : CheckShedding(c)
  BY <1>2, CheckingStutters
<1>3. CASE \E c \in Calls : Apply(c)
  BY <1>3, ApplySubmits DEF Promise!Next
<1>4. CASE Select \/ Drain
  BY <1>4, TakingStutters
<1>5. CASE Commit
  <2>1. batch \in Promise!SetToSeqs(Range(batch))
    BY BatchIsOrder DEF QueueInv, InOnePlace
  <2> QED
    BY <1>5, <2>1, CommitTakesEffect DEF Promise!Next
<1>6. CASE Reply
  BY <1>6, ReplyStutters
<1>7. CASE \E q \in Queries : Query(q) \/ ServeQuery(q)
  BY <1>7, QueryAsks, ServingReads DEF Promise!Next
<1> QED
  BY <1>1, <1>2, <1>3, <1>4, <1>5, <1>6, <1>7 DEF NodeStep

\* The shed check, the bounded channel and the batching goroutine (checkShedding,
\* Partition.run, applyBatch) implement the ledger: every accepted write takes effect at
\* one instant between its call and its answer, an event once, and every query answers
\* with all that has taken effect by an instant in its course.
THEOREM LedgerImplemented == Spec => ImplementsLedger
<1>1. Init => Promise!Init
  BY DEF Init, QueueInit, Promise!Init, Effect
<1>2. Inv /\ [Next]_vars => [Promise!Next]_(Promise!ledgerVars)
  BY QueueTaken, QueuePromises DEF Inv
<1> QED
  BY <1>1, <1>2, Holding, PTL DEF Spec, ImplementsLedger, Promise!Spec
=============================================================================
