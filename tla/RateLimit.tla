------------------------------ MODULE RateLimit -----------------------------
(***************************************************************************)
(* The gateway's rate limiter (internal/ratelimit/ratelimit.go) for one     *)
(* key: its bucket of tokens, made when the key is first seen and thrown    *)
(* away by a sweep when it is full.  Tokens are counted in units of 1/One   *)
(* of a token, of which a tick of the clock brings Rate.                    *)
(*                                                                          *)
(* The actions change the limiter's variables only; Overload composes them  *)
(* with the requests that call it.                                          *)
(***************************************************************************)
EXTENDS Integers, FiniteSets

CONSTANTS
    Requests,   \* client requests for the key
    One,        \* units of a token
    Rate,       \* --rate, in units per tick
    Burst,      \* --burst, in units
    Longest     \* bound: ticks are counted up to here; any bucket is full by then

ASSUME RateLimitAssumption ==
    /\ IsFiniteSet(Requests)
    /\ {One, Rate} \subseteq Nat \ {0}
    /\ {Burst, Longest} \subseteq Nat
    /\ Longest * Rate >= Burst

\* Buckets that exist at a time: the map's and those that requests have in hand.
Buckets == 1..(Cardinality(Requests) + 1)
NoBucket == 0      \* none looked up, or none in the map
Missing == -1      \* looked up without success

VARIABLES
    bucket,   \* bucket[b]: its tokens, and the ticks since its lastTime
    current,  \* the key's bucket in Map.m
    held,     \* held[r]: the bucket that request r has looked up and not used
    meter,    \* history: units admitted, leaking at the rate: the most that any
              \* period up to now was above the rate
    strays    \* history: requests admitted by a bucket that the map had dropped

limiterVars == <<bucket, current, held, meter, strays>>

Least(a, b) == IF a < b THEN a ELSE b
Most(a, b) == IF a > b THEN a ELSE b

EmptyBucket == [tokens |-> 0, ticks |-> 0]                   \* faulty: New without tokens
FullBucket == [tokens |-> Burst, ticks |-> 0]

\* What a bucket holds now.
Uncapped(b) == bucket[b].tokens + (bucket[b].ticks * Rate)   \* faulty: burst ignored
Tokens(b) == Least(Burst, bucket[b].tokens + (bucket[b].ticks * Rate))

\* Nobody has an unused bucket's value; it counts as one not made yet.
Collected(bs, cur, hs) ==
    [b \in Buckets |-> IF b = cur \/ \E r \in Requests : hs[r] = b THEN bs[b] ELSE FullBucket]

LimiterInit ==
    /\ bucket = [b \in Buckets |-> FullBucket]
    /\ current = NoBucket
    /\ held = [r \in Requests |-> NoBucket]
    /\ meter = 0
    /\ strays = 0

-----------------------------------------------------------------------------
\* Map.Allow: the lookup under the read lock, the creation under the write lock,
\* which looks again, and Bucket.Allow.

Lookup(r) ==
    /\ held[r] = NoBucket
    /\ held' = [held EXCEPT ![r] = IF current = NoBucket THEN Missing ELSE current]
    /\ UNCHANGED <<bucket, current, meter, strays>>

Unused == {b \in Buckets : b # current /\ \A r \in Requests : held[r] # b}
NewBucket == CHOOSE b \in Unused : TRUE

AlwaysNew == NewBucket                                       \* faulty: no second look
FoundOrNew == IF current = NoBucket THEN NewBucket ELSE current

Create(r) ==
    /\ held[r] = Missing
    /\ current' = FoundOrNew
    /\ bucket' = IF FoundOrNew = current THEN bucket
                 ELSE [bucket EXCEPT ![FoundOrNew] = FullBucket]
    /\ held' = [held EXCEPT ![r] = FoundOrNew]
    /\ UNCHANGED <<meter, strays>>

Decides(r) == held[r] \in Buckets
Admits(r) == Tokens(held[r]) >= One

Allow(r) ==
    /\ Decides(r) /\ Admits(r)
    /\ held' = [held EXCEPT ![r] = NoBucket]
    /\ bucket' = Collected([bucket EXCEPT ![held[r]] = [tokens |-> Tokens(held[r]) - One,
                                                        ticks |-> 0]], current, held')
    /\ meter' = meter + One
    /\ strays' = IF held[r] = current THEN strays ELSE strays + 1
    /\ UNCHANGED current

Deny(r) ==
    /\ Decides(r) /\ ~Admits(r)
    /\ held' = [held EXCEPT ![r] = NoBucket]
    /\ bucket' = Collected([bucket EXCEPT ![held[r]] = [tokens |-> Tokens(held[r]),
                                                        ticks |-> 0]], current, held')
    /\ UNCHANGED <<current, meter, strays>>

\* sweep: a full bucket leaves the map; others are only refilled.
Full(b) == Tokens(b) >= Burst

Sweep ==
    /\ current # NoBucket
    /\ current' = IF Full(current) THEN NoBucket ELSE current
    /\ bucket' = Collected([bucket EXCEPT ![current] = [tokens |-> Tokens(current),
                                                        ticks |-> 0]], current', held)
    /\ UNCHANGED <<held, meter, strays>>

Tick ==
    /\ bucket' = Collected([b \in Buckets |-> [bucket[b] EXCEPT !.ticks = Least(@ + 1, Longest)]],
                           current, held)
    /\ meter' = Most(0, meter - Rate)
    /\ UNCHANGED <<current, held, strays>>

\* The limiter among any handlers that call it.
LimiterNext ==
    \/ \E r \in Requests : Lookup(r) \/ Create(r) \/ Allow(r) \/ Deny(r)
    \/ Sweep \/ Tick
LimiterSpec == LimiterInit /\ [][LimiterNext]_limiterVars

-----------------------------------------------------------------------------
LimiterTypeOK ==
    /\ bucket \in [Buckets -> [tokens : 0..Burst, ticks : 0..Longest]]
    /\ current \in Buckets \cup {NoBucket}
    /\ held \in [Requests -> Buckets \cup {NoBucket, Missing}]
    /\ meter \in Nat /\ strays \in Nat

\* In every period the limiter admits at most the burst and what the rate brings,
\* and one request more for each that was overtaken by the sweep between its lookup
\* and its use of the bucket (README.md:156, "dropped at the gateway").
RateKept == meter <= Burst + (strays * One)

\* The strict form: no period exceeds burst and rate.
RateKeptStrictly == meter <= Burst

\* The limiter turns a request away only if admitting it would exceed the rate:
\* what a sweep drops or a second creation replaces is never a debt.
DeniesOnlyExcess ==
    [][\A r \in Requests : Deny(r) => meter + One > Burst]_limiterVars
=============================================================================
