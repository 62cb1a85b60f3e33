-------------------------- MODULE QuorumWriteProofs -------------------------
(***************************************************************************)
(* Proofs about QuorumWrite for any replicas, quorum, client requests and   *)
(* deployments.  An acknowledgement is evidence of a copy (Evidence); the   *)
(* acknowledgements that one caller counts come from different nodes, so    *)
(* there are as many copies (DistinctCopies).                               *)
(***************************************************************************)
EXTENDS QuorumWrite, FiniteSetTheorems, TLAPS

Results == {"none", "waiting", "lost", "ok"} \cup AllRefusals

\* A request gets its attempts in order, and a call is made once.
Progress ==
    /\ request \in [Tries -> [pc : {"new", "sending", "done"}, attempt : {0, 1, 2},
                              first : Nodes]]
    /\ \A q \in Tries : request[q].pc = "new" <=> request[q].attempt = 0
    /\ \A c \in Calls : c.from = Gateway /\ c.attempt > request[c.try].attempt
                        => call[c] = "none"
    /\ \A c \in inbox \cup fanning : call[c] # "none"

\* Only a gateway's calls to a primary that replicates wait there.
FanningOnly == \A c \in fanning : PrimaryRepl /\ c.from = Gateway

QuorumInv == TypeOK /\ Progress /\ FanningOnly

\* A call that was answered "ok" has left a copy where it went, and one that waits
\* for the others already has.
Evidence ==
    /\ \A c \in Calls : call[c] = "ok" => c.to \in stored
    /\ \A c \in fanning : c.to \in stored

\* A primary that replicates answers its gateway with W copies.
PrimaryQuorum ==
    \A c \in Calls : PrimaryRepl /\ c.from = Gateway /\ call[c] = "ok"
                     => Cardinality(stored) >= W

AckInv == Evidence /\ PrimaryQuorum /\ AckQuorum

-----------------------------------------------------------------------------
LEMMA ConstantTypes ==
    /\ IsFiniteSet(Nodes) /\ Primary \in Nodes /\ Gateway \notin Nodes
    /\ Cardinality(Nodes) \in Nat /\ W \in Nat /\ W >= 1
  BY QuorumAssumption, FS_CardinalityType

LEMMA DeploymentTypes ==
    ASSUME flags \in Deployments
    PROVE  Refusals \subseteq AllRefusals /\ "ok" \notin Refusals
           /\ "none" \notin Refusals /\ "waiting" \notin Refusals
           /\ PrimaryRepl \in BOOLEAN /\ Idempotent \in BOOLEAN
  BY QuorumAssumption DEF Refusals, AllRefusals, PrimaryRepl, Idempotent

LEMMA InitQuorum == Init => QuorumInv
<1> SUFFICES ASSUME Init PROVE QuorumInv
  OBVIOUS
<1>1. TypeOK
  BY ConstantTypes DEF Init, TypeOK
<1>2. Progress
  BY ConstantTypes DEF Init, Progress, Calls, Attempts
<1>3. FanningOnly
  BY DEF Init, FanningOnly
<1> QED
  BY <1>1, <1>2, <1>3 DEF QuorumInv

-----------------------------------------------------------------------------
\* A new attempt: its calls are new.
LEMMA AttemptStep ==
    ASSUME QuorumInv, NEW q \in Tries, NEW first \in Nodes, Attempt(q, first),
           request[q].attempt \in {0, 1}, request[q].pc # "done",
           UNCHANGED <<flags, stored, fanning, told, refused>>
    PROVE  QuorumInv'
<1> DEFINE a == request[q].attempt + 1
           C == [try : {q}, attempt : {a}, from : {Gateway},
                 to : IF PrimaryRepl THEN {first} ELSE Nodes]
<1> USE DEF QuorumInv
<1>1. a \in {1, 2}
  OBVIOUS
<1>2. C \subseteq Calls /\ \A c \in C : c.try = q /\ c.attempt = a /\ c.from = Gateway
  BY <1>1 DEF Calls, Attempts
<1>3. /\ request' = [request EXCEPT ![q] = [pc |-> "sending", attempt |-> a, first |-> first]]
      /\ call' = [c \in Calls |-> IF c \in C THEN "waiting" ELSE call[c]]
      /\ inbox' = inbox \cup C
  BY DEF Attempt, Issue
<1> HIDE DEF C
<1>4. \A c \in C : call[c] = "none"
  <2> SUFFICES ASSUME NEW c \in C PROVE call[c] = "none"
    OBVIOUS
  <2>1. c \in Calls /\ c.from = Gateway /\ c.attempt > request[c.try].attempt
    BY <1>2 DEF Progress
  <2> QED
    BY <2>1 DEF Progress
<1>5. \A c \in Calls : call'[c] = IF c \in C THEN "waiting" ELSE call[c]
  BY <1>3
<1> HIDE DEF a
<1>6. TypeOK'
  <2>1. call' \in [Calls -> {"none", "waiting", "lost", "ok"} \cup AllRefusals]
    BY <1>3 DEF TypeOK
  <2>2. inbox' \subseteq Calls /\ fanning' \subseteq Calls \ inbox'
    BY <1>2, <1>3, <1>4 DEF TypeOK, Progress
  <2>3. \A p \in Tries : /\ request'[p].pc \in {"new", "sending", "done"}
                         /\ request'[p].first \in Nodes
                         /\ told'[p] # "nothing" <=> request'[p].pc = "done"
    BY <1>3 DEF TypeOK, Progress
  <2> QED
    BY <2>1, <2>2, <2>3 DEF TypeOK
<1>7. Progress'
  <2>1. request' \in [Tries -> [pc : {"new", "sending", "done"}, attempt : {0, 1, 2},
                                first : Nodes]]
    BY <1>1, <1>3 DEF Progress
  <2>2. \A p \in Tries : request'[p].pc = "new" <=> request'[p].attempt = 0
    BY <1>1, <1>3 DEF Progress
  <2>3. ASSUME NEW c \in Calls, c.from = Gateway, c.attempt > request'[c.try].attempt
        PROVE  call'[c] = "none"
    <3>1. c.try \in Tries /\ c.attempt \in {1, 2}
      BY DEF Calls, Attempts
    <3>2. CASE c.try = q
      <4>1. c.attempt > a /\ request'[q].attempt = a
        BY <1>3, <2>3, <3>2 DEF Progress
      <4>2. c \notin C
        BY <1>1, <1>2, <4>1, <3>1
      <4>3. c.attempt > request[c.try].attempt
        BY <3>1, <3>2, <4>1 DEF a, Progress
      <4> QED
        BY <1>5, <2>3, <4>2, <4>3 DEF Progress
    <3>3. CASE c.try # q
      BY <1>2, <1>3, <1>5, <2>3, <3>1, <3>3 DEF Progress
    <3> QED
      BY <3>2, <3>3
  <2>4. \A c \in (inbox \cup fanning)' : call'[c] # "none"
    BY <1>2, <1>3, <1>5 DEF Progress, TypeOK
  <2> QED
    BY <2>1, <2>2, <2>3, <2>4 DEF Progress
<1>8. FanningOnly'
  BY DEF FanningOnly, PrimaryRepl
<1> QED
  BY <1>6, <1>7, <1>8

\* What an answer to a call's caller does to the call.
LEMMA ReplyTypes ==
    ASSUME QuorumInv, NEW c \in Calls, NEW r \in {"ok", "lost"} \cup AllRefusals,
           call' = [call EXCEPT ![c] = IF @ = "waiting" THEN r ELSE @]
    PROVE  /\ call' \in [Calls -> Results]
           /\ \A d \in Calls : call'[d] = "none" <=> call[d] = "none"
           /\ \A d \in Calls : call'[d] = "ok" => call[d] = "ok" \/ (d = c /\ r = "ok")
  BY DEF QuorumInv, TypeOK, Results, AllRefusals

\* A step that issues no call and answers at most some keeps the bookkeeping.
LEMMA QuietStep ==
    ASSUME QuorumInv, call' \in [Calls -> Results],
           \A d \in Calls : call'[d] = "none" <=> call[d] = "none",
           inbox' \subseteq inbox, fanning' \subseteq fanning,
           stored' \subseteq Nodes, refused' \subseteq Nodes,
           UNCHANGED <<flags, request, told>>
    PROVE  QuorumInv'
<1> USE DEF QuorumInv
<1>1. TypeOK'
  BY DEF TypeOK, Results
<1>2. Progress'
  BY DEF Progress, TypeOK
<1>3. FanningOnly'
  BY DEF FanningOnly, PrimaryRepl
<1> QED
  BY <1>1, <1>2, <1>3

LEMMA FanStep ==
    ASSUME QuorumInv, NEW c \in inbox, StoreAndFan(c), UNCHANGED flags
    PROVE  QuorumInv'
<1> USE DEF QuorumInv
<1>1. PICK C \in SUBSET FanCalls(c) :
        /\ call' = [d \in Calls |-> IF d \in C THEN "waiting" ELSE call[d]]
        /\ inbox' = (inbox \ {c}) \cup C
  BY DEF StoreAndFan
<1>2. /\ c \in Calls /\ c.from = Gateway /\ PrimaryRepl /\ c.to \in Nodes
      /\ call[c] # "none" /\ c \notin fanning
  BY DEF StoreAndFan, FansOut, TypeOK, Progress, Calls
<1>3. C \subseteq Calls /\ \A d \in C : d.from # Gateway
  BY <1>2, ConstantTypes DEF FanCalls, Calls
<1>4. /\ stored' = stored \cup {c.to} /\ fanning' = fanning \cup {c}
      /\ UNCHANGED <<request, told, refused>>
  BY DEF StoreAndFan
<1>5. \A d \in Calls : call'[d] = IF d \in C THEN "waiting" ELSE call[d]
  BY <1>1
<1>6. TypeOK'
  <2>1. call' \in [Calls -> {"none", "waiting", "lost", "ok"} \cup AllRefusals]
    BY <1>1 DEF TypeOK
  <2>2. inbox' \subseteq Calls
    BY <1>1, <1>3 DEF TypeOK
  <2>3. fanning' \subseteq Calls \ inbox'
    BY <1>1, <1>2, <1>3, <1>4 DEF TypeOK, FanningOnly
  <2> QED
    BY <1>2, <1>4, <2>1, <2>2, <2>3 DEF TypeOK
<1>7. Progress'
  BY <1>1, <1>2, <1>3, <1>4, <1>5 DEF Progress, TypeOK
<1>8. FanningOnly'
  BY <1>2, <1>4 DEF FanningOnly, PrimaryRepl
<1> QED
  BY <1>6, <1>7, <1>8

LEMMA AnswerStep ==
    ASSUME QuorumInv, NEW q \in Tries, Answer(q), UNCHANGED flags
    PROVE  QuorumInv'
<1> USE DEF QuorumInv
<1>1. /\ request[q].pc = "sending" /\ inbox' = inbox
      /\ request' = [request EXCEPT ![q].pc = "done"]
      /\ UNCHANGED <<stored, call, fanning, refused>>
      /\ \/ told' = [told EXCEPT ![q] = "ok"]
         \/ told' = [told EXCEPT ![q] = "error"]
  BY DEF Answer, LeaveCalls
<1>2. \A p \in Tries : /\ request'[p].attempt = request[p].attempt
                       /\ request'[p].first = request[p].first
                       /\ request'[p].pc = IF p = q THEN "done" ELSE request[p].pc
  BY <1>1 DEF Progress
<1>3. TypeOK'
  <2>1. told' \in [Tries -> {"nothing", "ok", "error"}]
    BY <1>1 DEF TypeOK
  <2>2. \A p \in Tries : told'[p] # "nothing" <=> request'[p].pc = "done"
    BY <1>1, <1>2 DEF TypeOK
  <2> QED
    BY <1>1, <1>2, <2>1, <2>2 DEF TypeOK, Progress
<1>4. Progress'
  <2>1. request' \in [Tries -> [pc : {"new", "sending", "done"}, attempt : {0, 1, 2},
                                first : Nodes]]
    BY <1>1 DEF Progress
  <2>2. \A c \in Calls : c.try \in Tries
    BY DEF Calls
  <2> QED
    BY <1>1, <1>2, <2>1, <2>2 DEF Progress
<1>5. FanningOnly'
  BY <1>1 DEF FanningOnly, PrimaryRepl
<1> QED
  BY <1>3, <1>4, <1>5

LEMMA QuorumStep == QuorumInv /\ [Next]_vars => QuorumInv'
<1> SUFFICES ASSUME QuorumInv, [Next]_vars PROVE QuorumInv'
  OBVIOUS
<1>0. inbox \subseteq Calls /\ fanning \subseteq Calls /\ flags \in Deployments
      /\ stored \subseteq Nodes /\ refused \subseteq Nodes
      /\ call \in [Calls -> Results] /\ \A c \in Calls : c.to \in Nodes
  BY DEF QuorumInv, TypeOK, Results, Calls
<1>1. ASSUME NEW q \in Tries, Begin(q), UNCHANGED flags PROVE QuorumInv'
  <2>1. PICK first \in Nodes : Attempt(q, first)
    BY <1>1, ConstantTypes DEF Begin
  <2>2. request[q].attempt = 0 /\ request[q].pc # "done"
    BY <1>1 DEF Begin, QuorumInv, Progress
  <2> QED
    BY <1>1, <2>1, <2>2, AttemptStep DEF Begin
<1>2. ASSUME NEW q \in Tries, Retry(q), UNCHANGED flags PROVE QuorumInv'
  <2>1. PICK first \in Nodes : Attempt(q, first)
    BY <1>2, ConstantTypes DEF Retry
  <2>2. request[q].attempt = 1 /\ request[q].pc # "done"
    BY <1>2 DEF Retry, Retries
  <2> QED
    BY <1>2, <2>1, <2>2, AttemptStep DEF Retry
<1>3. ASSUME NEW q \in Tries, Answer(q), UNCHANGED flags PROVE QuorumInv'
  BY <1>3, AnswerStep
<1>4. ASSUME NEW c \in Calls, TimeOut(c), UNCHANGED flags PROVE QuorumInv'
  <2>1. call' = [call EXCEPT ![c] = IF @ = "waiting" THEN "lost" ELSE @]
    BY <1>4 DEF TimeOut
  <2>2. call' \in [Calls -> Results] /\ \A d \in Calls : call'[d] = "none" <=> call[d] = "none"
    BY <2>1, ReplyTypes
  <2> QED
    BY <1>0, <1>4, <2>2, QuietStep DEF TimeOut
<1>5. ASSUME NEW c \in Calls, FanReturns(c), UNCHANGED flags PROVE QuorumInv'
  <2>1. \/ call' = [call EXCEPT ![c] = IF @ = "waiting" THEN "ok" ELSE @]
        \/ call' = [call EXCEPT ![c] = IF @ = "waiting" THEN "unavailable" ELSE @]
    BY <1>5 DEF FanReturns, Reply
  <2>2. call' \in [Calls -> Results] /\ \A d \in Calls : call'[d] = "none" <=> call[d] = "none"
    BY <2>1, ReplyTypes DEF AllRefusals
  <2>3. inbox' = inbox
    BY <1>5 DEF FanReturns, LeaveCalls
  <2> QED
    BY <1>0, <1>5, <2>2, <2>3, QuietStep DEF FanReturns
<1>6. ASSUME NEW c \in inbox, Refuse(c), UNCHANGED flags PROVE QuorumInv'
  <2>1. PICK r \in Refusals : call' = [call EXCEPT ![c] = IF @ = "waiting" THEN r ELSE @]
    BY <1>6 DEF Refuse, Reply
  <2>2. call' \in [Calls -> Results] /\ \A d \in Calls : call'[d] = "none" <=> call[d] = "none"
    BY <1>0, <2>1, ReplyTypes, DeploymentTypes
  <2> QED
    BY <1>0, <1>6, <2>2, QuietStep DEF Refuse
<1>7. ASSUME NEW c \in inbox, StoreAndReply(c), UNCHANGED flags PROVE QuorumInv'
  <2>1. call' = [call EXCEPT ![c] = IF @ = "waiting" THEN "ok" ELSE @]
    BY <1>7 DEF StoreAndReply, Reply
  <2>2. call' \in [Calls -> Results] /\ \A d \in Calls : call'[d] = "none" <=> call[d] = "none"
    BY <1>0, <2>1, ReplyTypes
  <2> QED
    BY <1>0, <1>7, <2>2, QuietStep DEF StoreAndReply
<1>8. ASSUME NEW c \in inbox, StoreAndFan(c), UNCHANGED flags PROVE QuorumInv'
  BY <1>8, FanStep
<1>9. ASSUME NEW c \in inbox, BreakerRefuses(c), UNCHANGED flags PROVE QuorumInv'
  <2>1. call' = [call EXCEPT ![c] = IF @ = "waiting" THEN "lost" ELSE @]
    BY <1>9 DEF BreakerRefuses
  <2>2. call' \in [Calls -> Results] /\ \A d \in Calls : call'[d] = "none" <=> call[d] = "none"
    BY <1>0, <2>1, ReplyTypes
  <2> QED
    BY <1>0, <1>9, <2>2, QuietStep DEF BreakerRefuses
<1>10. CASE UNCHANGED vars
  BY <1>10 DEF vars, QuorumInv, TypeOK, Progress, FanningOnly, PrimaryRepl
<1> QED
  BY <1>1, <1>2, <1>3, <1>4, <1>5, <1>6, <1>7, <1>8, <1>9, <1>10 DEF Next

LEMMA QuorumInvAlways == Spec => []QuorumInv
  BY InitQuorum, QuorumStep, PTL DEF Spec

\* Every variable keeps its type, a request is tried twice at most and a client
\* has its answer exactly when its handler is done.
THEOREM TypeCorrect == Spec => []TypeOK
<1>1. QuorumInv => TypeOK
  BY DEF QuorumInv
<1> QED
  BY <1>1, QuorumInvAlways, PTL

-----------------------------------------------------------------------------
\* Acknowledged calls of one attempt by one caller went to different nodes, and
\* each has left a copy.
LEMMA DistinctCopies ==
    ASSUME TypeOK, Evidence, NEW q \in Tries, NEW a \in Attempts,
           NEW f \in Nodes \cup {Gateway}, NEW S, S \subseteq stored, NEW C,
           \A c \in C : /\ c \in Calls /\ c.to \in S
                       /\ c.try = q /\ c.attempt = a /\ c.from = f
    PROVE  /\ IsFiniteSet(S) /\ IsFiniteSet(C)
           /\ Cardinality(C) \in Nat /\ Cardinality(S) \in Nat
           /\ Cardinality(C) <= Cardinality(S)
<1> DEFINE to == [c \in C |-> c.to]
<1>1. IsFiniteSet(S)
  BY FS_Subset, ConstantTypes DEF TypeOK
<1>2. to \in Injection(C, S)
  <2>1. \A c, d \in C : c.to = d.to => c = d
    BY DEF Calls
  <2>2. to \in [C -> S]
    OBVIOUS
  <2> HIDE DEF to
  <2>3. \A c, d \in C : to[c] = to[d] => c = d
    BY <2>1 DEF to
  <2> QED
    BY <2>2, <2>3 DEF Injection, IsInjective
<1>3. IsFiniteSet(C) /\ Cardinality(C) <= Cardinality(S)
  BY <1>1, <1>2, FS_Injection
<1> QED
  BY <1>1, <1>3, FS_CardinalityType

\* A primary that waited for W - 1 others has W copies with its own.
LEMMA FanQuorum ==
    ASSUME TypeOK, Evidence, NEW c \in fanning, Enough(c)
    PROVE  Cardinality(stored) >= W
<1> DEFINE S == stored \ {c.to}
           C == Acked(Sent(c))
<1>1. c \in Calls /\ c.try \in Tries /\ c.attempt \in Attempts /\ c.to \in Nodes
      /\ c.to \in stored
  BY DEF TypeOK, Evidence, Calls
<1>2. ASSUME NEW d \in C
      PROVE  /\ d \in Calls /\ d.to \in S
             /\ d.try = c.try /\ d.attempt = c.attempt /\ d.from = c.to
  <2>1. d \in FanCalls(c) /\ call[d] = "ok"
    BY DEF Acked, Acks, Sent
  <2>2. d \in Calls /\ d.try = c.try /\ d.attempt = c.attempt /\ d.from = c.to
        /\ d.to \in Nodes \ {c.to}
    BY <1>1, <2>1 DEF FanCalls, Calls
  <2> QED
    BY <2>1, <2>2 DEF Evidence
<1>3. Cardinality(C) <= Cardinality(S) /\ Cardinality(C) \in Nat /\ Cardinality(S) \in Nat
  <2> DEFINE q == c.try
             a == c.attempt
             f == c.to
  <2>1. \A d \in C : /\ d \in Calls /\ d.to \in S
                    /\ d.try = q /\ d.attempt = a /\ d.from = f
    BY <1>2
  <2>2. S \subseteq stored /\ q \in Tries /\ a \in Attempts /\ f \in Nodes \cup {Gateway}
    BY <1>1
  <2>3. TypeOK /\ Evidence
    OBVIOUS
  <2> HIDE DEF S, C, q, a, f
  <2> QED
    BY <2>1, <2>2, <2>3, DistinctCopies, ZenonT(30)
<1>4. Cardinality(C) >= W - 1
  BY DEF Enough
<1>5. IsFiniteSet(stored) /\ Cardinality(stored) \in Nat
      /\ Cardinality(S) = Cardinality(stored) - 1
  <2>1. IsFiniteSet(stored)
    BY FS_Subset, ConstantTypes DEF TypeOK
  <2> QED
    BY <1>1, <2>1, FS_RemoveElement, FS_CardinalityType
<1> QED
  BY <1>3, <1>4, <1>5, ConstantTypes

LEMMA InitAck == Init => AckInv
<1> SUFFICES ASSUME Init PROVE AckInv
  OBVIOUS
<1> QED
  BY DEF Init, AckInv, Evidence, PrimaryQuorum, AckQuorum

\* Copies are never lost, so what was true of them stays true.
LEMMA MoreCopies ==
    ASSUME TypeOK, TypeOK', stored \subseteq stored'
    PROVE  Cardinality(stored') >= Cardinality(stored)
           /\ Cardinality(stored) \in Nat /\ Cardinality(stored') \in Nat
<1>1. IsFiniteSet(stored')
  BY FS_Subset, ConstantTypes DEF TypeOK
<1>2. IsFiniteSet(stored) /\ Cardinality(stored) <= Cardinality(stored')
  BY <1>1, FS_Subset
<1> QED
  BY <1>1, <1>2, FS_CardinalityType

\* A step that gives no new acknowledgement and no new answer keeps the invariant.
LEMMA SilentStep ==
    ASSUME QuorumInv, QuorumInv', AckInv, stored \subseteq stored',
           \A d \in Calls : call'[d] = "ok" => call[d] = "ok",
           \A d \in fanning' : d \in fanning \/ d.to \in stored',
           \A q \in Tries : told'[q] = "ok" => told[q] = "ok",
           UNCHANGED flags
    PROVE  AckInv'
<1>1. Cardinality(stored') >= Cardinality(stored)
      /\ Cardinality(stored) \in Nat /\ Cardinality(stored') \in Nat
  BY MoreCopies DEF QuorumInv
<1>2. Evidence'
  BY DEF AckInv, Evidence
<1>3. PrimaryQuorum'
  BY <1>1, ConstantTypes DEF AckInv, PrimaryQuorum, PrimaryRepl
<1>4. AckQuorum'
  BY <1>1, ConstantTypes DEF AckInv, AckQuorum
<1> QED
  BY <1>2, <1>3, <1>4 DEF AckInv

\* With the idempotency index a primary answers a repeated event without asking
\* the others; deployments in which it does not.
NoPrimaryDedup == \A d \in Deployments : d.primaryRepl => ~d.idempotent

LEMMA AnsweredQuorum ==
    ASSUME QuorumInv, AckInv, NEW q \in Tries, Answer(q), told'[q] = "ok"
    PROVE  Cardinality(stored) >= W
<1>1. TypeOK /\ Evidence /\ PrimaryQuorum /\ PrimaryRepl \in BOOLEAN
  BY DeploymentTypes DEF QuorumInv, AckInv, TypeOK
<1>2. Reached(q) /\ Result(First(q)) = "ok"
  BY DEF Answer, Acks, QuorumInv, TypeOK
<1>3. request[q].attempt \in Attempts /\ request[q].first \in Nodes
  BY DEF Answer, QuorumInv, Progress, Attempts
<1>4. CASE PrimaryRepl
  <2>1. First(q) \in Calls /\ First(q).from = Gateway /\ call[First(q)] = "ok"
    BY <1>2, <1>3 DEF First, Calls, Result
  <2> QED
    BY <1>1, <1>4, <2>1 DEF PrimaryQuorum
<1>5. CASE ~PrimaryRepl
  <2> DEFINE C == Acked(GatewayCalls(q))
             a == request[q].attempt
  <2>1. \A c \in C : /\ c \in Calls /\ c.to \in stored
                    /\ c.try = q /\ c.attempt = a /\ c.from = Gateway
    BY <1>1 DEF Acked, Acks, GatewayCalls, Evidence
  <2>2. Cardinality(C) >= W
    BY <1>2, <1>5 DEF Reached, Need
  <2>3. a \in Attempts /\ Gateway \in Nodes \cup {Gateway} /\ stored \subseteq stored
    BY <1>3
  <2> HIDE DEF C, a
  <2>4. Cardinality(C) <= Cardinality(stored)
        /\ Cardinality(C) \in Nat /\ Cardinality(stored) \in Nat
    BY <1>1, <2>1, <2>3, DistinctCopies, Zenon
  <2> QED
    BY <2>2, <2>4, ConstantTypes
<1> QED
  BY <1>1, <1>4, <1>5

LEMMA AckStep ==
    ASSUME NoPrimaryDedup, QuorumInv, QuorumInv', AckInv, [Next]_vars
    PROVE  AckInv'
<1>0. /\ TypeOK /\ Evidence /\ flags \in Deployments
      /\ inbox \subseteq Calls /\ fanning \subseteq Calls /\ call \in [Calls -> Results]
  BY DEF QuorumInv, AckInv, TypeOK, Results
<1>1. ASSUME NEW q \in Tries, NEW first \in Nodes, Attempt(q, first),
             UNCHANGED <<flags, stored, fanning, told>>
      PROVE  AckInv'
  <2>1. \A d \in Calls : call'[d] = "ok" => call[d] = "ok"
    BY <1>1 DEF Attempt, Issue
  <2> QED
    BY <1>1, <2>1, SilentStep
<1>2. ASSUME NEW q \in Tries, Begin(q) \/ Retry(q), UNCHANGED flags PROVE AckInv'
  <2>1. PICK first \in Nodes : Attempt(q, first)
    BY <1>2, ConstantTypes DEF Begin, Retry
  <2>2. UNCHANGED <<flags, stored, fanning, told>>
    BY <1>2 DEF Begin, Retry
  <2> QED
    BY <1>1, <2>1, <2>2
<1>3. ASSUME NEW q \in Tries, Answer(q), UNCHANGED flags PROVE AckInv'
  <2>1. UNCHANGED <<flags, stored, call, fanning>>
    BY <1>3 DEF Answer
  <2>2. \A p \in Tries : p # q => told'[p] = told[p]
    BY <1>3 DEF Answer, QuorumInv, TypeOK
  <2>3. Evidence' /\ PrimaryQuorum'
    BY <2>1 DEF AckInv, Evidence, PrimaryQuorum, PrimaryRepl
  <2>4. AckQuorum'
    BY <1>3, <2>1, <2>2, AnsweredQuorum DEF AckInv, AckQuorum
  <2> QED
    BY <2>3, <2>4 DEF AckInv
<1>4. ASSUME NEW c \in Calls, TimeOut(c), UNCHANGED flags PROVE AckInv'
  <2>1. \A d \in Calls : call'[d] = "ok" => call[d] = "ok"
    BY <1>0, <1>4 DEF TimeOut
  <2> QED
    BY <1>4, <2>1, SilentStep DEF TimeOut
<1>5. ASSUME NEW c \in inbox, Refuse(c), UNCHANGED flags PROVE AckInv'
  <2>1. PICK r \in Refusals : call' = [call EXCEPT ![c] = IF @ = "waiting" THEN r ELSE @]
    BY <1>5 DEF Refuse, Reply
  <2>2. \A d \in Calls : call'[d] = "ok" => call[d] = "ok"
    BY <1>0, <2>1, DeploymentTypes
  <2> QED
    BY <1>5, <2>2, SilentStep DEF Refuse
<1>6. ASSUME NEW c \in inbox, StoreAndFan(c), UNCHANGED flags PROVE AckInv'
  <2>1. \A d \in Calls : call'[d] = "ok" => call[d] = "ok"
    BY <1>6 DEF StoreAndFan
  <2>2. /\ stored' = stored \cup {c.to} /\ fanning' = fanning \cup {c}
        /\ UNCHANGED <<flags, told>>
    BY <1>6 DEF StoreAndFan
  <2> QED
    BY <2>1, <2>2, SilentStep
\* The two steps that acknowledge.
<1>7. ASSUME NEW c \in inbox, StoreAndReply(c), UNCHANGED flags PROVE AckInv'
  <2>1. /\ call' = [call EXCEPT ![c] = IF @ = "waiting" THEN "ok" ELSE @]
        /\ stored' = stored \cup {c.to} /\ UNCHANGED <<flags, fanning, told>>
    BY <1>7 DEF StoreAndReply, Reply
  <2>2. \A d \in Calls : call'[d] = "ok" => call[d] = "ok" \/ d = c
    BY <1>0, <2>1
  <2>3. ~(PrimaryRepl /\ c.from = Gateway)
    BY <1>0, <1>7 DEF NoPrimaryDedup, StoreAndReply, FansOut, Duplicate,
                      PrimaryRepl, Idempotent
  <2>4. Cardinality(stored') >= Cardinality(stored)
        /\ Cardinality(stored) \in Nat /\ Cardinality(stored') \in Nat
    BY <2>1, MoreCopies DEF QuorumInv
  <2>5. Evidence'
    BY <2>1, <2>2 DEF AckInv, Evidence
  <2>6. PrimaryQuorum'
    BY <2>1, <2>2, <2>3, <2>4, ConstantTypes DEF AckInv, PrimaryQuorum, PrimaryRepl
  <2>7. AckQuorum'
    BY <2>1, <2>4, ConstantTypes DEF AckInv, AckQuorum
  <2> QED
    BY <2>5, <2>6, <2>7 DEF AckInv
<1>8. ASSUME NEW c \in Calls, FanReturns(c), UNCHANGED flags PROVE AckInv'
  <2>1. /\ c \in fanning /\ fanning' = fanning \ {c} /\ UNCHANGED <<flags, stored, told>>
        /\ call' = [call EXCEPT ![c] = IF @ = "waiting"
                                       THEN IF Enough(c) THEN "ok" ELSE "unavailable"
                                       ELSE @]
    BY <1>8 DEF FanReturns, Reply
  <2>2. \A d \in Calls : call'[d] = "ok" => call[d] = "ok" \/ (d = c /\ Enough(c))
    BY <1>0, <2>1
  <2>3. c.to \in stored /\ (Enough(c) => Cardinality(stored) >= W)
    BY <1>0, <2>1, FanQuorum DEF Evidence
  <2>4. Evidence' /\ PrimaryQuorum'
    BY <2>1, <2>2, <2>3 DEF AckInv, Evidence, PrimaryQuorum, PrimaryRepl
  <2>5. AckQuorum'
    BY <2>1 DEF AckInv, AckQuorum
  <2> QED
    BY <2>4, <2>5 DEF AckInv
<1>9. ASSUME NEW c \in inbox, BreakerRefuses(c), UNCHANGED flags PROVE AckInv'
  <2>1. \A d \in Calls : call'[d] = "ok" => call[d] = "ok"
    BY <1>0, <1>9 DEF BreakerRefuses
  <2> QED
    BY <1>9, <2>1, SilentStep DEF BreakerRefuses
<1>10. CASE UNCHANGED vars
  BY <1>10 DEF vars, AckInv, Evidence, PrimaryQuorum, PrimaryRepl, AckQuorum
<1> QED
  BY <1>2, <1>3, <1>4, <1>5, <1>6, <1>7, <1>8, <1>9, <1>10 DEF Next

\* Whatever is lost, late, refused, timed out and tried again, for any replicas and
\* any W: a client that is told "ok" has W copies, unless a primary that
\* replicates answers repeated events from its index (handleEvent of the node).
THEOREM AcksAreCopies == ASSUME NoPrimaryDedup PROVE Spec => []AckQuorum
<1>1. AckInv => AckQuorum
  BY DEF AckInv
<1>2. QuorumInv /\ QuorumInv' /\ AckInv /\ [Next]_vars => AckInv'
  BY AckStep
<1> QED
  BY <1>1, <1>2, InitAck, QuorumInvAlways, PTL DEF Spec
=============================================================================
