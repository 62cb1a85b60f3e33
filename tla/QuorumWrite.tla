----------------------------- MODULE QuorumWrite ----------------------------
(***************************************************************************)
(* One event on its way to RF nodes and back to its client.                 *)
(*                                                                          *)
(*   gateway  cmd/gateway/main.go  handleEvent, post                        *)
(*   node     cmd/node/main.go     handleEvent, handleReplicate,            *)
(*                                 fanOutReplicate, postReplicate           *)
(*                                                                          *)
(* In the default mode the gateway calls every replica itself; with         *)
(* --primary-replication it calls one node, which calls the others.  A call *)
(* is a request that a node may handle at any later time, also after its    *)
(* caller has given up on it, or never.  The ring is fixed; a view of it    *)
(* that SWIM makes stale is a subset of it.                                 *)
(***************************************************************************)
EXTENDS Integers, FiniteSets

CONSTANTS
    Nodes,        \* the replicas of the event's key, all of them (RF)
    Primary,      \* the first of them in ring order
    Gateway,      \* the caller of a gateway's own calls
    W,            \* --w, write quorum
    Tries,        \* client requests that carry this event id
    TimesOut,     \* may callers give up on a call?
    Deployments   \* what gateway and nodes may have been started with, and meet

\* 409 stale epoch, 429 apply queue full, 503 frozen.
AllRefusals == {"conflict", "overloaded", "unavailable"}

ASSUME QuorumAssumption ==
    /\ Primary \in Nodes
    /\ IsFiniteSet(Nodes)
    /\ W \in 1..Cardinality(Nodes)
    /\ Gateway \notin Nodes
    /\ TimesOut \in BOOLEAN
    /\ Deployments \subseteq
         [primaryRepl : BOOLEAN,            \* --primary-replication
          idempotent : BOOLEAN,             \* FALSE under --no-idempotent
          refusals : SUBSET AllRefusals,    \* refusals that nodes may answer
          staleViews : BOOLEAN,             \* may SWIM suspect the primary or
                                            \* hide live replicas?
          breakers : BOOLEAN,               \* may the gateway's breakers be open?
          nodesRun : BOOLEAN]               \* do nodes handle every request in the end?

Attempts == {1, 2}
Calls == [try : Tries, attempt : Attempts, from : Nodes \cup {Gateway}, to : Nodes]

VARIABLES
    flags,    \* the deployment, which never changes
    stored,   \* nodes whose log holds the event
    call,     \* call[c]: "none", "waiting", or the result its caller got
    inbox,    \* requests no node has handled yet
    fanning,  \* /events requests whose handler waits in fanOutReplicate
    request,  \* request[q]: the gateway's handleEvent for client request q
    told,     \* told[q]: "ok" or "error" once the client has its answer
    refused   \* history: nodes that refused a call, or that a breaker kept one from

vars == <<flags, stored, call, inbox, fanning, request, told, refused>>

PrimaryRepl == flags.primaryRepl
Idempotent == flags.idempotent
Refusals == flags.refusals
StaleViews == flags.staleViews

Acks == {"ok"}
Result(c) == call[c]
Arrived(C) == {c \in C : call[c] \notin {"none", "waiting"}}
Acked(C) == {c \in C : call[c] \in Acks}

-----------------------------------------------------------------------------
\* Gateway.

\* The calls of the current attempt, and the one to replicas[0]: to /events.
GatewayCalls(q) ==
    {c \in Calls : c.try = q /\ c.attempt = request[q].attempt /\ c.from = Gateway
                   /\ call[c] # "none"}
First(q) == [try |-> q, attempt |-> request[q].attempt, from |-> Gateway,
             to |-> request[q].first]

Issue(C) ==
    /\ call' = [c \in Calls |-> IF c \in C THEN "waiting" ELSE call[c]]
    /\ inbox' = inbox \cup C

\* send: one call with --primary-replication (or one replica), else one to
\* every replica.
Attempt(q, first) ==
    LET a == request[q].attempt + 1
    IN /\ request' = [request EXCEPT ![q] = [pc |-> "sending", attempt |-> a, first |-> first]]
       /\ Issue([try : {q}, attempt : {a}, from : {Gateway},
                 to : IF PrimaryRepl THEN {first} ELSE Nodes])

\* A client's POST /events.  replicas[0] is the primary, or in the default mode
\* the first replica that pollHealth does not call overloaded.
Begin(q) ==
    /\ request[q].pc = "new"
    /\ \E first \in (IF PrimaryRepl THEN {Primary} ELSE Nodes) : Attempt(q, first)
    /\ UNCHANGED <<stored, fanning, told, refused>>

Need == IF PrimaryRepl THEN 1 ELSE W

\* send returns: enough acks and the first replica's answer, or all results.
NeverGivesUp(q) == Cardinality(Acked(GatewayCalls(q))) >= W   \* faulty: no failures
SendReturns(q) ==
    \/ Arrived(GatewayCalls(q)) = GatewayCalls(q)
    \/ /\ Cardinality(Acked(GatewayCalls(q))) >= W
       /\ Result(First(q)) \notin {"waiting", "lost"}

ReachedAny(q) == Acked(GatewayCalls(q)) # {}     \* faulty: one ack is a quorum
Reached(q) == Cardinality(Acked(GatewayCalls(q))) >= Need

\* Only an epoch conflict or no answer at all is tried again, and only once.
RetriesForever(q) == ~Reached(q) /\ Result(First(q)) \in {"conflict", "lost"}   \* faulty
Retries(q) ==
    request[q].attempt = 1 /\ ~Reached(q) /\ Result(First(q)) \in {"conflict", "lost"}

\* The retry goes to the primary again, or with --primary-replication past a
\* primary that SWIM suspects.
Retry(q) ==
    /\ request[q].pc = "sending"
    /\ SendReturns(q)
    /\ Retries(q)
    /\ \E first \in {Primary} \cup (IF PrimaryRepl /\ StaleViews THEN Nodes ELSE {}) :
         Attempt(q, first)
    /\ UNCHANGED <<stored, fanning, told, refused>>

\* Calls whose results nobody waits for any more keep their own context.
CancelCalls(C) == inbox' = inbox \ C       \* faulty: one context for all
LeaveCalls(C) == UNCHANGED inbox

\* The answer: 503 without a quorum, else whatever the first replica said.
Answer(q) ==
    /\ request[q].pc = "sending"
    /\ SendReturns(q)
    /\ ~Retries(q)
    /\ told' = [told EXCEPT ![q] = IF Reached(q) /\ Result(First(q)) \in Acks
                                     THEN "ok" ELSE "error"]
    /\ request' = [request EXCEPT ![q].pc = "done"]
    /\ LeaveCalls(GatewayCalls(q))
    /\ UNCHANGED <<stored, call, fanning, refused>>

\* A caller's context or client timeout; the request may still arrive.
TimeOut(c) ==
    /\ TimesOut
    /\ call[c] = "waiting"
    /\ call' = [call EXCEPT ![c] = "lost"]
    /\ UNCHANGED <<stored, inbox, fanning, request, told, refused>>

\* post: the breaker of a node does not allow the gateway's call, which is never sent.
BreakerRefuses(c) ==
    /\ flags.breakers
    /\ c \in inbox /\ c.from = Gateway
    /\ call[c] = "waiting"
    /\ call' = [call EXCEPT ![c] = "lost"]
    /\ inbox' = inbox \ {c}
    /\ refused' = refused \cup {c.to}
    /\ UNCHANGED <<stored, fanning, request, told>>

-----------------------------------------------------------------------------
\* Nodes.

\* A caller that has given up does not see the reply.
Reply(c, r) == call' = [call EXCEPT ![c] = IF @ = "waiting" THEN r ELSE @]

Refuse(c) ==
    /\ c \in inbox
    /\ inbox' = inbox \ {c}
    /\ \E r \in Refusals : Reply(c, r)
    /\ refused' = refused \cup {c.to}
    /\ UNCHANGED <<stored, fanning, request, told>>

Duplicate(c) == Idempotent /\ c.to \in stored

\* /events on a primary that replicates itself; all else only stores.
FansOut(c) == PrimaryRepl /\ c.from = Gateway

\* handleReplicate answers 204 for a fresh and for a repeated event; so does
\* handleEvent with 201 and 200 when the gateway replicates.
StoreAndReply(c) ==
    /\ c \in inbox
    /\ ~FansOut(c) \/ Duplicate(c)
    /\ inbox' = inbox \ {c}
    /\ stored' = stored \cup {c.to}
    /\ Reply(c, "ok")
    /\ UNCHANGED <<fanning, request, told, refused>>

FanCalls(c) == [try : {c.try}, attempt : {c.attempt}, from : {c.to}, to : Nodes \ {c.to}]

\* handleEvent with --primary-replication applies a fresh event and calls the
\* replicas it believes live.
StoreAndFan(c) ==
    /\ c \in inbox
    /\ FansOut(c) /\ ~Duplicate(c)
    /\ stored' = stored \cup {c.to}
    /\ fanning' = fanning \cup {c}
    /\ \E C \in (IF StaleViews THEN SUBSET FanCalls(c) ELSE {FanCalls(c)}) :
         /\ call' = [d \in Calls |-> IF d \in C THEN "waiting" ELSE call[d]]
         /\ inbox' = (inbox \ {c}) \cup C
    /\ UNCHANGED <<request, told, refused>>

\* fanOutReplicate returns: W - 1 acks, looked at after each result, or none
\* left to wait for.
Sent(c) == {d \in FanCalls(c) : call[d] # "none"}
Enough(c) == Cardinality(Acked(Sent(c))) >= W - 1

FanReturns(c) ==
    /\ c \in fanning
    /\ Arrived(Sent(c)) = Sent(c) \/ (Enough(c) /\ Arrived(Sent(c)) # {})
    /\ fanning' = fanning \ {c}
    /\ Reply(c, IF Enough(c) THEN "ok" ELSE "unavailable")
    /\ LeaveCalls(Sent(c))
    /\ UNCHANGED <<stored, request, told, refused>>

-----------------------------------------------------------------------------
Init ==
    /\ flags \in Deployments
    /\ stored = {}
    /\ call = [c \in Calls |-> "none"]
    /\ inbox = {}
    /\ fanning = {}
    /\ request = [q \in Tries |-> [pc |-> "new", attempt |-> 0, first |-> Primary]]
    /\ told = [q \in Tries |-> "nothing"]
    /\ refused = {}

Next ==
    /\ \/ \E q \in Tries : Begin(q) \/ Retry(q) \/ Answer(q)
       \/ \E c \in Calls : TimeOut(c) \/ FanReturns(c)
       \/ \E c \in inbox : BreakerRefuses(c) \/ Refuse(c) \/ StoreAndReply(c) \/ StoreAndFan(c)
    /\ UNCHANGED flags

Spec == Init /\ [][Next]_vars

Step(A) == A /\ UNCHANGED flags

\* The gateway's goroutines run and every call ends by its timeout; nodes that
\* run handle what reaches them, and their handlers run.
FairSpec ==
    /\ Spec
    /\ \A q \in Tries : WF_vars(Step(Retry(q))) /\ WF_vars(Step(Answer(q)))
    /\ \A c \in Calls :
         /\ WF_vars(Step(TimeOut(c)))
         /\ WF_vars(Step(/\ flags.nodesRun /\ c \in inbox
                         /\ StoreAndReply(c) \/ StoreAndFan(c)))
         /\ WF_vars(Step(flags.nodesRun /\ FanReturns(c)))

-----------------------------------------------------------------------------
\* Properties.

\* Every variable has its type; a client has its answer exactly when its handler
\* is done, and no request is tried more than twice.
TypeOK ==
    /\ flags \in Deployments
    /\ stored \subseteq Nodes
    /\ call \in [Calls -> {"none", "waiting", "lost", "ok"} \cup AllRefusals]
    /\ inbox \subseteq Calls
    /\ fanning \subseteq Calls \ inbox
    /\ \A q \in Tries : /\ request[q].pc \in {"new", "sending", "done"}
                        /\ request[q].first \in Nodes
    /\ told \in [Tries -> {"nothing", "ok", "error"}]
    /\ refused \subseteq Nodes
    /\ \A q \in Tries : told[q] # "nothing" <=> request[q].pc = "done"

\* A client that is told its event was accepted has it on W nodes at least,
\* whatever was lost, refused, timed out and tried again on the way
\* (cmd/node/main.go:261, "blocks until W copies exist").
AckQuorum == \A q \in Tries : told[q] = "ok" => Cardinality(stored) >= W

\* README.md:656, "gateway fans out to replicas, returns after W acks": a
\* client is told of a failure only when there was no quorum.
FailureMeansNoQuorum ==
    \A q \in Tries : told[q] = "error" => Cardinality(Acked(GatewayCalls(q))) < W

\* README.md:656, "remaining replicas propagate in the background (detached
\* context) to reach RF": neither the answer to the client nor a caller's timeout
\* stops the calls still under way, so every replica stores the event, where nodes
\* run, unless it refuses or the breaker that the gateway has for it does.
ReachesRF ==
    \A q \in Tries :
        told[q] = "ok" /\ flags.nodesRun ~> stored \cup refused = Nodes

\* The handler of a client request ends, and gives back its slot of gw.sem,
\* even when nodes never answer.
AlwaysAnswered == \A q \in Tries : request[q].pc = "sending" ~> request[q].pc = "done"
=============================================================================
