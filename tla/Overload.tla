------------------------------ MODULE Overload ------------------------------
(***************************************************************************)
(* The layers that shed load, together: the gateway's semaphore             *)
(* (cmd/gateway/main.go, handleEvent), its rate limiter, and the node's     *)
(* shed check and apply queue, for one key on one node.  A gateway gives up *)
(* on a call after attemptTimeout and tries once more, while the node's     *)
(* handler of the first call goes on.                                       *)
(***************************************************************************)
EXTENDS RateLimit, ApplyQueue

CONSTANTS
    MaxInflight  \* --max-inflight

ASSUME OverloadAssumption ==
    /\ Calls = Requests \X {1, 2}
    /\ \A r \in Requests : IdOf[<<r, 1>>] = IdOf[<<r, 2>>]
    /\ MaxInflight \in Nat \ {0}

VARIABLES
    stage,    \* stage[r]: "new", "limiting", "posting", or what the client was told:
              \* "busy" (503), "limited" (429), "ok", "error"
    attempt   \* attempt[r]: calls of send

gatewayVars == <<stage, attempt>>
vars == <<limiterVars, queueVars, gatewayVars>>

-----------------------------------------------------------------------------
\* handleEvent of the gateway.

\* The slots of gw.sem; a handler keeps its slot until it returns.
Slots == {r \in Requests : stage[r] \in {"limiting", "posting"}}

Enter(r) ==
    /\ stage[r] = "new"
    /\ stage' = [stage EXCEPT ![r] =
         IF Cardinality(Slots) < MaxInflight THEN "limiting" ELSE "busy"]
    /\ UNCHANGED <<limiterVars, queueVars, attempt>>

Limit(r) ==
    /\ stage[r] = "limiting"
    /\ \/ (Lookup(r) \/ Create(r)) /\ UNCHANGED gatewayVars
       \/ /\ Allow(r)
          /\ stage' = [stage EXCEPT ![r] = "posting"]
          /\ attempt' = [attempt EXCEPT ![r] = 1]
       \/ /\ Deny(r)
          /\ stage' = [stage EXCEPT ![r] = "limited"]
          /\ UNCHANGED attempt
    /\ UNCHANGED queueVars

\* The call of the current attempt and its answer.
Call(r) == <<r, attempt[r]>>
Answers == {"shed", "fresh", "duplicate"}
AnyAnswer(a) == TRUE                       \* faulty: 429 is below 500, too
Accepted(a) == a \in {"fresh", "duplicate"}

Answered(r) ==
    /\ stage[r] = "posting"
    /\ handler[Call(r)] \in Answers
    /\ stage' = [stage EXCEPT ![r] = IF Accepted(handler[Call(r)]) THEN "ok" ELSE "error"]
    /\ UNCHANGED <<limiterVars, queueVars, attempt>>

\* attemptTimeout: no status, which is tried again once.
GiveUp(r) ==
    /\ stage[r] = "posting"
    /\ IF attempt[r] = 1
       THEN attempt' = [attempt EXCEPT ![r] = 2] /\ UNCHANGED stage
       ELSE stage' = [stage EXCEPT ![r] = "error"] /\ UNCHANGED attempt
    /\ UNCHANGED <<limiterVars, queueVars>>

\* A call reaches the node, at once, late or never.
Arrive(c) ==
    /\ attempt[c[1]] >= c[2]
    /\ CheckShedding(c)
    /\ UNCHANGED <<limiterVars, gatewayVars>>

-----------------------------------------------------------------------------
Init ==
    /\ LimiterInit /\ QueueInit
    /\ stage = [r \in Requests |-> "new"]
    /\ attempt = [r \in Requests |-> 0]

\* Bound: the clock stops when nobody is left to ask the limiter.
Limiter ==
    /\ \E r \in Requests : stage[r] \in {"new", "limiting"}
    /\ Sweep \/ Tick
    /\ UNCHANGED <<queueVars, gatewayVars>>
Node == NodeStep /\ UNCHANGED <<limiterVars, gatewayVars>>

Next ==
    \/ \E r \in Requests : Enter(r) \/ Limit(r) \/ Answered(r) \/ GiveUp(r)
    \/ \E c \in Calls : Arrive(c)
    \/ Limiter \/ Node

Spec == Init /\ [][Next]_vars

\* The node's handlers and its goroutine run.
FairSpec ==
    /\ Spec
    /\ \A c \in Calls : WF_vars(Apply(c) /\ UNCHANGED <<limiterVars, gatewayVars>>)
    /\ WF_vars((Select \/ Drain \/ Commit \/ Reply) /\ UNCHANGED <<limiterVars, gatewayVars>>)

-----------------------------------------------------------------------------
\* Properties.

\* Every variable has its type; a request is in the limiter only while its handler is.
TypeOK ==
    /\ LimiterTypeOK /\ QueueTypeOK
    /\ stage \in [Requests -> {"new", "limiting", "posting", "busy", "limited", "ok", "error"}]
    /\ attempt \in [Requests -> 0..2]
    /\ Cardinality(Slots) <= MaxInflight
    /\ \A r \in Requests : held[r] # NoBucket => stage[r] = "limiting"

\* A client that is told its event was accepted has it in the log, once, however
\* many of its own and other clients' calls brought it, in one batch or in several
\* (within the TTL of the index, and not under --no-idempotent).
AcceptedOnce ==
    \A r \in Requests : stage[r] = "ok" =>
        Cardinality({i \in DOMAIN log : log[i] = IdOf[<<r, 1>>]}) = 1

\* A handler that has passed the shed check is answered in the end: it does not wait
\* for ever in front of a full queue, nor for the rest of a batch, and not less so
\* when its gateway has given up on it.  (Of the finitely many calls none is
\* under way again and again.)
AllServed == []<>(\A c \in Calls : handler[c] \notin {"checked", "applying"})
=============================================================================
