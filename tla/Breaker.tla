------------------------------ MODULE Breaker -------------------------------
(***************************************************************************)
(* One circuit breaker of the gateway (internal/breaker/breaker.go) under   *)
(* the overlapping requests of gateway.post (cmd/gateway/main.go): a        *)
(* request calls Allow, goes out, and some time later calls Success or      *)
(* Failure, whatever the breaker has become meanwhile.                      *)
(***************************************************************************)
EXTENDS Integers

CONSTANTS
    Requests,   \* requests to this node that may be out at once
    Threshold,  \* --breaker-threshold
    Cooldown    \* --breaker-cooldown, in ticks

ASSUME BreakerAssumption ==
    /\ Threshold \in Nat \ {0}
    /\ Cooldown \in Nat

VARIABLES
    state,      \* Breaker.state
    failures,   \* Breaker.failures
    elapsed,    \* ticks since Breaker.openedAt, up to Cooldown
    out,        \* out[r]: "none", or how the request that is out was allowed
    up,         \* does the node answer? (the environment)
    streak      \* history: failures since the last success, up to Threshold

breakerVars == <<state, failures, elapsed, out, up, streak>>

-----------------------------------------------------------------------------
\* Allow lets a request out: any one while closed, and the one that turns an
\* open breaker half-open.
CooledDown == elapsed >= Cooldown

AllowClosed(r) ==
    /\ out[r] = "none"
    /\ state = "closed"
    /\ out' = [out EXCEPT ![r] = "normal"]
    /\ UNCHANGED <<state, failures, elapsed, up, streak>>

AllowProbe(r) ==
    /\ out[r] = "none"
    /\ state = "open"
    /\ CooledDown
    /\ state' = "half-open"
    /\ out' = [out EXCEPT ![r] = "probe"]
    /\ UNCHANGED <<failures, elapsed, up, streak>>

\* Success: an answer below 500.
FailuresKept == failures                   \* faulty: the count is not reset
FailuresCleared == 0

Success(r) ==
    /\ out[r] # "none"
    /\ up
    /\ failures' = FailuresCleared
    /\ state' = "closed"
    /\ out' = [out EXCEPT ![r] = "none"]
    /\ streak' = 0
    /\ UNCHANGED <<elapsed, up>>

\* Failure: a timeout, a transport error or an answer of 500 and above.
OpensAtThreshold == failures + 1 >= Threshold   \* faulty: no case for half-open
OpensLate == state = "half-open" \/ failures >= Threshold   \* faulty: off by one
Opens == state = "half-open" \/ failures + 1 >= Threshold

Failure(r) ==
    /\ out[r] # "none"
    /\ ~up
    /\ IF Opens
         THEN state' = "open" /\ elapsed' = 0 /\ failures' = 0
         ELSE failures' = failures + 1 /\ UNCHANGED <<state, elapsed>>
    /\ out' = [out EXCEPT ![r] = "none"]
    /\ streak' = IF streak < Threshold THEN streak + 1 ELSE streak
    /\ UNCHANGED up

Tick ==
    /\ elapsed < Cooldown
    /\ elapsed' = elapsed + 1
    /\ UNCHANGED <<state, failures, out, up, streak>>

NodeChanges == up' = ~up /\ UNCHANGED <<state, failures, elapsed, out, streak>>

-----------------------------------------------------------------------------
BreakerInit ==
    /\ state = "closed"
    /\ failures = 0
    /\ elapsed = 0
    /\ out = [r \in Requests |-> "none"]
    /\ up = TRUE
    /\ streak = 0

RequestStep(r) == AllowClosed(r) \/ AllowProbe(r) \/ Success(r) \/ Failure(r)

BreakerNext == (\E r \in Requests : RequestStep(r)) \/ Tick \/ NodeChanges

BreakerSpec == BreakerInit /\ [][BreakerNext]_breakerVars

\* Time passes and every request that is out ends: the client has a timeout.
EndFair == \A r \in Requests : WF_breakerVars(Success(r) \/ Failure(r))

\* ... and clients keep sending.
FairSpec ==
    /\ BreakerSpec
    /\ WF_breakerVars(Tick)
    /\ EndFair
    /\ \A r \in Requests : WF_breakerVars(AllowClosed(r) \/ AllowProbe(r))

-----------------------------------------------------------------------------
\* Properties.

\* Every variable has its type; the counter never reaches the threshold, since
\* the failure that would take it there opens the breaker.
BreakerTypeOK ==
    /\ state \in {"closed", "open", "half-open"}
    /\ failures \in 0..(Threshold - 1)
    /\ elapsed \in 0..Cooldown
    /\ out \in [Requests -> {"none", "normal", "probe"}]
    /\ up \in BOOLEAN
    /\ streak \in 0..Threshold

\* A half-open breaker, which refuses everybody, waits for a probe that is
\* really out: late results of older requests never leave it half-open with no
\* request left to settle it.
HalfOpenHasProbe == state = "half-open" => \E r \in Requests : out[r] = "probe"

\* README.md:175, "Opens after N consecutive failures to a node": it leaves
\* closed only when the last Threshold results were all failures.
OpensAfterStreak ==
    [][state = "closed" /\ state' = "open" => streak' = Threshold]_breakerVars

\* A node that stays up is used again, although every request the breaker
\* refuses meanwhile tells it nothing.
Recovers == <>[]up => <>[](state = "closed")

\* README.md:175, "probes with one request after the cooldown before fully
\* re-closing": only the success of a probe closes it.
ReclosesByProbe ==
    [][\A r \in Requests : Success(r) /\ state # "closed" => out[r] = "probe"]_breakerVars
=============================================================================
