------------------------------- MODULE Routing ------------------------------
(***************************************************************************)
(* How a gateway uses its ring (cmd/gateway/main.go): handleEvent's choice  *)
(* of the nodes it calls, the failover of a retry, and handleAggregates'    *)
(* merge by owner, while watchMembership adds and removes nodes and         *)
(* pollHealth sets the overload flags.  Every access takes the ring's lock  *)
(* for itself, so the ring may change between two of them.                  *)
(*                                                                          *)
(* What the calls store and answer is in QuorumWrite, where the membership  *)
(* events come from in Membership; here both are inputs.  Requests only     *)
(* read the ring, so one at a time is followed.                             *)
(***************************************************************************)
EXTENDS Ring

CONSTANTS
    Nodes,     \* HTTP addresses, numbered in the order of their names
    Peers,     \* --peers, the nodes a gateway starts with
    Layouts,   \* placements of the virtual nodes: hash[n][i]
    Keys,      \* keys, known by their hashes
    RFs,       \* values of --rf
    MaxTurns   \* bound: ring changes in the course of one aggregates query

\* Two virtual nodes with one hash (some 2^-15 for three nodes) would be put in
\* an order that sort.Slice does not define.
ASSUME RoutingAssumption ==
    /\ Nodes \subseteq Nat \ {0}
    /\ IsFiniteSet(Nodes)
    /\ Peers \subseteq Nodes
    /\ \A h \in Layouts : \A n \in Nodes : h[n] \in Seq(Nat) \ {<<>>}
    /\ \A h \in Layouts : \A n, m \in Nodes : \A i \in DOMAIN h[n], j \in DOMAIN h[m] :
         h[n][i] = h[m][j] => n = m /\ i = j
    /\ Keys \subseteq Nat
    /\ RFs \subseteq 1..Cardinality(Peers)
    /\ MaxTurns \in Nat

VARIABLES
    hash,        \* the layout of this run
    config,      \* [rf, primaryRepl]: the gateway's flags
    ring,        \* gw.ring
    overloaded,  \* nodes with gw.overloaded = true
    request,     \* the request followed: a write, an aggregates query or none
    turns        \* history: ring changes since the query took its list of nodes

vars == <<hash, config, ring, overloaded, request, turns>>

Idle == [kind |-> "none"]
NoNode == 0
Steady == UNCHANGED <<hash, config>>
Min2(a, b) == IF a < b THEN a ELSE b

-----------------------------------------------------------------------------
\* watchMembership and pollHealth.

Querying == request.kind = "query"
Changed(r) ==
    /\ ring' = r
    /\ turns' = IF Querying /\ r # ring THEN turns + 1 ELSE turns
    /\ turns' <= MaxTurns

Join(n) ==
    /\ Changed(AddNode(hash, ring, n))
    /\ Steady /\ UNCHANGED <<overloaded, request>>

Dead(n) ==
    /\ Changed(RemoveNode(ring, n))
    /\ overloaded' = overloaded \ {n}
    /\ Steady /\ UNCHANGED request

\* The answer of a node that was in the ring when pollHealth called it; an error
\* counts as not overloaded.
HealthAnswer(n) ==
    /\ ~config.primaryRepl     \* the flags are not read otherwise
    /\ \/ overloaded' = overloaded \cup {n}
       \/ overloaded' = overloaded \ {n}
    /\ Steady /\ UNCHANGED <<ring, request, turns>>

-----------------------------------------------------------------------------
\* handleEvent.

Read(k) == Replicas(ring, k, config.rf)

\* The first replica that is not overloaded changes places with the first.
SwapFirst(rs) ==
    LET ok == {i \in DOMAIN rs : rs[i] \notin overloaded}
    IN IF config.primaryRepl \/ ok = {} THEN rs
       ELSE LET i == CHOOSE i \in ok : \A j \in ok : i <= j
            IN [rs EXCEPT ![1] = rs[i], ![i] = rs[1]]

Write(k) ==
    /\ request = Idle
    /\ ring.nodes # {}
    /\ request' = [kind |-> "write", pc |-> "sending", attempt |-> 1, key |-> k,
                   targets |-> SwapFirst(Read(k)), past |-> NoNode]
    /\ Steady /\ UNCHANGED <<ring, overloaded, turns>>

\* A write that finds no node in the ring, at once or in its retry, indexes an empty
\* list.  With --primary-replication that is in the handler, where net/http recovers;
\* without, in a goroutine, which ends the process, and the gateway starts again.
Panic ==
    /\ ring.nodes = {}
    /\ \/ request = Idle
       \/ request.kind = "write" /\ (request.pc = "bumping" \/ request.attempt = 1)
    /\ request' = Idle
    /\ IF config.primaryRepl THEN UNCHANGED <<ring, overloaded>>
       ELSE ring' = NewRing(hash, Peers) /\ overloaded' = {}
    /\ Steady /\ UNCHANGED turns

Sending == request.kind = "write" /\ request.pc = "sending"
Bumping == request.kind = "write" /\ request.pc = "bumping"
Resend(rs, past) ==
    request' = [request EXCEPT !.pc = "sending", !.attempt = 2, !.targets = rs, !.past = past]

\* A quorum, a refusal, or the second failure: the client has its answer.
Answer ==
    /\ Sending
    /\ request' = Idle
    /\ Steady /\ UNCHANGED <<ring, overloaded, turns>>

\* No quorum, and an epoch conflict or no result from the first replica: the ring
\* is read again.  Also where the bump of the epoch has failed.
Retry ==
    /\ (Sending /\ request.attempt = 1) \/ Bumping
    /\ ring.nodes # {}
    /\ Resend(Read(request.key), NoNode)
    /\ Steady /\ UNCHANGED <<ring, overloaded, turns>>

\* SWIM suspects the primary: the epoch is bumped first, or has been a moment ago.
Suspect ==
    /\ Sending
    /\ request.attempt = 1
    /\ config.primaryRepl
    /\ request' = [request EXCEPT !.pc = "bumping"]
    /\ Steady /\ UNCHANGED <<ring, overloaded, turns>>

\* The failover: the first replica, by now, that is not the suspected node.  With
\* no other replica the retry is a plain one.
FirstIn(rs, ns) == rs[CHOOSE i \in DOMAIN rs : rs[i] \in ns /\ \A j \in 1..(i - 1) : rs[j] \notin ns]
KeepsSuspect(rs, d) == Range(rs)           \* faulty: the suspected node may be first
PastSuspect(rs, d) == Range(rs) \ {d}
FailOver ==
    /\ Bumping
    /\ ring.nodes # {}
    /\ LET rs   == Read(request.key)
           d    == request.targets[1]
           rest == PastSuspect(rs, d)
       IN IF rest # {} THEN Resend(<<FirstIn(rs, rest)>>, d) ELSE Resend(rs, NoNode)
    /\ Steady /\ UNCHANGED <<ring, overloaded, turns>>

-----------------------------------------------------------------------------
\* handleAggregates, followed for one key.  `holders` answered in time and count
\* the key; the answers are merged node by node, in the order of the list, and the
\* owner is looked up anew for each.

Query(k) ==
    /\ request = Idle
    /\ \E have \in SUBSET ring.nodes :
         request' = [kind |-> "query", key |-> k, todo |-> ring.nodes, holders |-> have,
                     counted |-> {}]
    /\ turns' = 0
    /\ Steady /\ UNCHANGED <<ring, overloaded>>

AnyHolder(k, n) == TRUE                    \* faulty: replicas are counted, too
IsOwner(k, n) == Owner(ring, k) = n
Merge ==
    /\ Querying
    /\ request.todo # {}
    /\ LET n == CHOOSE n \in request.todo : \A m \in request.todo : n <= m
       IN request' = [request EXCEPT
            !.todo = @ \ {n},
            !.counted = IF n \in request.holders /\ IsOwner(request.key, n)
                        THEN @ \cup {n} ELSE @]
    /\ Steady /\ UNCHANGED <<ring, overloaded, turns>>

QueryDone ==
    /\ Querying
    /\ request.todo = {}
    /\ request' = Idle
    /\ turns' = 0
    /\ Steady /\ UNCHANGED <<ring, overloaded>>

-----------------------------------------------------------------------------
Init ==
    /\ hash \in Layouts
    /\ config \in [rf : RFs, primaryRepl : BOOLEAN]
    /\ ring = NewRing(hash, Peers)
    /\ overloaded = {}
    /\ request = Idle
    /\ turns = 0

Next ==
    \/ \E n \in Nodes : Join(n) \/ Dead(n) \/ HealthAnswer(n)
    \/ \E k \in Keys : Write(k) \/ Query(k)
    \/ Panic \/ Answer \/ Retry \/ Suspect \/ FailOver
    \/ Merge \/ QueryDone

Spec == Init /\ [][Next]_vars

-----------------------------------------------------------------------------
\* Properties.

\* README.md:65, "Routing is deterministic for a given node set": whatever joins
\* and deaths made a ring, it routes like the ring New builds from its nodes, so
\* gateways and nodes with one view agree on every owner and replica list.
Deterministic ==
    ring = NewRing(hash, ring.nodes)

\* Consistent hashing: a change of the ring moves a key only to the node that has
\* joined, or from the node that has left to the key's next replica, the one that
\* holds its copies already.
OnlyNeighboursMove ==
    [][\A k \in Keys : ring.nodes # {} /\ Owner(ring, k) # Owner(ring', k) =>
         \/ {Owner(ring', k)} = ring'.nodes \ ring.nodes
         \/ /\ {Owner(ring, k)} = ring.nodes \ ring'.nodes
            /\ Owner(ring', k) = IF Cardinality(ring.nodes) > 1 THEN Replicas(ring, k, 2)[2]
                                 ELSE NoOwner]_vars

\* An attempt that goes to the replicas goes to each of them once, the owner among
\* them, whichever was overloaded: as many as --rf asks for and the ring has.  A
\* failover past a node goes where the key's owner will be once that node has left
\* the ring, so what the retry stores is counted after the death.
GoesToReplicas ==
    [][request'.kind = "write" /\ request'.pc = "sending" /\ request' # request =>
         IF request'.past = NoNode
         THEN /\ Owner(ring, request'.key) \in Range(request'.targets)
              /\ Cardinality(Range(request'.targets)) = Len(request'.targets)
              /\ Len(request'.targets) = Min2(config.rf, Cardinality(ring.nodes))
         ELSE request'.targets = <<Owner(RemoveNode(ring, request'.past), request'.key)>>]_vars

\* README.md:657, "merge counts": each replica counts a key, and the merge takes it
\* from its owner alone; while the ring changes, from as many nodes as have owned
\* it.  With a steady ring the owner's answer is not left out either.
CountedOnce ==
    Querying =>
      /\ Cardinality(request.counted) <= 1 + turns
      /\ turns = 0 /\ request.todo = {} =>
           request.counted = {Owner(ring, request.key)} \cap request.holders
=============================================================================
