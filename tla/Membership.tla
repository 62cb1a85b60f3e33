----------------------------- MODULE Membership -----------------------------
(***************************************************************************)
(* SWIM membership (internal/membership/membership.go) and the rings that   *)
(* follow it (watchMembership of cmd/gateway/main.go, watchNodeRing of      *)
(* cmd/node/main.go).                                                       *)
(*                                                                          *)
(* Members ping each other over UDP, which loses and reorders packets, and  *)
(* carry gossip on pings and acks.  SWIM addresses are taken to be IP       *)
(* literals, so that resolveAddr is the identity.  A timeout may strike at  *)
(* any time: the durations are not modelled.                                *)
(***************************************************************************)
EXTENDS Integers, Sequences, FiniteSets, SequencesExt

CONSTANTS
    Members,      \* SWIM addresses
    Nodes,        \* members with an HTTP address, which stands for it
    Watchers,     \* members whose events a ring follows
    Probers,      \* members whose probe loop is followed ...
    Steady,       \* ... and those of them whose loops and timers are sure to go on
    Seeds,        \* Seeds[m]: --swim-seeds of m
    Peers,        \* Peers[m]: --peers of m, where it starts a ring
    Running,      \* members that run at first, the pings of their start being lost
    EventTTL,     \* eventTTL, 10 in the code
    EventCap,     \* capacity of the channel events, 64 in the code
    MaxCrashes,   \* bound: MaxCrashes[m], crashes of the process of m
    MaxProbes,    \* bound: MaxProbes[m], pings and indirect pings m waits for at a time
    MaxInFlight,  \* bound: packets in the network; more are lost
    MaxInc        \* bound: incarnations stop there

ASSUME MembershipAssumption ==
    /\ IsFiniteSet(Members)
    /\ Nodes \subseteq Members /\ Watchers \subseteq Members /\ Probers \subseteq Members
    /\ Steady \subseteq Probers /\ Running \subseteq Members
    /\ Seeds \in [Members -> SUBSET Members]
    /\ Peers \in [Members -> SUBSET Nodes]
    /\ EventTTL \in Nat \ {0} /\ EventCap \in Nat
    /\ MaxCrashes \in [Members -> Nat]
    /\ MaxProbes \in [Members -> Nat]
    /\ {MaxInFlight, MaxInc} \subseteq Nat

VARIABLES
    up,       \* members whose process runs
    crashes,  \* crashes[m]: how often it died
    table,    \* table[m]: m's members map
    pending,  \* pending[m]: gossip to pass on, oldest first
    events,   \* events[m]: the channel events
    probes,   \* calls of directPing, and waits for an indirect ack
    ackWait,  \* ackWait: the probe of its member that an ack of its target ends
    acked,    \* probes whose channel holds an ack
    net,      \* packets on their way
    ring,     \* ring[w]: the ring that follows the events of w
    blind,    \* history: blind[w], nodes declared dead at w before w knew their HTTP address
    dropped   \* history: members whose channel was full when an event came

procVars == <<up, crashes>>
viewVars == <<table, pending, events>>
probeVars == <<probes, ackWait, acked>>
ringVars == <<ring, blind>>
vars == <<procVars, viewVars, probeVars, net, ringVars, dropped>>

Unknown == [state |-> "unknown", http |-> FALSE, inc |-> 0]
Known(row, t) == row[t].state # "unknown"
NotDead(m) == {t \in Members : table[m][t].state \in {"alive", "suspect"}}

\* One entry of ackWait per member and target, whoever waits.
SameKey(p, q) == p.by = q.by /\ p.target = q.target

-----------------------------------------------------------------------------
\* Packets.

\* Any of the packets sent may be lost.
Packets(kept, sent) ==
    {kept \cup S : S \in {S \in SUBSET sent : Cardinality(kept \cup S) <= MaxInFlight}}

Join(m) == [type |-> "join", addr |-> m, inc |-> table[m][m].inc, ttl |-> EventTTL]

\* drainEvents: at most four.
Drained(q) == SubSeq(q, 1, IF Len(q) < 4 THEN Len(q) ELSE 4)
Undrained(q) == SubSeq(q, 5, Len(q))

Ping(m, t, es) == [type |-> "ping", from |-> m, to |-> t, events |-> es]
\* recv replaces the sender that an ack names by the one the packet came from.
Ack(m, t, es) == [type |-> "ack", from |-> m, to |-> t, events |-> es]
PingReq(m, h, t) == [type |-> "ping-req", from |-> m, to |-> h, target |-> t]

-----------------------------------------------------------------------------
\* mergeEvents, on a view [row, pending, events, dropped, blind] of one member.

\* The events channel; what it cannot hold is dropped.
Emit(v, type, t) ==
    IF Len(v.events) < EventCap
    THEN [v EXCEPT !.events = Append(@, [type |-> type, addr |-> t, http |-> v.row[t].http])]
    ELSE [v EXCEPT !.dropped = TRUE]

\* Gossip that would travel with ttl 0 is ignored by everyone.
Repeat(v, e, inc) ==
    IF e.ttl = 1 THEN v
    ELSE [v EXCEPT !.pending = Append(@, [e EXCEPT !.ttl = @ - 1, !.inc = inc])]

\* A known member's HTTP address is news.
NewsHttp(row, e) == e.addr \in Nodes /\ ~row[e.addr].http

\* What brings a suspect or dead member back.
OverrulesEqual(row, e) == e.inc >= row[e.addr].inc      \* faulty: > intended
Overrules(row, e) == e.inc > row[e.addr].inc

JoinsSilently(v, row, e) == Repeat([v EXCEPT !.row = row], e, e.inc)   \* faulty: no event
Joined(v, row, e) == Repeat(Emit([v EXCEPT !.row = row], "join", e.addr), e, e.inc)

HearJoin(v, e) ==
    LET t == e.addr
    IN CASE ~Known(v.row, t) ->
              Joined(v, [v.row EXCEPT ![t] = [state |-> "alive", http |-> t \in Nodes,
                                              inc |-> e.inc]], e)
         [] Known(v.row, t) /\ NewsHttp(v.row, e) ->
              Joined(v, [v.row EXCEPT ![t].http = TRUE, ![t].inc = e.inc], e)
         [] OTHER ->
              IF v.row[t].state = "alive"
              THEN Repeat([v EXCEPT !.row[t].inc = IF e.inc > @ THEN e.inc ELSE @], e, e.inc)
              ELSE IF Overrules(v.row, e)
              THEN Joined(v, [v.row EXCEPT ![t].state = "alive", ![t].inc = e.inc], e)
              ELSE v

Die(v, t) ==
    Emit([v EXCEPT !.row[t].state = "dead",
                   !.blind = IF v.row[t].http THEN @ ELSE @ \cup {t}], "dead", t)

HearDead(v, e) ==
    IF ~Known(v.row, e.addr) \/ v.row[e.addr].state = "dead" \/ e.inc < v.row[e.addr].inc THEN v
    ELSE Repeat(Die(v, e.addr), e, v.row[e.addr].inc)

Hear(v, e) == IF e.type = "join" THEN HearJoin(v, e) ELSE HearDead(v, e)
Merged(v, es) == FoldLeft(Hear, v, es)

View(m) == [row |-> table[m], pending |-> pending[m], events |-> events[m],
            dropped |-> m \in dropped, blind |-> blind[m]]
SetView(m, v) ==
    /\ table' = [table EXCEPT ![m] = v.row]
    /\ pending' = [pending EXCEPT ![m] = v.pending]
    /\ events' = [events EXCEPT ![m] = IF m \in Watchers THEN v.events ELSE <<>>]
    /\ dropped' = IF v.dropped THEN dropped \cup {m} ELSE dropped
    /\ blind' = [blind EXCEPT ![m] = IF m \in Watchers THEN v.blind \cap Nodes ELSE {}]

-----------------------------------------------------------------------------
\* probe, probeOne, directPing and the helper's goroutine.

\* The entry of the target now belongs to this probe.
Await(p) ==
    /\ probes' = probes \cup {p}
    /\ ackWait' = {q \in ackWait : ~SameKey(p, q)} \cup {p}

\* The probes that m waits for have numbers, since it may wait for one target more
\* than once: an indirect ping lasts longer than the interval between two probes.
Free(m) == {n \in 1..MaxProbes[m] : \A p \in probes : p.by = m => p.no # n}

DirectPing(m, t, kind, for) ==
    /\ \E n \in Free(m) :
         /\ \A k \in Free(m) : n <= k
         /\ Await([by |-> m, target |-> t, kind |-> kind, for |-> for, no |-> n])
    /\ pending' = [pending EXCEPT ![m] = Undrained(@)]
    /\ UNCHANGED acked

Probe(m, t) ==
    /\ m \in up
    /\ t \in NotDead(m) \ {m}
    /\ DirectPing(m, t, "direct", m)
    /\ net' \in Packets(net, {Ping(m, t, Drained(pending[m]))})
    /\ UNCHANGED <<procVars, table, events, ringVars, dropped>>

EndProbeOnly(p) ==                                      \* faulty: the entry stays
    /\ probes' = probes \ {p}
    /\ acked' = acked \ {p}
    /\ UNCHANGED ackWait
\* A probe that ends deletes the entry of its target, even another probe's.
EndProbe(p) ==
    /\ probes' = probes \ {p}
    /\ ackWait' = {q \in ackWait : ~SameKey(p, q)}
    /\ acked' = acked \ {p}

\* A helper tells its requester.
Confirmed(p) ==
    /\ p \in acked
    /\ EndProbe(p)
    /\ IF p.kind = "helper" THEN net' \in Packets(net, {Ack(p.by, p.for, <<>>)}) ELSE UNCHANGED net
    /\ UNCHANGED <<procVars, viewVars, ringVars, dropped>>

\* pickN: two helpers, if there are as many.
TwoHelpers(p) == {H \in SUBSET (NotDead(p.by) \ {p.by, p.target}) : Cardinality(H) = 2}  \* faulty
Helpers(p) ==
    LET others == NotDead(p.by) \ {p.by, p.target}
    IN {H \in SUBSET others : \/ Cardinality(H) = 2
                              \/ Cardinality(others) < 2 /\ H = others}

DirectTimeout(p) ==
    /\ p \in probes /\ p.kind = "direct"
    /\ LET i == [p EXCEPT !.kind = "indirect"]
       IN /\ probes' = (probes \ {p}) \cup {i}
          /\ ackWait' = {q \in ackWait : ~SameKey(p, q)} \cup {i}
          /\ acked' = acked \ {p}
    /\ \E H \in Helpers(p) : net' \in Packets(net, {PingReq(p.by, h, p.target) : h \in H})
    /\ UNCHANGED <<procVars, viewVars, ringVars, dropped>>

IndirectTimeout(p) ==
    /\ p \in probes /\ p.kind = "indirect"
    /\ EndProbe(p)
    /\ table' = [table EXCEPT ![p.by][p.target].state = IF @ = "alive" THEN "suspect" ELSE @]
    /\ UNCHANGED <<procVars, pending, events, net, ringVars, dropped>>

HelperTimeout(p) ==
    /\ p \in probes /\ p.kind = "helper"
    /\ EndProbe(p)
    /\ UNCHANGED <<procVars, viewVars, net, ringVars, dropped>>

\* checkSuspects, once the suspicion of t has lasted.
Declared(v, t) ==
    LET d == Die(v, t)
    IN [d EXCEPT !.pending =
          Append(@, [type |-> "dead", addr |-> t, inc |-> v.row[t].inc, ttl |-> EventTTL])]
Expire(m, t) ==
    /\ m \in up
    /\ table[m][t].state = "suspect"
    /\ SetView(m, Declared(View(m), t))
    /\ UNCHANGED <<procVars, probeVars, net, ring>>

-----------------------------------------------------------------------------
\* handleMsg.

Received(x) == x \in net /\ x.to \in up

HandlePing(x) ==
    /\ Received(x) /\ x.type = "ping"
    /\ LET m == x.to
           v == Merged(View(m), x.events)
       IN /\ SetView(m, [v EXCEPT !.pending = Undrained(@)])
          /\ net' \in Packets(net \ {x}, {Ack(m, x.from, <<Join(m)>> \o Drained(v.pending))})
    /\ UNCHANGED <<procVars, probeVars, ring>>

\* An ack refutes the suspicion of the member it came from and ends the probe
\* whose entry it finds.
Refuted(row, t) ==
    IF row[t].state = "suspect"
    THEN [row EXCEPT ![t].state = "alive", ![t].inc = IF @ < MaxInc THEN @ + 1 ELSE @]
    ELSE row
HandleAck(x) ==
    /\ Received(x) /\ x.type = "ack"
    /\ LET v == Merged(View(x.to), x.events)
       IN SetView(x.to, [v EXCEPT !.row = Refuted(@, x.from)])
    /\ acked' = acked \cup {p \in ackWait : p.by = x.to /\ p.target = x.from}
    /\ net' = net \ {x}
    /\ UNCHANGED <<procVars, probes, ackWait, ring>>

HandlePingReq(x) ==
    /\ Received(x) /\ x.type = "ping-req"
    /\ DirectPing(x.to, x.target, "helper", x.from)
    /\ net' \in Packets(net \ {x}, {Ping(x.to, x.target, Drained(pending[x.to]))})
    /\ UNCHANGED <<procVars, table, events, ringVars, dropped>>

\* A packet nobody listens for.
Unheard(x) ==
    /\ x \in net /\ x.to \notin up
    /\ net' = net \ {x}
    /\ UNCHANGED <<procVars, viewVars, probeVars, ringVars, dropped>>

-----------------------------------------------------------------------------
\* watchMembership and watchNodeRing: events without an HTTP address are skipped.
Watch(w) ==
    /\ w \in up
    /\ events[w] # <<>>
    /\ LET e == Head(events[w])
       IN ring' = [ring EXCEPT ![w] = CASE ~e.http -> @
                                        [] e.http /\ e.type = "join" -> @ \cup {e.addr}
                                        [] e.http /\ e.type = "dead" -> @ \ {e.addr}]
    /\ events' = [events EXCEPT ![w] = Tail(@)]
    /\ UNCHANGED <<procVars, table, pending, probeVars, net, blind, dropped>>

\* The process of m dies.
Crash(m) ==
    /\ m \in up
    /\ crashes[m] < MaxCrashes[m]
    /\ up' = up \ {m}
    /\ crashes' = [crashes EXCEPT ![m] = @ + 1]
    /\ probes' = {p \in probes : p.by # m}
    /\ ackWait' = {p \in ackWait : p.by # m}
    /\ acked' = {p \in acked : p.by # m}
    /\ table' = [table EXCEPT ![m] = [t \in Members |-> Unknown]]
    /\ pending' = [pending EXCEPT ![m] = <<>>]
    /\ events' = [events EXCEPT ![m] = <<>>]
    /\ ring' = [ring EXCEPT ![m] = {}]
    /\ blind' = [blind EXCEPT ![m] = {}]
    /\ UNCHANGED <<net, dropped>>

\* New, and the ring of the peers the process is started with.
FirstRow(m) ==
    [t \in Members |-> IF t = m THEN [state |-> "alive", http |-> m \in Nodes, inc |-> 0]
                       ELSE IF t \in Seeds[m] THEN [Unknown EXCEPT !.state = "alive"]
                       ELSE Unknown]
FirstRing(m) == IF m \in Watchers THEN Peers[m] ELSE {}

Start(m) ==
    /\ m \notin up
    /\ up' = up \cup {m}
    /\ table' = [table EXCEPT ![m] = FirstRow(m)]
    /\ ring' = [ring EXCEPT ![m] = FirstRing(m)]
    /\ LET join == [type |-> "join", addr |-> m, inc |-> 0, ttl |-> EventTTL]
       IN net' \in Packets(net, {Ping(m, s, <<join>>) : s \in Seeds[m] \ {m}})
    /\ UNCHANGED <<crashes, pending, events, probeVars, blind, dropped>>

-----------------------------------------------------------------------------
Init ==
    /\ up = Running
    /\ crashes = [m \in Members |-> 0]
    /\ table = [m \in Members |-> IF m \in Running THEN FirstRow(m)
                                  ELSE [t \in Members |-> Unknown]]
    /\ pending = [m \in Members |-> <<>>]
    /\ events = [m \in Members |-> <<>>]
    /\ probes = {} /\ ackWait = {} /\ acked = {}
    /\ net = {}
    /\ ring = [m \in Members |-> IF m \in Running THEN FirstRing(m) ELSE {}]
    /\ blind = [m \in Members |-> {}]
    /\ dropped = {}

Next ==
    \/ \E m \in Members : Start(m) \/ Crash(m)
    \/ \E m \in Probers, t \in Members : Probe(m, t)
    \/ \E m, t \in Members : Expire(m, t)
    \/ \E p \in probes : Confirmed(p) \/ DirectTimeout(p) \/ IndirectTimeout(p) \/ HelperTimeout(p)
    \/ \E x \in net : HandlePing(x) \/ HandleAck(x) \/ HandlePingReq(x) \/ Unheard(x)
    \/ \E w \in Watchers : Watch(w)

Spec == Init /\ [][Next]_vars

\* Every ping interval starts a probe of each member that is not dead (unless
\* MaxProbes stands in the way), and timers run out; those of a member that is not
\* in Steady may stand still.
Timeout(p) == DirectTimeout(p) \/ IndirectTimeout(p)

FairSpec ==
    /\ Spec
    /\ \A m \in Steady :
         /\ \A t \in Members \ {m} :
              /\ SF_vars(Probe(m, t)) /\ WF_vars(Expire(m, t))
              /\ WF_vars(\E p \in probes : p.by = m /\ p.target = t /\ Timeout(p))
         /\ WF_vars(\E p \in probes : p.by = m /\ HelperTimeout(p))

-----------------------------------------------------------------------------
\* Properties.

\* Every variable has its type; an entry of ackWait is that of one running probe.
TypeOK ==
    /\ up \subseteq Members
    /\ table \in [Members -> [Members ->
         [state : {"unknown", "alive", "suspect", "dead"}, http : BOOLEAN, inc : 0..MaxInc]]]
    /\ ackWait \subseteq probes /\ acked \subseteq probes
    /\ \A p, q \in ackWait : SameKey(p, q) => p = q
    /\ \A w \in Members : ring[w] \subseteq Nodes /\ blind[w] \subseteq Members
    /\ \A m \in up : table[m][m].state \in {"alive", "dead"}

\* README.md:65, "joins and deaths add or remove nodes from the ring": no event is
\* dropped, and once a watcher has read its events, its ring holds of the nodes that
\* it was started with (--peers) or whose join told it their HTTP address exactly
\* those that it does not hold dead, and those that died before that address was
\* known.  (In the life of a process each member joins and dies once at most, so
\* that the channel of 64 holds the events of 32 members even if nobody reads.)
Announced(w, t) == t \in Peers[w] \/ (t # w /\ table[w][t].http)
RingFollows ==
    /\ dropped = {}
    /\ \A w \in Watchers \cap up : events[w] = <<>> =>
         ring[w] = {t \in Nodes : /\ Announced(w, t)
                                  /\ table[w][t].state # "dead" \/ t \in blind[w]}

\* A member that was declared dead is dead to whoever heard of it for ever: it does
\* not come back by a late packet, by old gossip or by a restart of its own.
DeadStaysDead ==
    [][\A m, t \in Members :
         table[m][t].state = "dead" /\ m \in up' => table'[m][t].state = "dead"]_vars

\* A member whose process died and is not started again is in the end held dead by
\* every member whose own loops go on: although its probes of it overlap with each
\* other and with those it makes for others, each of which ends the waiting of all,
\* and whatever the other members do.
Completeness ==
    \A m \in Steady : \A t \in Members \ {m} :
        <>[](m \in up /\ t \notin up) => <>[](table[m][t].state \in {"dead", "unknown"})

\* README.md:685, "a falsely suspected node gets removed from the ring and has to
\* rejoin": a process that keeps running is not held dead for ever.
Rejoins ==
    \A m \in Steady : \A t \in Members \ {m} :
        <>[](m \in up /\ t \in up) => []<>(table[m][t].state # "dead")

\* README.md:65: deaths remove nodes from the ring, all of them.
DeathsLeaveRing ==
    \A w \in Watchers \cap up : events[w] = <<>> =>
        \A t \in Nodes : table[w][t].state = "dead" => t \notin ring[w]
=============================================================================
