-------------------------- MODULE MembershipProofs --------------------------
(***************************************************************************)
(* Proofs about Membership, for any members, seeds, TTL and bounds, any     *)
(* loss and delay of packets, and any deaths and restarts.                  *)
(*                                                                          *)
(* 1. What gossip can do to a member's view: nothing but its own gossip     *)
(*    queue (Unmoved), one join (Joins) or one death (Dies).  A join that   *)
(*    is heard carries incarnation 0, since a member announces nobody else  *)
(*    and never learns of suspicion of itself, so that Overrules is never   *)
(*    true.                                                                 *)
(* 2. Typed, the inductive invariant for types, probes and packets; with    *)
(*    it that a member held dead stays so.                                  *)
(* 3. Followed: what a ring will be once its watcher has read the channel.  *)
(*    A member joins and dies at most once in the life of a process, so     *)
(*    that the channel never overflows if it is large enough.               *)
(***************************************************************************)
EXTENDS Membership, FiniteSetTheorems, TLAPS

-----------------------------------------------------------------------------
\* What gossip does to a view.

\* What a member holds of another.
Row == [state : {"unknown", "alive", "suspect", "dead"}, http : BOOLEAN, inc : 0..MaxInc]

\* Nobody says of another member that it joined, so that a join carries incarnation 0.
Gossip ==
    {e \in [type : {"join", "dead"}, addr : Members, inc : 0..MaxInc, ttl : 1..EventTTL] :
       e.type = "join" => e.inc = 0}
\* An entry of the events channel.
Event ==
    {e \in [type : {"join", "dead"}, addr : Members, http : BOOLEAN] : e.http => e.addr \in Nodes}

\* The views on which the gossip handlers work.
Views ==
    [row : [Members -> Row], pending : Seq(Gossip), events : Seq(Event), dropped : BOOLEAN,
     blind : SUBSET Members]

\* The three things that can happen to a view.
Told(v, w, type, t, h) ==
    IF Len(v.events) < EventCap
    THEN w.events = Append(v.events, [type |-> type, addr |-> t, http |-> h]) /\ w.dropped = v.dropped
    ELSE w.events = v.events /\ w.dropped = TRUE

\* Who can still join: unknown, or known without the HTTP address it has.
Joinable(row, t) == ~Known(row, t) \/ (t \in Nodes /\ ~row[t].http)

\* Only the gossip queue, a suspicion or an incarnation changes hands.
Unmoved(v, w) == w.row = v.row /\ w.events = v.events /\ w.dropped = v.dropped /\ w.blind = v.blind
\* t joins, with its HTTP address if it has one; known already, it keeps its state.
Joins(v, w, t) ==
    /\ Joinable(v.row, t)
    /\ \A u \in Members \ {t} : w.row[u] = v.row[u]
    /\ w.row[t].http = (t \in Nodes) /\ w.row[t].inc = 0
    /\ w.row[t].state = IF Known(v.row, t) THEN v.row[t].state ELSE "alive"
    /\ Told(v, w, "join", t, t \in Nodes)
    /\ w.blind = v.blind
\* t dies; a watcher that does not know its HTTP address remembers that.
Dies(v, w, t) ==
    /\ v.row[t].state \in {"alive", "suspect"}
    /\ \A u \in Members \ {t} : w.row[u] = v.row[u]
    /\ w.row[t].http = v.row[t].http /\ w.row[t].inc = v.row[t].inc /\ w.row[t].state = "dead"
    /\ Told(v, w, "dead", t, v.row[t].http)
    /\ w.blind = IF v.row[t].http THEN v.blind ELSE v.blind \cup {t}

\* A view is its five parts.
LEMMA ViewIs ==
  \A v \in Views : /\ v.row \in [Members -> Row] /\ v.pending \in Seq(Gossip) /\ v.events \in Seq(Event)
                   /\ v.dropped \in BOOLEAN /\ v.blind \in SUBSET Members /\ Len(v.events) \in Nat
                   /\ v = [row |-> v.row, pending |-> v.pending, events |-> v.events,
                           dropped |-> v.dropped, blind |-> v.blind]
<1> SUFFICES ASSUME NEW v \in Views
             PROVE /\ v.row \in [Members -> Row] /\ v.pending \in Seq(Gossip) /\ v.events \in Seq(Event)
                   /\ v.dropped \in BOOLEAN /\ v.blind \in SUBSET Members /\ Len(v.events) \in Nat
                   /\ v = [row |-> v.row, pending |-> v.pending, events |-> v.events,
                           dropped |-> v.dropped, blind |-> v.blind]
  OBVIOUS
<1>1. /\ v.row \in [Members -> Row] /\ v.pending \in Seq(Gossip) /\ v.events \in Seq(Event)
      /\ v.dropped \in BOOLEAN /\ v.blind \in SUBSET Members
      /\ v = [row |-> v.row, pending |-> v.pending, events |-> v.events,
              dropped |-> v.dropped, blind |-> v.blind]
  BY DEF Views
<1> HIDE DEF Views
<1> QED
  BY <1>1

\* A view with one part replaced.
LEMMA ViewWith ==
  ASSUME NEW v \in Views, NEW x
  PROVE  /\ [v EXCEPT !.row = x] = [row |-> x, pending |-> v.pending, events |-> v.events,
                                    dropped |-> v.dropped, blind |-> v.blind]
         /\ [v EXCEPT !.pending = x] = [row |-> v.row, pending |-> x, events |-> v.events,
                                        dropped |-> v.dropped, blind |-> v.blind]
         /\ [v EXCEPT !.events = x] = [row |-> v.row, pending |-> v.pending, events |-> x,
                                       dropped |-> v.dropped, blind |-> v.blind]
         /\ [v EXCEPT !.dropped = x] = [row |-> v.row, pending |-> v.pending, events |-> v.events,
                                        dropped |-> x, blind |-> v.blind]
         /\ [v EXCEPT !.blind = x] = [row |-> v.row, pending |-> v.pending, events |-> v.events,
                                      dropped |-> v.dropped, blind |-> x]
  BY DEF Views

\* Five parts make a view.
LEMMA ViewMake ==
  ASSUME NEW r \in [Members -> Row], NEW p \in Seq(Gossip), NEW q \in Seq(Event),
         NEW d \in BOOLEAN, NEW b \in SUBSET Members
  PROVE  [row |-> r, pending |-> p, events |-> q, dropped |-> d, blind |-> b] \in Views
  BY DEF Views

\* An entry of a row is its three parts.
LEMMA RowIs ==
  \A row \in [Members -> Row] : \A t \in Members :
    /\ row[t] \in Row /\ row[t].state \in {"unknown", "alive", "suspect", "dead"}
    /\ row[t].http \in BOOLEAN /\ row[t].inc \in 0..MaxInc
    /\ row[t] = [state |-> row[t].state, http |-> row[t].http, inc |-> row[t].inc]
  BY DEF Row

\* A row with one part replaced.
LEMMA RowWith ==
  ASSUME NEW r \in Row, NEW x
  PROVE  /\ [r EXCEPT !.state = x] = [state |-> x, http |-> r.http, inc |-> r.inc]
         /\ [r EXCEPT !.http = x] = [state |-> r.state, http |-> x, inc |-> r.inc]
         /\ [r EXCEPT !.inc = x] = [state |-> r.state, http |-> r.http, inc |-> x]
  BY DEF Row

\* An event is queued, or dropped.
LEMMA EmitIs ==
  ASSUME NEW v \in Views, NEW type \in {"join", "dead"}, NEW t \in Members,
         v.row[t].http => t \in Nodes
  PROVE  /\ Emit(v, type, t) \in Views
         /\ Emit(v, type, t).row = v.row /\ Emit(v, type, t).pending = v.pending
         /\ Emit(v, type, t).blind = v.blind
         /\ Told(v, Emit(v, type, t), type, t, v.row[t].http)
<1> DEFINE e == [type |-> type, addr |-> t, http |-> v.row[t].http]
           w == Emit(v, type, t)
<1>1. /\ v.row \in [Members -> Row] /\ v.pending \in Seq(Gossip) /\ v.events \in Seq(Event)
      /\ v.dropped \in BOOLEAN /\ v.blind \in SUBSET Members
      /\ v = [row |-> v.row, pending |-> v.pending, events |-> v.events,
              dropped |-> v.dropped, blind |-> v.blind]
  BY ViewIs
<1>2. e \in Event
  BY <1>1, RowIs DEF Event
<1> HIDE DEF e
<1>3. w = IF Len(v.events) < EventCap
          THEN [row |-> v.row, pending |-> v.pending, events |-> Append(v.events, e),
                dropped |-> v.dropped, blind |-> v.blind]
          ELSE [row |-> v.row, pending |-> v.pending, events |-> v.events,
                dropped |-> TRUE, blind |-> v.blind]
  <2>1. w = IF Len(v.events) < EventCap THEN [v EXCEPT !.events = Append(@, e)]
                                        ELSE [v EXCEPT !.dropped = TRUE]
    BY DEF Emit, e
  <2>2. [v EXCEPT !.events = Append(@, e)]
          = [row |-> v.row, pending |-> v.pending, events |-> Append(v.events, e),
             dropped |-> v.dropped, blind |-> v.blind]
    BY ViewWith
  <2>3. [v EXCEPT !.dropped = TRUE]
          = [row |-> v.row, pending |-> v.pending, events |-> v.events,
             dropped |-> TRUE, blind |-> v.blind]
    BY ViewWith
  <2> QED
    BY <2>1, <2>2, <2>3
<1> HIDE DEF w
<1>4. Append(v.events, e) \in Seq(Event)
  BY <1>1, <1>2
<1>5. w \in Views
  BY <1>1, <1>3, <1>4, ViewMake
<1>6. w.row = v.row /\ w.pending = v.pending /\ w.blind = v.blind
  BY <1>3
<1>7. Told(v, w, type, t, v.row[t].http)
  BY <1>3 DEF Told, e
<1> QED
  BY <1>5, <1>6, <1>7 DEF w

\* Passing gossip on touches the gossip queue alone.
LEMMA RepeatIs ==
  ASSUME NEW v \in Views, NEW e \in Gossip, NEW i \in 0..MaxInc, e.type = "join" => i = 0
  PROVE  Repeat(v, e, i) \in Views /\ Unmoved(v, Repeat(v, e, i))
<1> DEFINE g == [e EXCEPT !.ttl = @ - 1, !.inc = i]
<1>1. /\ v.row \in [Members -> Row] /\ v.pending \in Seq(Gossip) /\ v.events \in Seq(Event)
      /\ v.dropped \in BOOLEAN /\ v.blind \in SUBSET Members
      /\ v = [row |-> v.row, pending |-> v.pending, events |-> v.events,
              dropped |-> v.dropped, blind |-> v.blind]
  BY ViewIs
<1>2. e.ttl # 1 => g \in Gossip
  <2>1. /\ e = [type |-> e.type, addr |-> e.addr, inc |-> e.inc, ttl |-> e.ttl]
        /\ e.type \in {"join", "dead"} /\ e.addr \in Members /\ e.ttl \in 1..EventTTL
    BY DEF Gossip
  <2>2. g = [type |-> e.type, addr |-> e.addr, inc |-> i, ttl |-> e.ttl - 1]
    <3>1. g = [[e EXCEPT !.ttl = e.ttl - 1] EXCEPT !.inc = i]
      OBVIOUS
    <3>2. [e EXCEPT !.ttl = e.ttl - 1]
            = [type |-> e.type, addr |-> e.addr, inc |-> e.inc, ttl |-> e.ttl - 1]
      BY <2>1
    <3>3. [[type |-> e.type, addr |-> e.addr, inc |-> e.inc, ttl |-> e.ttl - 1] EXCEPT !.inc = i]
            = [type |-> e.type, addr |-> e.addr, inc |-> i, ttl |-> e.ttl - 1]
      OBVIOUS
    <3> HIDE DEF g
    <3> QED
      BY <3>1, <3>2, <3>3
  <2>3. e.ttl # 1 => e.ttl - 1 \in 1..EventTTL
    BY <2>1, MembershipAssumption
  <2> QED
    BY <2>1, <2>2, <2>3 DEF Gossip
<1> HIDE DEF g
<1>3. Repeat(v, e, i) =
        IF e.ttl = 1 THEN v
        ELSE [row |-> v.row, pending |-> Append(v.pending, g), events |-> v.events,
              dropped |-> v.dropped, blind |-> v.blind]
  <2>1. Repeat(v, e, i) = IF e.ttl = 1 THEN v ELSE [v EXCEPT !.pending = Append(@, g)]
    BY DEF Repeat, g
  <2>2. [v EXCEPT !.pending = Append(@, g)]
          = [row |-> v.row, pending |-> Append(v.pending, g), events |-> v.events,
             dropped |-> v.dropped, blind |-> v.blind]
    BY ViewWith
  <2> QED
    BY <2>1, <2>2
<1>4. CASE e.ttl = 1
  BY <1>3, <1>4 DEF Unmoved
<1>5. CASE e.ttl # 1
  <2>1. Append(v.pending, g) \in Seq(Gossip)
    BY <1>1, <1>2, <1>5
  <2>2. Repeat(v, e, i) \in Views
    BY <1>1, <1>3, <1>5, <2>1, ViewMake, ZenonT(30)
  <2> QED
    BY <1>3, <1>5, <2>2 DEF Unmoved
<1> QED
  BY <1>4, <1>5

\* What follows a join or a death without touching it leaves it a join or a death.
LEMMA ThenUnmoved ==
  ASSUME NEW v, NEW w, NEW x, NEW t, Unmoved(w, x)
  PROVE  (Joins(v, w, t) => Joins(v, x, t)) /\ (Dies(v, w, t) => Dies(v, x, t))
  BY DEF Unmoved, Joins, Dies, Told

\* Die is a death.
LEMMA DieIs ==
  ASSUME NEW v \in Views, NEW t \in Members, v.row[t].state \in {"alive", "suspect"},
         v.row[t].http => t \in Nodes
  PROVE  Die(v, t) \in Views /\ Dies(v, Die(v, t), t)
<1> DEFINE row == [v.row EXCEPT ![t].state = "dead"]
           b == IF v.row[t].http THEN v.blind ELSE v.blind \cup {t}
           u == [row |-> row, pending |-> v.pending, events |-> v.events,
                 dropped |-> v.dropped, blind |-> b]
<1>1. /\ v.row \in [Members -> Row] /\ v.pending \in Seq(Gossip) /\ v.events \in Seq(Event)
      /\ v.dropped \in BOOLEAN /\ v.blind \in SUBSET Members
      /\ v = [row |-> v.row, pending |-> v.pending, events |-> v.events,
              dropped |-> v.dropped, blind |-> v.blind]
  BY ViewIs
<1>2. [v EXCEPT !.row[t].state = "dead",
                !.blind = IF v.row[t].http THEN @ ELSE @ \cup {t}] = u
  <2>1. [v EXCEPT !.row[t].state = "dead",
                  !.blind = IF v.row[t].http THEN @ ELSE @ \cup {t}]
          = [[v EXCEPT !.row = row] EXCEPT !.blind = b]
    <3>1. [v EXCEPT !.row[t].state = "dead"] = [v EXCEPT !.row = row]
      OBVIOUS
    <3>2. [v EXCEPT !.row[t].state = "dead"].blind = v.blind
      BY <1>1
    <3> QED
      BY <3>1, <3>2
  <2> HIDE DEF row, b
  <2>2. [v EXCEPT !.row = row] = [row |-> row, pending |-> v.pending, events |-> v.events,
                                  dropped |-> v.dropped, blind |-> v.blind]
    BY ViewWith
  <2>3. [[row |-> row, pending |-> v.pending, events |-> v.events,
          dropped |-> v.dropped, blind |-> v.blind] EXCEPT !.blind = b] = u
    OBVIOUS
  <2> QED
    BY <2>1, <2>2, <2>3
<1>3. /\ row \in [Members -> Row] /\ \A x \in Members \ {t} : row[x] = v.row[x]
      /\ row[t].state = "dead" /\ row[t].http = v.row[t].http /\ row[t].inc = v.row[t].inc
  <2>1. v.row[t] = [state |-> v.row[t].state, http |-> v.row[t].http, inc |-> v.row[t].inc]
        /\ v.row[t].http \in BOOLEAN /\ v.row[t].inc \in 0..MaxInc
    BY <1>1, RowIs
  <2>2. [v.row[t] EXCEPT !.state = "dead"]
          = [state |-> "dead", http |-> v.row[t].http, inc |-> v.row[t].inc]
    BY <2>1
  <2>3. [v.row[t] EXCEPT !.state = "dead"] \in Row
    BY <2>1, <2>2 DEF Row
  <2>4. row = [v.row EXCEPT ![t] = [v.row[t] EXCEPT !.state = "dead"]]
    OBVIOUS
  <2> QED
    BY <1>1, <2>2, <2>3, <2>4
<1>4. b \in SUBSET Members
  BY <1>1
<1> HIDE DEF row, b
<1>5. u \in Views
  BY <1>1, <1>3, <1>4, ViewMake
<1>6. u.row = row /\ u.events = v.events /\ u.dropped = v.dropped /\ u.blind = b
  OBVIOUS
<1>7. Die(v, t) = Emit(u, "dead", t)
  BY <1>2 DEF Die
<1> HIDE DEF u
<1>8. /\ Emit(u, "dead", t) \in Views
      /\ Emit(u, "dead", t).row = row /\ Emit(u, "dead", t).blind = b
      /\ Told(u, Emit(u, "dead", t), "dead", t, v.row[t].http)
  BY <1>3, <1>5, <1>6, EmitIs
<1>9. Told(v, Emit(u, "dead", t), "dead", t, v.row[t].http)
  BY <1>6, <1>8 DEF Told
<1> QED
  BY <1>3, <1>7, <1>8, <1>9 DEF Dies, b

\* Each of the three branches of HearJoin that report a join is one.
LEMMA JoinIs ==
  ASSUME NEW v \in Views, NEW e \in Gossip, e.type = "join", Joinable(v.row, e.addr),
         NEW row \in [Members -> Row],
         \A u \in Members \ {e.addr} : row[u] = v.row[u],
         row[e.addr].http = (e.addr \in Nodes), row[e.addr].inc = 0,
         row[e.addr].state = IF Known(v.row, e.addr) THEN v.row[e.addr].state ELSE "alive",
         NEW w, w = Repeat(Emit([v EXCEPT !.row = row], "join", e.addr), e, e.inc)
  PROVE  w \in Views /\ Joins(v, w, e.addr)
<1> DEFINE t == e.addr
           u == [row |-> row, pending |-> v.pending, events |-> v.events,
                 dropped |-> v.dropped, blind |-> v.blind]
           x == Emit(u, "join", t)
<1>1. /\ v.row \in [Members -> Row] /\ v.pending \in Seq(Gossip) /\ v.events \in Seq(Event)
      /\ v.dropped \in BOOLEAN /\ v.blind \in SUBSET Members
      /\ v = [row |-> v.row, pending |-> v.pending, events |-> v.events,
              dropped |-> v.dropped, blind |-> v.blind]
  BY ViewIs
<1>2. t \in Members /\ e.inc = 0 /\ 0 \in 0..MaxInc
  BY MembershipAssumption DEF Gossip
<1>3. [v EXCEPT !.row = row] = u /\ u \in Views
  BY <1>1, ViewMake
<1>4. u.row = row /\ u.events = v.events /\ u.dropped = v.dropped /\ u.blind = v.blind
  OBVIOUS
<1> HIDE DEF u
<1>5. /\ x \in Views /\ x.row = row /\ x.blind = v.blind
      /\ Told(u, x, "join", t, row[t].http)
  BY <1>2, <1>3, <1>4, EmitIs
<1>6. Told(v, x, "join", t, t \in Nodes)
  BY <1>4, <1>5 DEF Told
<1>7. Joins(v, x, t)
  BY <1>5, <1>6 DEF Joins
<1>8. w = Repeat(x, e, 0)
  BY <1>2, <1>3
<1> HIDE DEF x
<1>9. w \in Views /\ Unmoved(x, w)
  BY <1>2, <1>5, <1>8, RepeatIs
<1> QED
  BY <1>7, <1>9, ThenUnmoved

\* HearJoin: the fourth branch, an equal incarnation, never overrules.
LEMMA HearJoinIs ==
  ASSUME NEW v \in Views, NEW e \in Gossip, e.type = "join"
  PROVE  /\ HearJoin(v, e) \in Views
         /\ Unmoved(v, HearJoin(v, e)) \/ Joins(v, HearJoin(v, e), e.addr)
<1> DEFINE t == e.addr
           w == HearJoin(v, e)
<1>1. /\ v.row \in [Members -> Row]
      /\ v = [row |-> v.row, pending |-> v.pending, events |-> v.events,
              dropped |-> v.dropped, blind |-> v.blind]
  BY ViewIs
<1>2. t \in Members /\ e.inc = 0 /\ 0 \in 0..MaxInc
  BY MembershipAssumption DEF Gossip
<1>3. /\ v.row[t].state \in {"unknown", "alive", "suspect", "dead"}
      /\ v.row[t].http \in BOOLEAN /\ v.row[t].inc \in 0..MaxInc
      /\ v.row[t] = [state |-> v.row[t].state, http |-> v.row[t].http, inc |-> v.row[t].inc]
  BY <1>1, <1>2, RowIs
<1>4. CASE ~Known(v.row, t)
  <2> DEFINE row == [v.row EXCEPT ![t] = [state |-> "alive", http |-> t \in Nodes, inc |-> e.inc]]
  <2>1. w = Repeat(Emit([v EXCEPT !.row = row], "join", t), e, e.inc)
    BY <1>4 DEF HearJoin, Joined
  <2>2. [state |-> "alive", http |-> t \in Nodes, inc |-> e.inc] \in Row
    BY <1>2 DEF Row
  <2>3. /\ row \in [Members -> Row] /\ \A u \in Members \ {t} : row[u] = v.row[u]
        /\ row[t] = [state |-> "alive", http |-> t \in Nodes, inc |-> e.inc]
    BY <1>1, <1>2, <2>2
  <2> HIDE DEF row, w
  <2>4. Joinable(v.row, t)
    BY <1>4 DEF Joinable
  <2>5. row[t].http = (t \in Nodes) /\ row[t].inc = 0 /\ row[t].state = "alive"
    BY <1>2, <2>3
  <2>6. w \in Views /\ Joins(v, w, t)
    BY <1>4, <2>1, <2>3, <2>4, <2>5, JoinIs
  <2> QED
    BY <2>6 DEF w
<1>5. CASE Known(v.row, t) /\ NewsHttp(v.row, e)
  <2> DEFINE row == [v.row EXCEPT ![t].http = TRUE, ![t].inc = e.inc]
             new == [state |-> v.row[t].state, http |-> TRUE, inc |-> 0]
  <2>1. w = Repeat(Emit([v EXCEPT !.row = row], "join", t), e, e.inc)
    BY <1>5 DEF HearJoin, Joined
  <2>2. new \in Row
    BY <1>2, <1>3 DEF Row
  <2>3. row = [v.row EXCEPT ![t] = new]
    <3>1. row = [[v.row EXCEPT ![t] = [@ EXCEPT !.http = TRUE]] EXCEPT ![t] = [@ EXCEPT !.inc = 0]]
      BY <1>2
    <3>2. [v.row[t] EXCEPT !.http = TRUE] = [state |-> v.row[t].state, http |-> TRUE, inc |-> v.row[t].inc]
      BY <1>1, <1>2, RowIs, RowWith
    <3>3. [[state |-> v.row[t].state, http |-> TRUE, inc |-> v.row[t].inc] EXCEPT !.inc = 0] = new
      <4>1. [state |-> v.row[t].state, http |-> TRUE, inc |-> v.row[t].inc] \in Row
        BY <1>3 DEF Row
      <4> QED
        BY <4>1, RowWith
    <3> DEFINE half == [state |-> v.row[t].state, http |-> TRUE, inc |-> v.row[t].inc]
               r1 == [v.row EXCEPT ![t] = half]
    <3>4. [v.row EXCEPT ![t] = [@ EXCEPT !.http = TRUE]] = r1
      BY <3>2
    <3>5. r1[t] = half /\ DOMAIN r1 = Members /\ \A u \in Members \ {t} : r1[u] = v.row[u]
      BY <1>1, <1>2
    <3>6. row = [r1 EXCEPT ![t] = [r1[t] EXCEPT !.inc = 0]]
      BY <3>1, <3>4
    <3> HIDE DEF new, half, r1, row
    <3>7. row = [r1 EXCEPT ![t] = new]
      BY <3>3, <3>5, <3>6 DEF half
    <3>8. [r1 EXCEPT ![t] = new] = [v.row EXCEPT ![t] = new]
      BY <1>1, <1>2, <3>5
    <3> QED
      BY <3>7, <3>8
  <2>4. /\ row \in [Members -> Row] /\ \A u \in Members \ {t} : row[u] = v.row[u] /\ row[t] = new
    BY <1>1, <1>2, <2>2, <2>3
  <2>5. t \in Nodes /\ Joinable(v.row, t)
    BY <1>5 DEF NewsHttp, Joinable
  <2>6. row[t] = new
    BY <1>1, <1>2, <2>3
  <2> HIDE DEF row, w
  <2>7. row[t].http = (t \in Nodes) /\ row[t].inc = 0 /\ row[t].state = v.row[t].state
    <3>1. row[t].http = TRUE /\ row[t].inc = 0 /\ row[t].state = v.row[t].state
      BY <2>6
    <3>2. TRUE = (t \in Nodes)
      BY <2>5
    <3> QED
      BY <3>1, <3>2
  <2>8. w \in Views /\ Joins(v, w, t)
    BY <1>5, <2>1, <2>4, <2>5, <2>7, JoinIs
  <2> QED
    BY <2>8 DEF w
<1>6. CASE Known(v.row, t) /\ ~NewsHttp(v.row, e)
  <2>1. w = IF v.row[t].state = "alive"
            THEN Repeat([v EXCEPT !.row[t].inc = IF e.inc > @ THEN e.inc ELSE @], e, e.inc)
            ELSE IF Overrules(v.row, e)
            THEN Repeat(Emit([v EXCEPT !.row = [v.row EXCEPT ![t].state = "alive", ![t].inc = e.inc]],
                             "join", t), e, e.inc)
            ELSE v
    BY <1>6 DEF HearJoin, Joined
  <2>2. ~Overrules(v.row, e)
    BY <1>2, <1>3, MembershipAssumption DEF Overrules
  <2>3. [v EXCEPT !.row[t].inc = IF e.inc > @ THEN e.inc ELSE @] = v
    <3>1. (IF e.inc > v.row[t].inc THEN e.inc ELSE v.row[t].inc) = v.row[t].inc
      BY <1>2, <1>3, MembershipAssumption
    <3>2. [v.row[t] EXCEPT !.inc = v.row[t].inc] = v.row[t]
      BY <1>3
    <3>3. [v.row EXCEPT ![t] = v.row[t]] = v.row
      BY <1>1, <1>2
    <3>4. [v EXCEPT !.row = v.row] = v
      BY <1>1
    <3>5. [v EXCEPT !.row[t].inc = IF e.inc > @ THEN e.inc ELSE @]
            = [v EXCEPT !.row = [v.row EXCEPT ![t] =
                [v.row[t] EXCEPT !.inc = IF e.inc > v.row[t].inc THEN e.inc ELSE v.row[t].inc]]]
      OBVIOUS
    <3> QED
      BY <3>1, <3>2, <3>3, <3>4, <3>5
  <2>4. w = Repeat(v, e, 0) \/ w = v
    BY <1>2, <2>1, <2>2, <2>3
  <2>5. Repeat(v, e, 0) \in Views /\ Unmoved(v, Repeat(v, e, 0))
    BY <1>2, RepeatIs
  <2> HIDE DEF w
  <2>6. w \in Views /\ Unmoved(v, w)
    BY <2>4, <2>5 DEF Unmoved
  <2> QED
    BY <2>6 DEF w
<1> QED
  BY <1>4, <1>5, <1>6

\* HearDead is a death or nothing.
LEMMA HearDeadIs ==
  ASSUME NEW v \in Views, NEW e \in Gossip, e.type = "dead",
         v.row[e.addr].http => e.addr \in Nodes
  PROVE  /\ HearDead(v, e) \in Views
         /\ Unmoved(v, HearDead(v, e)) \/ Dies(v, HearDead(v, e), e.addr)
<1> DEFINE t == e.addr
           w == HearDead(v, e)
<1>1. t \in Members /\ v.row \in [Members -> Row]
  BY ViewIs DEF Gossip
<1>2. v.row[t].state \in {"unknown", "alive", "suspect", "dead"} /\ v.row[t].inc \in 0..MaxInc
  BY <1>1, RowIs
<1>3. CASE ~Known(v.row, t) \/ v.row[t].state = "dead" \/ e.inc < v.row[t].inc
  BY <1>3 DEF HearDead, Unmoved
<1>4. CASE ~(~Known(v.row, t) \/ v.row[t].state = "dead" \/ e.inc < v.row[t].inc)
  <2>1. w = Repeat(Die(v, t), e, v.row[t].inc)
    BY <1>4 DEF HearDead
  <2>2. v.row[t].state \in {"alive", "suspect"}
    BY <1>2, <1>4 DEF Known
  <2>3. Die(v, t) \in Views /\ Dies(v, Die(v, t), t)
    BY <1>1, <2>2, DieIs
  <2>4. Repeat(Die(v, t), e, v.row[t].inc) \in Views
        /\ Unmoved(Die(v, t), Repeat(Die(v, t), e, v.row[t].inc))
    BY <1>2, <2>3, RepeatIs
  <2> QED
    BY <2>1, <2>3, <2>4, ThenUnmoved
<1> QED
  BY <1>3, <1>4

\* mergeEvents, for one event.
LEMMA HearIs ==
  ASSUME NEW v \in Views, NEW e \in Gossip, v.row[e.addr].http => e.addr \in Nodes
  PROVE  /\ Hear(v, e) \in Views /\ e.addr \in Members
         /\ \/ Unmoved(v, Hear(v, e))
            \/ Joins(v, Hear(v, e), e.addr)
            \/ Dies(v, Hear(v, e), e.addr)
<1>1. e.type \in {"join", "dead"} /\ e.addr \in Members
  BY DEF Gossip
<1>2. CASE e.type = "join"
  BY <1>1, <1>2, HearJoinIs DEF Hear
<1>3. CASE e.type = "dead"
  BY <1>1, <1>3, HearDeadIs DEF Hear
<1> QED
  BY <1>1, <1>2, <1>3

\* checkSuspects, for one suspect.
LEMMA DeclaredIs ==
  ASSUME NEW v \in Views, NEW t \in Members, v.row[t].state = "suspect",
         v.row[t].http => t \in Nodes
  PROVE  Declared(v, t) \in Views /\ Dies(v, Declared(v, t), t)
<1> DEFINE d == Die(v, t)
           g == [type |-> "dead", addr |-> t, inc |-> v.row[t].inc, ttl |-> EventTTL]
<1>1. d \in Views /\ Dies(v, d, t)
  BY DieIs
<1>2. g \in Gossip
  <2>1. v.row[t].inc \in 0..MaxInc
    BY ViewIs, RowIs
  <2>2. EventTTL \in 1..EventTTL
    BY MembershipAssumption
  <2> QED
    BY <2>1, <2>2 DEF Gossip
<1>3. Declared(v, t) = [d EXCEPT !.pending = Append(@, g)]
  BY DEF Declared
<1> HIDE DEF d, g
<1>4. /\ d.row \in [Members -> Row] /\ d.pending \in Seq(Gossip) /\ d.events \in Seq(Event)
      /\ d.dropped \in BOOLEAN /\ d.blind \in SUBSET Members
      /\ d = [row |-> d.row, pending |-> d.pending, events |-> d.events,
              dropped |-> d.dropped, blind |-> d.blind]
  BY <1>1, ViewIs
<1>5. Declared(v, t) = [row |-> d.row, pending |-> Append(d.pending, g), events |-> d.events,
                        dropped |-> d.dropped, blind |-> d.blind]
  BY <1>3, <1>4
<1>6. Append(d.pending, g) \in Seq(Gossip)
  BY <1>2, <1>4
<1>7. Declared(v, t) \in Views
  BY <1>4, <1>5, <1>6, ViewMake, ZenonT(30)
<1>8. Unmoved(d, Declared(v, t))
  BY <1>5 DEF Unmoved
<1> QED
  BY <1>1, <1>7, <1>8, ThenUnmoved

-----------------------------------------------------------------------------
\* A packet's gossip.

\* mergeEvents as a fold.
Merging == INSTANCE SequenceFolds WITH Op <- Hear

\* Merged is that fold.
LEMMA MergedIsFold == \A v, es : Merged(v, es) = Merging!Fold(v, es)
  BY DEF Merged, Merging!Fold, FoldLeft, Merging!FoldLeft, MapThenFoldSet,
         Merging!MapThenFoldSet, Max, Merging!Max

\* A view of m that a process can have, in which those of D are dead.
Fit(v, m, D) ==
    /\ v \in Views
    /\ \A t \in Members : v.row[t].http => t \in Nodes
    /\ v.row[m].inc = 0 /\ v.row[m].state \in {"alive", "dead"}
    /\ \A t \in D : v.row[t].state = "dead"

\* None of the three brings back the dead, or touches the member itself but by its death.
LEMMA MovedFit ==
  ASSUME NEW m \in Members, NEW D \in SUBSET Members, NEW v, Fit(v, m, D), NEW w \in Views,
         NEW t \in Members, Unmoved(v, w) \/ Joins(v, w, t) \/ Dies(v, w, t)
  PROVE  Fit(w, m, D)
<1>1. /\ v \in Views
      /\ \A u \in Members : v.row[u].http => u \in Nodes
      /\ v.row[m].inc = 0 /\ v.row[m].state \in {"alive", "dead"}
      /\ \A u \in D : v.row[u].state = "dead"
  BY DEF Fit
<1>2. CASE Unmoved(v, w)
  BY <1>1, <1>2 DEF Unmoved, Fit
<1>3. CASE Joins(v, w, t)
  <2>1. /\ \A u \in Members \ {t} : w.row[u] = v.row[u]
        /\ w.row[t].http = (t \in Nodes) /\ w.row[t].inc = 0
        /\ w.row[t].state = IF Known(v.row, t) THEN v.row[t].state ELSE "alive"
    BY <1>3 DEF Joins
  <2>2. \A u \in Members : w.row[u].http => u \in Nodes
    BY <1>1, <2>1
  <2>3. w.row[m].inc = 0 /\ w.row[m].state \in {"alive", "dead"}
    BY <1>1, <2>1
  <2>4. \A u \in D : w.row[u].state = "dead"
    BY <1>1, <2>1 DEF Known
  <2> QED
    BY <2>2, <2>3, <2>4 DEF Fit
<1>4. CASE Dies(v, w, t)
  <2>1. /\ \A u \in Members \ {t} : w.row[u] = v.row[u]
        /\ w.row[t].http = v.row[t].http /\ w.row[t].inc = v.row[t].inc /\ w.row[t].state = "dead"
    BY <1>4 DEF Dies
  <2>2. \A u \in Members : w.row[u].http => u \in Nodes
    BY <1>1, <2>1
  <2>3. w.row[m].inc = 0 /\ w.row[m].state \in {"alive", "dead"}
    BY <1>1, <2>1
  <2>4. \A u \in D : w.row[u].state = "dead"
    BY <1>1, <2>1
  <2> QED
    BY <2>2, <2>3, <2>4 DEF Fit
<1> QED
  BY <1>2, <1>3, <1>4

\* One event keeps a view fit ...
LEMMA HearFit ==
  ASSUME NEW m \in Members, NEW D \in SUBSET Members, NEW v, Fit(v, m, D), NEW e \in Gossip
  PROVE  Fit(Hear(v, e), m, D)
<1>1. v \in Views /\ e.addr \in Members /\ (v.row[e.addr].http => e.addr \in Nodes)
  BY DEF Fit, Gossip
<1>2. /\ Hear(v, e) \in Views
      /\ Unmoved(v, Hear(v, e)) \/ Joins(v, Hear(v, e), e.addr) \/ Dies(v, Hear(v, e), e.addr)
  BY <1>1, HearIs
<1> QED
  BY <1>1, <1>2, MovedFit

\* ... and so do all the events of a packet.
LEMMA MergedFit ==
  ASSUME NEW m \in Members, NEW D \in SUBSET Members, NEW v, Fit(v, m, D), NEW es \in Seq(Gossip)
  PROVE  Fit(Merged(v, es), m, D)
<1> DEFINE T == {x \in Views : Fit(x, m, D)}
<1>1. v \in T
  BY DEF Fit
<1>2. \A x \in T, e \in Gossip : Hear(x, e) \in T
  <2> SUFFICES ASSUME NEW x \in T, NEW e \in Gossip PROVE Hear(x, e) \in T
    OBVIOUS
  <2>1. Fit(Hear(x, e), m, D)
    BY HearFit
  <2> QED
    BY <2>1 DEF Fit
<1> HIDE DEF T
<1>3. Merging!Fold(v, es) \in T
  BY <1>1, <1>2, Merging!FoldPreserves
<1> QED
  BY <1>3, MergedIsFold DEF T

-----------------------------------------------------------------------------
\* The inductive invariant.

\* The tables: HTTP addresses are true ones, a member knows itself with incarnation 0, and a
\* process that does not run knows nobody.
TableTyped ==
    /\ up \subseteq Members
    /\ table \in [Members -> [Members -> Row]]
    /\ \A m, t \in Members : table[m][t].http => t \in Nodes
    /\ \A m \in Members : table[m][m].inc = 0
    /\ \A m \in up : table[m][m].state \in {"alive", "dead"}
    /\ \A m \in Members \ up : table[m] = [t \in Members |-> Unknown]

\* Gossip and events.
QueuesTyped == pending \in [Members -> Seq(Gossip)] /\ events \in [Members -> Seq(Event)]

\* Rings hold nodes.
RingTyped == ring \in [Members -> SUBSET Nodes] /\ blind \in [Members -> SUBSET Members]

\* A probe, of a process that runs; only a helper pings itself, when it is asked to.
Kinds == {"direct", "indirect", "helper"}
Pings == [by : Members, target : Members, kind : Kinds, for : Members, no : Nat]

\* One entry of ackWait per target, that of a running probe.
ProbesTyped ==
    /\ probes \subseteq Pings /\ ackWait \subseteq probes /\ acked \subseteq probes
    /\ \A p \in probes : p.by \in up /\ (p.kind # "helper" => p.target # p.by)
    /\ \A p, q \in ackWait : SameKey(p, q) => p = q

\* A packet.
IsPacket(x) ==
    /\ x.from \in Members /\ x.to \in Members /\ x.type \in {"ping", "ack", "ping-req"}
    /\ x.type = "ping-req" => x.target \in Members
    /\ x.type # "ping-req" => x.events \in Seq(Gossip)

\* The network.
NetTyped == \A x \in net : IsPacket(x)

\* The first inductive invariant.
Typed == TableTyped /\ QueuesTyped /\ RingTyped /\ ProbesTyped /\ NetTyped

\* It implies the type invariant of the model.
LEMMA TypedImplies == Typed => TypeOK
<1> SUFFICES ASSUME Typed PROVE TypeOK
  OBVIOUS
<1>1. /\ up \subseteq Members
      /\ table \in [Members -> [Members ->
           [state : {"unknown", "alive", "suspect", "dead"}, http : BOOLEAN, inc : 0..MaxInc]]]
      /\ \A m \in up : table[m][m].state \in {"alive", "dead"}
  BY DEF Typed, TableTyped, Row
<1>2. \A w \in Members : ring[w] \subseteq Nodes /\ blind[w] \subseteq Members
  BY DEF Typed, RingTyped
<1>3. ackWait \subseteq probes /\ acked \subseteq probes /\ \A p, q \in ackWait : SameKey(p, q) => p = q
  BY DEF Typed, ProbesTyped
<1> QED
  BY <1>1, <1>2, <1>3 DEF TypeOK

\* The assumption on the constants, in the form the proofs use.
LEMMA Constants ==
  /\ Nodes \subseteq Members /\ Watchers \subseteq Members /\ Probers \subseteq Members
  /\ Running \subseteq Members /\ Seeds \in [Members -> SUBSET Members]
  /\ Peers \in [Members -> SUBSET Nodes] /\ MaxProbes \in [Members -> Nat]
  /\ EventTTL \in 1..EventTTL /\ EventCap \in Nat /\ MaxInc \in Nat /\ 0 \in 0..MaxInc
  /\ IsFiniteSet(Members)
  BY MembershipAssumption

\* What is sent or lost.
LEMMA PacketsIs ==
  ASSUME NEW kept, NEW sent, NEW n \in Packets(kept, sent),
         \A x \in kept : IsPacket(x), \A x \in sent : IsPacket(x)
  PROVE  \A x \in n : IsPacket(x)
  BY DEF Packets

\* drainEvents splits a queue of gossip.
LEMMA DrainedIs ==
  ASSUME NEW S, NEW q \in Seq(S)
  PROVE  Drained(q) \in Seq(S) /\ Undrained(q) \in Seq(S)
<1>1. Len(q) \in Nat
  OBVIOUS
<1>2. \A k \in 0..Len(q) : SubSeq(q, 1, k) \in Seq(S)
  OBVIOUS
<1>3. SubSeq(q, 5, Len(q)) \in Seq(S)
  OBVIOUS
<1>4. (IF Len(q) < 4 THEN Len(q) ELSE 4) \in 0..Len(q)
  BY <1>1
<1> QED
  BY <1>2, <1>3, <1>4 DEF Drained, Undrained

\* Three kinds of packets.
LEMMA PacketIs ==
  ASSUME NEW m \in Members, NEW t \in Members, NEW u \in Members, NEW es \in Seq(Gossip)
  PROVE  IsPacket(Ping(m, t, es)) /\ IsPacket(Ack(m, t, es)) /\ IsPacket(PingReq(m, t, u))
  BY DEF IsPacket, Ping, Ack, PingReq

\* What a member says of itself.
LEMMA JoinGossip ==
  ASSUME TableTyped, NEW m \in Members
  PROVE  Join(m) \in Gossip
<1>1. table[m][m].inc = 0
  BY DEF TableTyped
<1> QED
  BY <1>1, Constants DEF Join, Gossip

\* The view that a process has.
DeadAt(m) == {t \in Members : table[m][t].state = "dead"}

\* The view of a running process is fit.
LEMMA ViewFits ==
  ASSUME Typed, NEW m \in up
  PROVE  m \in Members /\ View(m) \in Views /\ Fit(View(m), m, DeadAt(m)) /\ DeadAt(m) \in SUBSET Members
<1>1. /\ m \in Members /\ table[m] \in [Members -> Row]
      /\ \A t \in Members : table[m][t].http => t \in Nodes
      /\ table[m][m].inc = 0 /\ table[m][m].state \in {"alive", "dead"}
  BY DEF Typed, TableTyped
<1>2. pending[m] \in Seq(Gossip) /\ events[m] \in Seq(Event) /\ blind[m] \in SUBSET Members
  BY <1>1 DEF Typed, QueuesTyped, RingTyped
<1>3. (m \in dropped) \in BOOLEAN
  OBVIOUS
<1>4. View(m) \in Views
  BY <1>1, <1>2, <1>3, ViewMake DEF View
<1>5. View(m).row = table[m]
  BY DEF View
<1> HIDE DEF View
<1> QED
  BY <1>1, <1>4, <1>5 DEF Fit, DeadAt

\* What a step may do to the tables.
DeadKept ==
    \A m, t \in Members :
      table[m][t].state = "dead" /\ m \in up' => table'[m][t].state = "dead"

\* Storing a fit view keeps the types and the dead.
LEMMA SetViewTyped ==
  ASSUME Typed, NEW m \in up, NEW w, Fit(w, m, DeadAt(m)), SetView(m, w), UNCHANGED <<up, ring>>
  PROVE  TableTyped' /\ QueuesTyped' /\ RingTyped' /\ DeadKept
<1>1. /\ m \in Members /\ w \in Views
      /\ w.row \in [Members -> Row] /\ w.pending \in Seq(Gossip) /\ w.events \in Seq(Event)
      /\ w.blind \in SUBSET Members
  BY ViewIs DEF Fit, Typed, TableTyped
<1>2. /\ table' = [table EXCEPT ![m] = w.row]
      /\ pending' = [pending EXCEPT ![m] = w.pending]
      /\ events' = [events EXCEPT ![m] = IF m \in Watchers THEN w.events ELSE <<>>]
      /\ blind' = [blind EXCEPT ![m] = IF m \in Watchers THEN w.blind \cap Nodes ELSE {}]
  BY DEF SetView
<1>3. /\ table' \in [Members -> [Members -> Row]] /\ table'[m] = w.row
      /\ \A u \in Members \ {m} : table'[u] = table[u]
  BY <1>1, <1>2 DEF Typed, TableTyped
<1>4. /\ \A t \in Members : w.row[t].http => t \in Nodes
      /\ w.row[m].inc = 0 /\ w.row[m].state \in {"alive", "dead"}
      /\ \A t \in DeadAt(m) : w.row[t].state = "dead"
  BY DEF Fit
<1>5. TableTyped'
  <2>1. \A u, t \in Members : table'[u][t].http => t \in Nodes
    BY <1>3, <1>4 DEF Typed, TableTyped
  <2>2. \A u \in Members : table'[u][u].inc = 0
    BY <1>3, <1>4 DEF Typed, TableTyped
  <2>3. \A u \in up : table'[u][u].state \in {"alive", "dead"}
    BY <1>3, <1>4 DEF Typed, TableTyped
  <2>4. \A u \in Members \ up : table'[u] = [t \in Members |-> Unknown]
    BY <1>3 DEF Typed, TableTyped
  <2> QED
    BY <1>3, <2>1, <2>2, <2>3, <2>4 DEF Typed, TableTyped
<1>6. QueuesTyped'
  <2>1. (IF m \in Watchers THEN w.events ELSE <<>>) \in Seq(Event)
    BY <1>1
  <2> QED
    BY <1>1, <1>2, <2>1 DEF Typed, QueuesTyped
<1>7. RingTyped'
  <2>1. (IF m \in Watchers THEN w.blind \cap Nodes ELSE {}) \in SUBSET Members
    BY <1>1
  <2> QED
    BY <1>1, <1>2, <2>1 DEF Typed, RingTyped
<1>8. DeadKept
  BY <1>3, <1>4 DEF DeadKept, DeadAt
<1> QED
  BY <1>5, <1>6, <1>7, <1>8

-----------------------------------------------------------------------------
\* The steps keep the types.

\* A step that leaves the tables alone.
LEMMA TableStays ==
  ASSUME Typed, UNCHANGED <<up, table>>
  PROVE  TableTyped' /\ DeadKept
<1>1. TableTyped' <=> TableTyped
  BY DEF TableTyped
<1> QED
  BY <1>1 DEF Typed, DeadKept

\* The same of the probes ...
LEMMA ProbesStay ==
  ASSUME Typed, UNCHANGED <<up, probeVars>>
  PROVE  ProbesTyped'
<1>1. ProbesTyped' <=> ProbesTyped
  BY DEF ProbesTyped, probeVars
<1> QED
  BY <1>1 DEF Typed

\* ... of the queues ...
LEMMA QueuesStay ==
  ASSUME Typed, UNCHANGED <<pending, events>>
  PROVE  QueuesTyped'
<1>1. QueuesTyped' <=> QueuesTyped
  BY DEF QueuesTyped
<1> QED
  BY <1>1 DEF Typed

\* ... and of the rings.
LEMMA RingStays ==
  ASSUME Typed, UNCHANGED <<ring, blind>>
  PROVE  RingTyped'
<1>1. RingTyped' <=> RingTyped
  BY DEF RingTyped
<1> QED
  BY <1>1 DEF Typed

\* The network after a step that takes no packet but those it keeps.
LEMMA NetSends ==
  ASSUME Typed, NEW kept \in SUBSET net, NEW sent, \A x \in sent : IsPacket(x),
         net' \in Packets(kept, sent)
  PROVE  NetTyped'
<1>1. \A x \in kept : IsPacket(x)
  BY DEF Typed, NetTyped
<1>2. \A x \in net' : IsPacket(x)
  BY <1>1, PacketsIs
<1> QED
  BY <1>2 DEF NetTyped, IsPacket

\* A network that only loses packets.
LEMMA NetLoses ==
  ASSUME Typed, net' \subseteq net
  PROVE  NetTyped'
  BY DEF Typed, NetTyped, IsPacket

\* A probe that ends takes the entry of its target with it.
LEMMA EndProbeTyped ==
  ASSUME Typed, NEW p, EndProbe(p), UNCHANGED up
  PROVE  ProbesTyped'
<1>1. /\ probes \subseteq Pings /\ ackWait \subseteq probes /\ acked \subseteq probes
      /\ \A q \in probes : q.by \in up /\ (q.kind # "helper" => q.target # q.by)
      /\ \A q, r \in ackWait : SameKey(q, r) => q = r
  BY DEF Typed, ProbesTyped
<1>2. /\ probes' = probes \ {p} /\ acked' = acked \ {p}
      /\ ackWait' = {q \in ackWait : ~SameKey(p, q)}
  BY DEF EndProbe
<1>3. SameKey(p, p)
  BY DEF SameKey
<1>4. ackWait' \subseteq probes' /\ acked' \subseteq probes' /\ probes' \subseteq Pings
  BY <1>1, <1>2, <1>3
<1>5. \A q \in probes' : q.by \in up' /\ (q.kind # "helper" => q.target # q.by)
  BY <1>1, <1>2
<1>6. \A q, r \in ackWait' : SameKey(q, r) => q = r
  BY <1>1, <1>2
<1> QED
  BY <1>4, <1>5, <1>6 DEF ProbesTyped, SameKey

\* A probe that begins, or goes on as an indirect one, takes the entry over.
LEMMA NewProbeTyped ==
  ASSUME Typed, NEW old \in SUBSET probes, NEW p \in Pings, p.by \in up,
         p.kind # "helper" => p.target # p.by, UNCHANGED up,
         \A q \in probes \ old : SameKey(p, q),
         probes' = old \cup {p}, ackWait' = {q \in ackWait : ~SameKey(p, q)} \cup {p},
         acked' \in SUBSET (acked \cap old)
  PROVE  ProbesTyped'
<1>1. /\ probes \subseteq Pings /\ ackWait \subseteq probes /\ acked \subseteq probes
      /\ \A q \in probes : q.by \in up /\ (q.kind # "helper" => q.target # q.by)
      /\ \A q, r \in ackWait : SameKey(q, r) => q = r
  BY DEF Typed, ProbesTyped
<1>2. \A q, r : SameKey(q, r) <=> SameKey(r, q)
  BY DEF SameKey
<1>3. ackWait' \subseteq probes' /\ acked' \subseteq probes' /\ probes' \subseteq Pings
  BY <1>1
<1>4. \A q \in probes' : q.by \in up' /\ (q.kind # "helper" => q.target # q.by)
  BY <1>1
<1>5. \A q, r \in ackWait' : SameKey(q, r) => q = r
  BY <1>1, <1>2
<1> QED
  BY <1>3, <1>4, <1>5 DEF ProbesTyped, SameKey

-----------------------------------------------------------------------------
\* The initial state.

\* What a process knows when it starts: itself and its seeds.
LEMMA FirstRowIs ==
  ASSUME NEW m \in Members
  PROVE  /\ FirstRow(m) \in [Members -> Row]
         /\ \A t \in Members : FirstRow(m)[t].http => t \in Nodes
         /\ \A t \in Members : FirstRow(m)[t].state \in {"unknown", "alive"}
         /\ \A t \in Members : Known(FirstRow(m), t) => t = m \/ t \in Seeds[m]
         /\ FirstRow(m)[m].inc = 0 /\ FirstRow(m)[m].state = "alive"
<1> DEFINE a == [state |-> "alive", http |-> FALSE, inc |-> 0]
           F(t) == IF t = m THEN [state |-> "alive", http |-> m \in Nodes, inc |-> 0]
                   ELSE IF t \in Seeds[m] THEN a ELSE Unknown
<1>1. Unknown \in Row /\ Unknown.http = FALSE /\ Unknown.inc = 0 /\ Unknown.state = "unknown"
  BY Constants DEF Row, Unknown
<1>2. FirstRow(m) = [t \in Members |-> F(t)]
  <2>1. [Unknown EXCEPT !.state = "alive"] = a
    BY <1>1, RowWith
  <2> QED
    BY <2>1 DEF FirstRow
<1>3. \A t \in Members : /\ F(t) \in Row
                         /\ F(t).http => t \in Nodes
                         /\ F(t).state \in {"unknown", "alive"}
                         /\ F(t).state # "unknown" => t = m \/ t \in Seeds[m]
  <2>1. a \in Row /\ a.http = FALSE /\ a.state = "alive"
    BY Constants DEF Row
  <2>2. /\ F(m) \in Row /\ (F(m).http => m \in Nodes) /\ F(m).state = "alive"
    <3> DEFINE h == m \in Nodes
    <3>1. h \in BOOLEAN
      OBVIOUS
    <3>2. F(m) = [state |-> "alive", http |-> h, inc |-> 0] /\ (h => m \in Nodes)
      OBVIOUS
    <3> HIDE DEF F, h
    <3> QED
      BY <3>1, <3>2, Constants DEF Row
  <2>3. \A t \in Members \ {m} : (F(t) = a /\ t \in Seeds[m]) \/ F(t) = Unknown
    OBVIOUS
  <2> HIDE DEF F, a
  <2> QED
    BY <1>1, <2>1, <2>2, <2>3
<1>4. F(m).inc = 0 /\ F(m).state = "alive"
  OBVIOUS
<1> HIDE DEF F
<1>5. \A t \in Members : FirstRow(m)[t] = F(t)
  BY <1>2
<1> QED
  BY <1>2, <1>3, <1>4, <1>5 DEF Known

\* What it knows when it does not run.
LEMMA NothingKnown ==
  /\ [t \in Members |-> Unknown] \in [Members -> Row]
  /\ \A t \in Members : /\ [u \in Members |-> Unknown][t].http = FALSE
                        /\ [u \in Members |-> Unknown][t].inc = 0
                        /\ [u \in Members |-> Unknown][t].state = "unknown"
  BY Constants DEF Unknown, Row

\* Typed holds at the start.
LEMMA InitTyped == Init => Typed
<1> SUFFICES ASSUME Init PROVE Typed
  OBVIOUS
<1> USE DEF Init
<1>1. TableTyped
  <2>1. up \subseteq Members
    BY Constants
  <2>2. \A m \in Members : table[m] = IF m \in Running THEN FirstRow(m)
                                      ELSE [t \in Members |-> Unknown]
    OBVIOUS
  <2>3. table \in [Members -> [Members -> Row]]
    BY <2>2, FirstRowIs, NothingKnown
  <2>4. \A m, t \in Members : table[m][t].http => t \in Nodes
    BY <2>2, FirstRowIs, NothingKnown
  <2>5. \A m \in Members : table[m][m].inc = 0
    BY <2>2, FirstRowIs, NothingKnown
  <2>6. \A m \in up : table[m][m].state \in {"alive", "dead"}
    BY <2>1, <2>2, FirstRowIs
  <2>7. \A m \in Members \ up : table[m] = [t \in Members |-> Unknown]
    BY <2>2
  <2> QED
    BY <2>1, <2>3, <2>4, <2>5, <2>6, <2>7 DEF TableTyped
<1>2. QueuesTyped
  BY DEF QueuesTyped
<1>3. RingTyped
  BY Constants DEF RingTyped, FirstRing
<1>4. ProbesTyped /\ NetTyped
  BY DEF ProbesTyped, NetTyped
<1> QED
  BY <1>1, <1>2, <1>3, <1>4 DEF Typed

-----------------------------------------------------------------------------
\* Starting, dying, probing.

\* A process starts.
LEMMA StartTyped ==
  ASSUME Typed, NEW m \in Members, Start(m)
  PROVE  Typed' /\ DeadKept
<1>1. /\ m \notin up /\ up' = up \cup {m} /\ up \subseteq Members
      /\ table \in [Members -> [Members -> Row]] /\ ring \in [Members -> SUBSET Nodes]
      /\ table' = [table EXCEPT ![m] = FirstRow(m)]
      /\ ring' = [ring EXCEPT ![m] = FirstRing(m)]
      /\ UNCHANGED <<pending, events, probes, ackWait, acked, blind>>
  BY DEF Start, Typed, TableTyped, RingTyped, probeVars
<1>2. /\ table' \in [Members -> [Members -> Row]] /\ table'[m] = FirstRow(m)
      /\ \A u \in Members \ {m} : table'[u] = table[u]
  BY <1>1, FirstRowIs
<1>3. TableTyped'
  <2>1. \A u, t \in Members : table'[u][t].http => t \in Nodes
    BY <1>2, FirstRowIs DEF Typed, TableTyped
  <2>2. \A u \in Members : table'[u][u].inc = 0
    BY <1>2, FirstRowIs DEF Typed, TableTyped
  <2>3. \A u \in up' : table'[u][u].state \in {"alive", "dead"}
    BY <1>1, <1>2, FirstRowIs DEF Typed, TableTyped
  <2>4. \A u \in Members \ up' : table'[u] = [t \in Members |-> Unknown]
    BY <1>1, <1>2 DEF Typed, TableTyped
  <2> QED
    BY <1>1, <1>2, <2>1, <2>2, <2>3, <2>4 DEF TableTyped
<1>4. DeadKept
  <2>1. \A t \in Members : table[m][t].state = "unknown"
    BY <1>1, NothingKnown DEF Typed, TableTyped
  <2> QED
    BY <1>2, <2>1 DEF DeadKept
<1>5. QueuesTyped'
  BY <1>1, QueuesStay
<1>6. RingTyped'
  <2>1. FirstRing(m) \in SUBSET Nodes
    BY Constants DEF FirstRing
  <2> QED
    BY <1>1, <2>1 DEF Typed, RingTyped
<1>7. ProbesTyped'
  BY <1>1 DEF Typed, ProbesTyped, SameKey
<1>8. NetTyped'
  <2> DEFINE join == [type |-> "join", addr |-> m, inc |-> 0, ttl |-> EventTTL]
             sent == {Ping(m, s, <<join>>) : s \in Seeds[m] \ {m}}
  <2>1. net' \in Packets(net, sent)
    BY DEF Start
  <2>2. <<join>> \in Seq(Gossip)
    BY Constants DEF Gossip
  <2>3. \A s \in Seeds[m] : s \in Members
    BY Constants
  <2> HIDE DEF join
  <2>4. \A x \in sent : IsPacket(x)
    BY <2>2, <2>3, PacketIs
  <2> HIDE DEF sent
  <2> QED
    BY <2>1, <2>4, NetSends
<1> QED
  BY <1>3, <1>4, <1>5, <1>6, <1>7, <1>8 DEF Typed

\* A process dies.
LEMMA CrashTyped ==
  ASSUME Typed, NEW m \in Members, Crash(m)
  PROVE  Typed' /\ DeadKept
<1>1. /\ up' = up \ {m} /\ up \subseteq Members
      /\ table \in [Members -> [Members -> Row]] /\ ring \in [Members -> SUBSET Nodes]
      /\ table' = [table EXCEPT ![m] = [t \in Members |-> Unknown]]
      /\ pending' = [pending EXCEPT ![m] = <<>>] /\ events' = [events EXCEPT ![m] = <<>>]
      /\ ring' = [ring EXCEPT ![m] = {}] /\ blind' = [blind EXCEPT ![m] = {}]
      /\ UNCHANGED net
  BY DEF Crash, Typed, TableTyped, RingTyped
<1>2. /\ table' \in [Members -> [Members -> Row]] /\ table'[m] = [t \in Members |-> Unknown]
      /\ \A u \in Members \ {m} : table'[u] = table[u]
  BY <1>1, NothingKnown
<1>3. TableTyped'
  <2>1. \A u, t \in Members : table'[u][t].http => t \in Nodes
    BY <1>2, NothingKnown DEF Typed, TableTyped
  <2>2. \A u \in Members : table'[u][u].inc = 0
    BY <1>2, NothingKnown DEF Typed, TableTyped
  <2>3. \A u \in up' : table'[u][u].state \in {"alive", "dead"}
    BY <1>1, <1>2 DEF Typed, TableTyped
  <2>4. \A u \in Members \ up' : table'[u] = [t \in Members |-> Unknown]
    BY <1>1, <1>2 DEF Typed, TableTyped
  <2> QED
    BY <1>1, <1>2, <2>1, <2>2, <2>3, <2>4 DEF TableTyped
<1>4. DeadKept
  BY <1>1, <1>2 DEF DeadKept
<1>5. QueuesTyped'
  BY <1>1 DEF Typed, QueuesTyped
<1>6. RingTyped'
  BY <1>1 DEF Typed, RingTyped
<1>7. ProbesTyped'
  <2>1. /\ probes' = {p \in probes : p.by # m} /\ ackWait' = {p \in ackWait : p.by # m}
        /\ acked' = {p \in acked : p.by # m}
    BY DEF Crash
  <2> QED
    BY <1>1, <2>1 DEF Typed, ProbesTyped, SameKey
<1>8. NetTyped'
  BY <1>1, NetLoses
<1> QED
  BY <1>3, <1>4, <1>5, <1>6, <1>7, <1>8 DEF Typed

\* A ping to t, and what it takes from the gossip.
LEMMA DirectPingTyped ==
  ASSUME Typed, NEW m \in up, NEW t \in Members, NEW kind \in Kinds, NEW for \in Members,
         kind # "helper" => t # m, DirectPing(m, t, kind, for), UNCHANGED <<up, events>>
  PROVE  ProbesTyped' /\ QueuesTyped'
<1>1. m \in Members
  BY DEF Typed, TableTyped
<1>0. PICK n \in Free(m) : Await([by |-> m, target |-> t, kind |-> kind, for |-> for, no |-> n])
  BY DEF DirectPing
<1> DEFINE p == [by |-> m, target |-> t, kind |-> kind, for |-> for, no |-> n]
<1>2. /\ probes' = probes \cup {p} /\ ackWait' = {q \in ackWait : ~SameKey(p, q)} \cup {p}
      /\ acked' = acked /\ pending' = [pending EXCEPT ![m] = Undrained(pending[m])]
  BY <1>0 DEF DirectPing, Await
<1>3. p \in Pings /\ p.by \in up /\ (p.kind # "helper" => p.target # p.by)
  <2>1. n \in Nat
    BY <1>1, Constants DEF Free
  <2> QED
    BY <1>1, <2>1 DEF Pings
<1>4. acked \subseteq probes
  BY DEF Typed, ProbesTyped
<1>5. ProbesTyped'
  <2> HIDE DEF p
  <2>1. acked' \in SUBSET (acked \cap probes)
    BY <1>2, <1>4
  <2>2. \A q \in probes \ probes : SameKey(p, q)
    OBVIOUS
  <2> QED
    BY <1>2, <1>3, <2>1, <2>2, NewProbeTyped
<1>6. QueuesTyped'
  <2>1. pending[m] \in Seq(Gossip)
    BY <1>1 DEF Typed, QueuesTyped
  <2>2. Undrained(pending[m]) \in Seq(Gossip)
    BY <2>1, DrainedIs
  <2> QED
    BY <1>2, <2>2 DEF Typed, QueuesTyped
<1> QED
  BY <1>5, <1>6

\* The ping itself.
LEMMA PingSent ==
  ASSUME Typed, NEW m \in up, NEW t \in Members, NEW kept \in SUBSET net,
         net' \in Packets(kept, {Ping(m, t, Drained(pending[m]))})
  PROVE  NetTyped'
<1>1. m \in Members /\ pending[m] \in Seq(Gossip)
  BY DEF Typed, TableTyped, QueuesTyped
<1>2. Drained(pending[m]) \in Seq(Gossip)
  BY <1>1, DrainedIs
<1>3. \A x \in {Ping(m, t, Drained(pending[m]))} : IsPacket(x)
  BY <1>1, <1>2, PacketIs
<1> QED
  BY <1>3, NetSends

\* probeOne.
LEMMA ProbeTyped ==
  ASSUME Typed, NEW m \in Members, NEW t \in Members, Probe(m, t)
  PROVE  Typed' /\ DeadKept
<1>1. /\ m \in up /\ t # m /\ DirectPing(m, t, "direct", m)
      /\ net' \in Packets(net, {Ping(m, t, Drained(pending[m]))})
      /\ UNCHANGED <<up, table, events, ring, blind>>
  BY DEF Probe, procVars, ringVars
<1>2. ProbesTyped' /\ QueuesTyped'
  BY <1>1, DirectPingTyped DEF Kinds
<1>3. TableTyped' /\ DeadKept /\ RingTyped'
  BY <1>1, TableStays, RingStays
<1>4. NetTyped'
  BY <1>1, PingSent
<1> QED
  BY <1>2, <1>3, <1>4 DEF Typed

\* A helper pings on behalf of another.
LEMMA HandlePingReqTyped ==
  ASSUME Typed, NEW x \in net, HandlePingReq(x)
  PROVE  Typed' /\ DeadKept
<1>1. /\ x.to \in up /\ x.type = "ping-req" /\ DirectPing(x.to, x.target, "helper", x.from)
      /\ net' \in Packets(net \ {x}, {Ping(x.to, x.target, Drained(pending[x.to]))})
      /\ UNCHANGED <<up, table, events, ring, blind>>
  BY DEF HandlePingReq, Received, procVars, ringVars
<1>2. x.target \in Members /\ x.from \in Members
  BY <1>1 DEF Typed, NetTyped, IsPacket
<1>3. ProbesTyped' /\ QueuesTyped'
  BY <1>1, <1>2, DirectPingTyped DEF Kinds
<1>4. TableTyped' /\ DeadKept /\ RingTyped'
  BY <1>1, TableStays, RingStays
<1>5. NetTyped'
  BY <1>1, <1>2, PingSent
<1> QED
  BY <1>3, <1>4, <1>5 DEF Typed

\* An ack ends a probe.
LEMMA ConfirmedTyped ==
  ASSUME Typed, NEW p \in probes, Confirmed(p)
  PROVE  Typed' /\ DeadKept
<1>1. /\ EndProbe(p) /\ UNCHANGED <<up, table, pending, events, ring, blind>>
      /\ net' \in Packets(net, {Ack(p.by, p.for, <<>>)}) \/ net' = net
  BY DEF Confirmed, procVars, viewVars, ringVars
<1>2. TableTyped' /\ DeadKept /\ RingTyped' /\ QueuesTyped' /\ ProbesTyped'
  BY <1>1, TableStays, RingStays, QueuesStay, EndProbeTyped
<1>3. NetTyped'
  <2>1. p.by \in Members /\ p.for \in Members
    BY DEF Typed, ProbesTyped, Pings
  <2>2. \A x \in {Ack(p.by, p.for, <<>>)} : IsPacket(x)
    <3>1. <<>> \in Seq(Gossip)
      OBVIOUS
    <3> QED
      BY <2>1, <3>1, PacketIs
  <2>3. CASE net' = net
    BY <2>3, NetLoses
  <2>4. CASE net' \in Packets(net, {Ack(p.by, p.for, <<>>)})
    BY <2>2, <2>4, NetSends
  <2> QED
    BY <1>1, <2>3, <2>4
<1> QED
  BY <1>2, <1>3 DEF Typed

\* A direct ping times out, and helpers are asked.
LEMMA DirectTimeoutTyped ==
  ASSUME Typed, NEW p \in probes, DirectTimeout(p)
  PROVE  Typed' /\ DeadKept
<1> DEFINE i == [p EXCEPT !.kind = "indirect"]
<1>1. /\ p.kind = "direct" /\ probes' = (probes \ {p}) \cup {i}
      /\ ackWait' = {q \in ackWait : ~SameKey(p, q)} \cup {i} /\ acked' = acked \ {p}
      /\ UNCHANGED <<up, table, pending, events, ring, blind>>
      /\ \E H \in Helpers(p) : net' \in Packets(net, {PingReq(p.by, h, p.target) : h \in H})
  BY DEF DirectTimeout, procVars, viewVars, ringVars
<1>2. /\ p \in Pings /\ p.by \in up /\ p.target # p.by /\ p.by \in Members /\ p.target \in Members
      /\ acked \subseteq probes
  BY <1>1 DEF Typed, ProbesTyped, Pings, TableTyped
<1>3. i \in Pings /\ i.by = p.by /\ i.target = p.target
  BY <1>2 DEF Pings, Kinds
<1>4. ProbesTyped'
  <2> HIDE DEF i
  <2>1. \A q : SameKey(i, q) <=> SameKey(p, q)
    BY <1>3 DEF SameKey
  <2>2. ackWait' = {q \in ackWait : ~SameKey(i, q)} \cup {i}
    BY <1>1, <2>1
  <2>3. \A q \in probes \ (probes \ {p}) : SameKey(i, q)
    BY <1>3 DEF SameKey
  <2>4. acked' \in SUBSET (acked \cap (probes \ {p}))
    BY <1>1, <1>2
  <2>5. probes \ {p} \in SUBSET probes /\ UNCHANGED up
    BY <1>1
  <2> QED
    BY <1>1, <1>2, <1>3, <2>2, <2>3, <2>4, <2>5, NewProbeTyped
<1>5. NetTyped'
  <2>1. PICK H \in Helpers(p) : net' \in Packets(net, {PingReq(p.by, h, p.target) : h \in H})
    BY <1>1
  <2>2. H \subseteq Members
    BY <2>1 DEF Helpers, NotDead
  <2>3. \A x \in {PingReq(p.by, h, p.target) : h \in H} : IsPacket(x)
    <3>1. <<>> \in Seq(Gossip)
      OBVIOUS
    <3>2. \A h \in H : IsPacket(PingReq(p.by, h, p.target))
      BY <1>2, <2>2, <3>1, PacketIs
    <3> QED
      BY <3>2
  <2> QED
    BY <2>1, <2>3, NetSends
<1>6. TableTyped' /\ DeadKept /\ RingTyped' /\ QueuesTyped'
  BY <1>1, TableStays, RingStays, QueuesStay
<1> QED
  BY <1>4, <1>5, <1>6 DEF Typed

\* The helpers are silent too: the target, never the member itself, is suspected.
LEMMA IndirectTimeoutTyped ==
  ASSUME Typed, NEW p \in probes, IndirectTimeout(p)
  PROVE  Typed' /\ DeadKept
<1> DEFINE m == p.by
           t == p.target
           s == IF table[m][t].state = "alive" THEN "suspect" ELSE table[m][t].state
<1>1. /\ p.kind = "indirect" /\ EndProbe(p)
      /\ table' = [table EXCEPT ![m][t].state = s]
      /\ UNCHANGED <<up, pending, events, net, ring, blind>>
  BY DEF IndirectTimeout, procVars, ringVars
<1>2. m \in Members /\ t \in Members /\ m \in up /\ t # m
  BY <1>1 DEF Typed, ProbesTyped, Pings
<1>3. table \in [Members -> [Members -> Row]]
  BY DEF Typed, TableTyped
<1>4. /\ table' \in [Members -> [Members -> Row]]
      /\ \A u, w \in Members : <<u, w>> # <<m, t>> => table'[u][w] = table[u][w]
      /\ table'[m][t].state = s /\ table'[m][t].http = table[m][t].http
      /\ \A u \in Members \ {m} : table'[u] = table[u]
  <2> HIDE DEF m, t
  <2>1. table[m] \in [Members -> Row] /\ table[m][t] \in Row
    BY <1>2, <1>3
  <2> DEFINE r == [table[m][t] EXCEPT !.state = s]
             q == [table[m] EXCEPT ![t] = r]
  <2>2. r \in Row /\ r.state = s /\ r.http = table[m][t].http
    <3>1. s \in {"unknown", "alive", "suspect", "dead"}
      BY <2>1 DEF Row
    <3> HIDE DEF s
    <3> QED
      BY <2>1, <3>1, RowWith DEF Row
  <2>3. table' = [table EXCEPT ![m] = q]
    BY <1>1
  <2> HIDE DEF r, s
  <2>4. q \in [Members -> Row] /\ q[t] = r /\ \A u \in Members \ {t} : q[u] = table[m][u]
    BY <1>2, <2>1, <2>2
  <2> HIDE DEF q
  <2>5. /\ table' \in [Members -> [Members -> Row]] /\ table'[m] = q
        /\ \A u \in Members \ {m} : table'[u] = table[u]
    BY <1>2, <1>3, <2>3, <2>4
  <2> QED
    BY <2>2, <2>4, <2>5
<1>5. s = "dead" <=> table[m][t].state = "dead"
  OBVIOUS
<1> HIDE DEF m, t, s
<1>6. TableTyped'
  <2>1. \A u, w \in Members : table'[u][w].http => w \in Nodes
    BY <1>2, <1>4 DEF Typed, TableTyped
  <2>2. \A u \in Members : table'[u][u] = table[u][u]
    BY <1>2, <1>4
  <2>3. /\ \A u \in Members : table'[u][u].inc = 0
        /\ \A u \in up : table'[u][u].state \in {"alive", "dead"}
    BY <2>2 DEF Typed, TableTyped
  <2>4. \A u \in Members \ up : table'[u] = [w \in Members |-> Unknown]
    BY <1>2, <1>4 DEF Typed, TableTyped
  <2> QED
    BY <1>1, <1>4, <2>1, <2>3, <2>4 DEF Typed, TableTyped
<1>7. DeadKept
  BY <1>2, <1>4, <1>5 DEF DeadKept
<1>8. QueuesTyped' /\ RingTyped' /\ ProbesTyped'
  BY <1>1, QueuesStay, RingStays, EndProbeTyped
<1>9. NetTyped'
  BY <1>1, NetLoses
<1> QED
  BY <1>6, <1>7, <1>8, <1>9 DEF Typed

\* A helper gives up.
LEMMA HelperTimeoutTyped ==
  ASSUME Typed, NEW p \in probes, HelperTimeout(p)
  PROVE  Typed' /\ DeadKept
<1>1. EndProbe(p) /\ UNCHANGED <<up, table, pending, events, net, ring, blind>>
  BY DEF HelperTimeout, procVars, viewVars, ringVars
<1>2. TableTyped' /\ DeadKept /\ RingTyped' /\ QueuesTyped' /\ ProbesTyped' /\ NetTyped'
  BY <1>1, TableStays, RingStays, QueuesStay, EndProbeTyped, NetLoses
<1> QED
  BY <1>2 DEF Typed

\* A suspicion has lasted.
LEMMA ExpireTyped ==
  ASSUME Typed, NEW m \in Members, NEW t \in Members, Expire(m, t)
  PROVE  Typed' /\ DeadKept
<1>1. /\ m \in up /\ table[m][t].state = "suspect" /\ SetView(m, Declared(View(m), t))
      /\ UNCHANGED <<up, probeVars, net, ring>>
  BY DEF Expire, procVars
<1>2. Fit(View(m), m, DeadAt(m)) /\ View(m) \in Views /\ DeadAt(m) \in SUBSET Members
  BY <1>1, ViewFits
<1>3. View(m).row[t].state = "suspect" /\ (View(m).row[t].http => t \in Nodes)
  BY <1>1 DEF View, Typed, TableTyped
<1>4. Declared(View(m), t) \in Views /\ Dies(View(m), Declared(View(m), t), t)
  BY <1>2, <1>3, DeclaredIs
<1>5. Fit(Declared(View(m), t), m, DeadAt(m))
  BY <1>2, <1>4, MovedFit
<1>6. TableTyped' /\ QueuesTyped' /\ RingTyped' /\ DeadKept
  BY <1>1, <1>5, SetViewTyped
<1>7. ProbesTyped' /\ NetTyped'
  BY <1>1, ProbesStay, NetLoses
<1> QED
  BY <1>6, <1>7 DEF Typed

\* The view after the gossip of a packet.
Heard(x) == Merged(View(x.to), x.events)

\* The view after the gossip of a packet is fit.
LEMMA HeardFits ==
  ASSUME Typed, NEW x \in net, x.to \in up, x.type # "ping-req"
  PROVE  Fit(Heard(x), x.to, DeadAt(x.to)) /\ Heard(x) \in Views
<1>1. x.events \in Seq(Gossip)
  BY DEF Typed, NetTyped, IsPacket
<1>2. /\ x.to \in Members /\ Fit(View(x.to), x.to, DeadAt(x.to)) /\ DeadAt(x.to) \in SUBSET Members
  BY ViewFits
<1>3. Fit(Heard(x), x.to, DeadAt(x.to))
  BY <1>1, <1>2, MergedFit DEF Heard
<1> QED
  BY <1>3 DEF Fit

\* A pull from the queue of gossip, and a member that is no longer suspected.
LEMMA PulledIs ==
  ASSUME NEW v \in Views
  PROVE  /\ [v EXCEPT !.pending = Undrained(@)] \in Views
         /\ Unmoved(v, [v EXCEPT !.pending = Undrained(@)])
<1> DEFINE w == [row |-> v.row, pending |-> Undrained(v.pending), events |-> v.events,
                 dropped |-> v.dropped, blind |-> v.blind]
<1>1. [v EXCEPT !.pending = Undrained(@)] = w
  BY ViewWith
<1>2. Undrained(v.pending) \in Seq(Gossip)
  BY ViewIs, DrainedIs
<1>3. w \in Views
  BY <1>2, ViewIs, ViewMake
<1>4. Unmoved(v, w)
  BY DEF Unmoved
<1> QED
  BY <1>1, <1>3, <1>4

\* An ack ends a suspicion and nothing else.
LEMMA RefutedIs ==
  ASSUME NEW row \in [Members -> Row], NEW t \in Members
  PROVE  /\ Refuted(row, t) \in [Members -> Row]
         /\ \A u \in Members :
              /\ Refuted(row, t)[u].http = row[u].http
              /\ row[u].state # "suspect" => Refuted(row, t)[u] = row[u]
              /\ row[u].state = "suspect" => Refuted(row, t)[u].state \in {"alive", "suspect"}
<1> DEFINE i == IF row[t].inc < MaxInc THEN row[t].inc + 1 ELSE row[t].inc
           r == [state |-> "alive", http |-> row[t].http, inc |-> i]
<1>1. CASE row[t].state # "suspect"
  BY <1>1 DEF Refuted
<1>2. CASE row[t].state = "suspect"
  <2>1. row[t] \in Row /\ row[t].http \in BOOLEAN /\ row[t].inc \in 0..MaxInc
    BY RowIs
  <2>2. i \in 0..MaxInc
    BY <2>1, Constants
  <2>3. r \in Row
    BY <2>1, <2>2 DEF Row
  <2>4. [row EXCEPT ![t].state = "alive", ![t].inc = IF @ < MaxInc THEN @ + 1 ELSE @]
          = [row EXCEPT ![t] = r]
    <3> DEFINE a == [row EXCEPT ![t].state = "alive"]
               b == [row[t] EXCEPT !.state = "alive"]
    <3>1. b = [state |-> "alive", http |-> row[t].http, inc |-> row[t].inc] /\ b \in Row
      BY <2>1, RowWith DEF Row
    <3>2. a = [row EXCEPT ![t] = b]
      OBVIOUS
    <3>3. [row EXCEPT ![t].state = "alive", ![t].inc = IF @ < MaxInc THEN @ + 1 ELSE @]
            = [a EXCEPT ![t].inc = IF @ < MaxInc THEN @ + 1 ELSE @]
      OBVIOUS
    <3> HIDE DEF a, b
    <3>4. a \in [Members -> Row] /\ a[t] = b /\ \A u \in Members \ {t} : a[u] = row[u]
      BY <3>1, <3>2
    <3>5. b.inc = row[t].inc /\ b.http = row[t].http /\ b.state = "alive"
      BY <3>1
    <3>6. [a EXCEPT ![t].inc = IF @ < MaxInc THEN @ + 1 ELSE @] = [a EXCEPT ![t] = [b EXCEPT !.inc = i]]
      <4>1. [a EXCEPT ![t].inc = IF @ < MaxInc THEN @ + 1 ELSE @]
              = [a EXCEPT ![t] = [a[t] EXCEPT !.inc = IF a[t].inc < MaxInc THEN a[t].inc + 1
                                                      ELSE a[t].inc]]
        OBVIOUS
      <4>2. (IF a[t].inc < MaxInc THEN a[t].inc + 1 ELSE a[t].inc) = i
        BY <3>4, <3>5
      <4> QED
        BY <3>4, <4>1, <4>2
    <3>7. [b EXCEPT !.inc = i] = r
      <4> HIDE DEF i
      <4>1. [b EXCEPT !.inc = i] = [state |-> b.state, http |-> b.http, inc |-> i]
        BY <3>1, RowWith
      <4> QED
        BY <3>5, <4>1
    <3> QED
      BY <3>3, <3>4, <3>6, <3>7, <3>2
  <2>5. Refuted(row, t) = [row EXCEPT ![t] = r]
    BY <1>2, <2>4 DEF Refuted
  <2>6. r.http = row[t].http /\ r.state = "alive"
    OBVIOUS
  <2> HIDE DEF r
  <2> QED
    BY <1>2, <2>3, <2>5, <2>6
<1> QED
  BY <1>1, <1>2

\* A view after an ack.
LEMMA AckedIs ==
  ASSUME NEW v \in Views, NEW t \in Members
  PROVE  /\ [v EXCEPT !.row = Refuted(@, t)] \in Views
         /\ [v EXCEPT !.row = Refuted(@, t)].row = Refuted(v.row, t)
         /\ [v EXCEPT !.row = Refuted(@, t)].events = v.events
         /\ [v EXCEPT !.row = Refuted(@, t)].dropped = v.dropped
         /\ [v EXCEPT !.row = Refuted(@, t)].blind = v.blind
<1> DEFINE w == [row |-> Refuted(v.row, t), pending |-> v.pending, events |-> v.events,
                 dropped |-> v.dropped, blind |-> v.blind]
<1>1. [v EXCEPT !.row = Refuted(@, t)] = w
  BY ViewWith
<1>2. Refuted(v.row, t) \in [Members -> Row]
  BY ViewIs, RefutedIs
<1>3. w \in Views
  BY <1>2, ViewIs, ViewMake
<1> QED
  BY <1>1, <1>3

\* It is as fit as before.
LEMMA AckedFits ==
  ASSUME NEW m \in Members, NEW D \in SUBSET Members, NEW v, Fit(v, m, D), NEW t \in Members
  PROVE  Fit([v EXCEPT !.row = Refuted(@, t)], m, D)
<1> DEFINE w == [v EXCEPT !.row = Refuted(@, t)]
<1>1. /\ v \in Views /\ v.row \in [Members -> Row]
      /\ \A u \in Members : v.row[u].http => u \in Nodes
      /\ v.row[m].inc = 0 /\ v.row[m].state \in {"alive", "dead"}
      /\ \A u \in D : v.row[u].state = "dead"
  BY ViewIs DEF Fit
<1>2. w \in Views /\ w.row = Refuted(v.row, t)
  BY <1>1, AckedIs
<1> HIDE DEF w
<1>3. \A u \in Members :
        /\ w.row[u].http = v.row[u].http
        /\ v.row[u].state # "suspect" => w.row[u] = v.row[u]
  BY <1>1, <1>2, RefutedIs
<1>4. Fit(w, m, D)
  BY <1>1, <1>2, <1>3 DEF Fit
<1> QED
  BY <1>4 DEF w

\* A ping arrives, and is answered.
LEMMA HandlePingTyped ==
  ASSUME Typed, NEW x \in net, HandlePing(x)
  PROVE  Typed' /\ DeadKept
<1> DEFINE m == x.to
           v == Heard(x)
           w == [v EXCEPT !.pending = Undrained(@)]
<1>1. /\ m \in up /\ x.type = "ping" /\ SetView(m, w)
      /\ net' \in Packets(net \ {x}, {Ack(m, x.from, <<Join(m)>> \o Drained(v.pending))})
      /\ UNCHANGED <<up, probeVars, ring>>
  BY DEF HandlePing, Received, Heard, procVars
<1>2. Fit(v, m, DeadAt(m)) /\ v \in Views
  BY <1>1, HeardFits
<1>3. x.from \in Members /\ m \in Members /\ DeadAt(m) \in SUBSET Members
  BY <1>1, ViewFits DEF Typed, NetTyped, IsPacket
<1> HIDE DEF v
<1>4. w \in Views /\ Unmoved(v, w)
  BY <1>2, PulledIs
<1> HIDE DEF w
<1>5. Fit(w, m, DeadAt(m))
  BY <1>2, <1>3, <1>4, MovedFit
<1>6. TableTyped' /\ QueuesTyped' /\ RingTyped' /\ DeadKept
  BY <1>1, <1>5, SetViewTyped
<1>7. NetTyped'
  <2>1. Drained(v.pending) \in Seq(Gossip)
    BY <1>2, ViewIs, DrainedIs
  <2>2. Join(m) \in Gossip
    BY <1>3, JoinGossip DEF Typed
  <2>3. <<Join(m)>> \o Drained(v.pending) \in Seq(Gossip)
    BY <2>1, <2>2
  <2>4. \A y \in {Ack(m, x.from, <<Join(m)>> \o Drained(v.pending))} : IsPacket(y)
    BY <1>3, <2>3, PacketIs
  <2> QED
    BY <1>1, <2>4, NetSends
<1>8. ProbesTyped'
  BY <1>1, ProbesStay
<1> QED
  BY <1>6, <1>7, <1>8 DEF Typed

\* An ack arrives.
LEMMA HandleAckTyped ==
  ASSUME Typed, NEW x \in net, HandleAck(x)
  PROVE  Typed' /\ DeadKept
<1> DEFINE m == x.to
           v == Heard(x)
           w == [v EXCEPT !.row = Refuted(@, x.from)]
<1>1. /\ m \in up /\ x.type = "ack" /\ SetView(m, w)
      /\ acked' = acked \cup {p \in ackWait : p.by = m /\ p.target = x.from}
      /\ net' = net \ {x}
      /\ UNCHANGED <<up, probes, ackWait, ring>>
  BY DEF HandleAck, Received, Heard, procVars
<1>2. Fit(v, m, DeadAt(m)) /\ v \in Views
  BY <1>1, HeardFits
<1>3. x.from \in Members /\ m \in Members /\ DeadAt(m) \in SUBSET Members
  BY <1>1, ViewFits DEF Typed, NetTyped, IsPacket
<1> HIDE DEF v
<1>4. Fit(w, m, DeadAt(m))
  BY <1>2, <1>3, AckedFits
<1> HIDE DEF w
<1>5. TableTyped' /\ QueuesTyped' /\ RingTyped' /\ DeadKept
  BY <1>1, <1>4, SetViewTyped
<1>6. NetTyped'
  BY <1>1, NetLoses
<1>7. ProbesTyped'
  BY <1>1 DEF Typed, ProbesTyped, SameKey
<1> QED
  BY <1>5, <1>6, <1>7 DEF Typed

\* A packet finds nobody.
LEMMA UnheardTyped ==
  ASSUME Typed, NEW x \in net, Unheard(x)
  PROVE  Typed' /\ DeadKept
<1>1. net' = net \ {x} /\ UNCHANGED <<up, table, pending, events, probeVars, ring, blind>>
  BY DEF Unheard, procVars, viewVars, ringVars
<1>2. TableTyped' /\ DeadKept /\ RingTyped' /\ QueuesTyped' /\ ProbesTyped' /\ NetTyped'
  BY <1>1, TableStays, RingStays, QueuesStay, ProbesStay, NetLoses
<1> QED
  BY <1>2 DEF Typed

\* A watcher takes an event.
LEMMA WatchTyped ==
  ASSUME Typed, NEW w \in Members, Watch(w)
  PROVE  Typed' /\ DeadKept
<1> DEFINE e == Head(events[w])
<1>1. /\ events[w] # <<>> /\ events' = [events EXCEPT ![w] = Tail(events[w])]
      /\ ring' = [ring EXCEPT ![w] = CASE ~e.http -> ring[w]
                                       [] e.http /\ e.type = "join" -> ring[w] \cup {e.addr}
                                       [] e.http /\ e.type = "dead" -> ring[w] \ {e.addr}]
      /\ UNCHANGED <<up, table, pending, probeVars, net, blind>>
  BY DEF Watch, procVars
<1>2. events[w] \in Seq(Event) /\ ring[w] \subseteq Nodes
  BY DEF Typed, QueuesTyped, RingTyped
<1>3. e \in Event /\ Tail(events[w]) \in Seq(Event)
  BY <1>1, <1>2
<1>4. e.type \in {"join", "dead"} /\ e.http \in BOOLEAN /\ (e.http => e.addr \in Nodes)
  BY <1>3 DEF Event
<1> HIDE DEF e
<1>5. QueuesTyped'
  BY <1>1, <1>3 DEF Typed, QueuesTyped
<1>6. RingTyped'
  <2> DEFINE r == CASE ~e.http -> ring[w]
                    [] e.http /\ e.type = "join" -> ring[w] \cup {e.addr}
                    [] e.http /\ e.type = "dead" -> ring[w] \ {e.addr}
  <2>1. r \in SUBSET Nodes
    BY <1>2, <1>4
  <2>2. ring' = [ring EXCEPT ![w] = r]
    BY <1>1
  <2> HIDE DEF r
  <2> QED
    BY <1>1, <2>1, <2>2 DEF Typed, RingTyped
<1>7. TableTyped' /\ DeadKept /\ ProbesTyped' /\ NetTyped'
  BY <1>1, TableStays, ProbesStay, NetLoses
<1> QED
  BY <1>5, <1>6, <1>7 DEF Typed

\* Every step keeps the types, and the dead dead.
LEMMA NextTyped == Typed /\ [Next]_vars => Typed' /\ DeadKept
<1> SUFFICES ASSUME Typed, [Next]_vars PROVE Typed' /\ DeadKept
  OBVIOUS
<1>1. CASE UNCHANGED vars
  <2>1. UNCHANGED <<up, table, pending, events, probeVars, net, ring, blind>>
    BY <1>1 DEF vars, procVars, viewVars, ringVars
  <2>2. TableTyped' /\ DeadKept /\ RingTyped' /\ QueuesTyped' /\ ProbesTyped' /\ NetTyped'
    BY <2>1, TableStays, RingStays, QueuesStay, ProbesStay, NetLoses
  <2> QED
    BY <2>2 DEF Typed
<1>2. CASE \E m \in Members : Start(m) \/ Crash(m)
  BY <1>2, StartTyped, CrashTyped
<1>3. CASE \E m \in Probers, t \in Members : Probe(m, t)
  BY <1>3, Constants, ProbeTyped
<1>4. CASE \E m, t \in Members : Expire(m, t)
  BY <1>4, ExpireTyped
<1>5. CASE \E p \in probes : Confirmed(p) \/ DirectTimeout(p) \/ IndirectTimeout(p) \/ HelperTimeout(p)
  BY <1>5, ConfirmedTyped, DirectTimeoutTyped, IndirectTimeoutTyped, HelperTimeoutTyped
<1>6. CASE \E x \in net : HandlePing(x) \/ HandleAck(x) \/ HandlePingReq(x) \/ Unheard(x)
  BY <1>6, HandlePingTyped, HandleAckTyped, HandlePingReqTyped, UnheardTyped
<1>7. CASE \E w \in Watchers : Watch(w)
  BY <1>7, Constants, WatchTyped
<1> QED
  BY <1>1, <1>2, <1>3, <1>4, <1>5, <1>6, <1>7 DEF Next

\* Typed holds always.
LEMMA AlwaysTyped == Spec => []Typed
<1>1. Typed /\ [Next]_vars => Typed'
  BY NextTyped
<1> QED
  BY InitTyped, <1>1, PTL DEF Spec

\* Every variable keeps its type: an entry of ackWait is that of one running probe, and a member
\* holds itself alive or dead (membership.go directPing, handleMsg, checkSuspects).
THEOREM TypeCorrect == Spec => []TypeOK
  BY AlwaysTyped, TypedImplies, PTL

\* A member held dead stays dead to whoever heard of it (membership.go mergeEvents): the joins
\* that could bring it back carry incarnation 0 always, and only a larger one overrules.
THEOREM DeathIsFinal == Spec => DeadStaysDead
<1>1. Typed /\ [Next]_vars =>
        [\A m, t \in Members :
           table[m][t].state = "dead" /\ m \in up' => table'[m][t].state = "dead"]_vars
  BY NextTyped DEF DeadKept
<1> QED
  BY AlwaysTyped, <1>1, PTL DEF Spec, DeadStaysDead

-----------------------------------------------------------------------------
\* The rings.

\* What the watcher does with an event, and with all of them.
Read(r, e) ==
    CASE ~e.http -> r
      [] e.http /\ e.type = "join" -> r \cup {e.addr}
      [] e.http /\ e.type = "dead" -> r \ {e.addr}
\* Reading the whole channel.
Reading == INSTANCE SequenceFolds WITH Op <- Read

\* The nodes that belong into the ring of m: those it knows the HTTP address of, except
\* for the ones that died since.
InRing(v, m) ==
    {t \in Nodes : /\ t \in Peers[m] \/ (t # m /\ v.row[t].http)
                   /\ v.row[t].state # "dead" \/ t \in v.blind}

\* No event is queued twice, and what is queued has happened.
Said(v) ==
    /\ \A i, j \in 1..Len(v.events) :
         v.events[i].type = v.events[j].type /\ v.events[i].addr = v.events[j].addr => i = j
    /\ \A i \in 1..Len(v.events) :
         IF v.events[i].type = "join" THEN ~Joinable(v.row, v.events[i].addr)
         ELSE v.row[v.events[i].addr].state = "dead"

\* A view to which the ring r is true: once its queue is read, r is what it should be.
Loyal(v, r, m) ==
    /\ v.dropped = FALSE
    /\ Said(v)
    /\ ~Joinable(v.row, m)
    /\ \A t \in v.blind : v.row[t].state = "dead"
    /\ m \in Watchers =>
         /\ Reading!Fold(r, v.events) = InRing(v, m)
         /\ \A t \in Nodes : v.row[t].state = "dead" /\ ~v.row[t].http => t \in v.blind

\* The second inductive invariant.
Followed ==
    /\ dropped = {}
    /\ \A m \in up : Loyal(View(m), ring[m], m)
    /\ \A m \in Members \ up : events[m] = <<>> /\ blind[m] = {}

\* With an empty channel it is the property of the model.
LEMMA FollowedImplies == Typed /\ Followed => RingFollows
<1> DEFINE Belong(w) == {t \in Nodes : /\ Announced(w, t)
                                       /\ table[w][t].state # "dead" \/ t \in blind[w]}
<1> SUFFICES ASSUME Typed, Followed, NEW w \in Watchers \cap up, events[w] = <<>>
             PROVE  ring[w] = Belong(w)
  BY Zenon DEF RingFollows, Followed
<1>1. Reading!Fold(ring[w], View(w).events) = InRing(View(w), w)
  BY DEF Followed, Loyal
<1>2. View(w).events = <<>> /\ View(w).row = table[w] /\ View(w).blind = blind[w]
  BY DEF View
<1>3. Reading!Fold(ring[w], <<>>) = ring[w]
  BY Reading!FoldEmpty
<1>4. InRing(View(w), w) = Belong(w)
  BY <1>2 DEF InRing, Announced
<1> QED
  BY <1>1, <1>2, <1>3, <1>4

\* A queue without repetition that lacks something has room for it.
LEMMA RoomLeft ==
  ASSUME EventCap >= 2 * Cardinality(Members), NEW q \in Seq(Event),
         \A i, j \in 1..Len(q) : q[i].type = q[j].type /\ q[i].addr = q[j].addr => i = j,
         NEW type \in {"join", "dead"}, NEW t \in Members,
         \A i \in 1..Len(q) : ~(q[i].type = type /\ q[i].addr = t)
  PROVE  Len(q) < EventCap
<1> DEFINE K == {"join", "dead"} \X Members
           L == K \ {<<type, t>>}
           f == [i \in 1..Len(q) |-> <<q[i].type, q[i].addr>>]
<1>1. Len(q) \in Nat /\ \A i \in 1..Len(q) : q[i].type \in {"join", "dead"} /\ q[i].addr \in Members
  BY DEF Event
<1>2. IsFiniteSet(K) /\ Cardinality(K) = 2 * Cardinality(Members)
  <2>1. IsFiniteSet({"join"}) /\ Cardinality({"join"}) = 1
    BY FS_Singleton
  <2>2. {"join"} \cup {"dead"} = {"join", "dead"} /\ "dead" \notin {"join"}
    OBVIOUS
  <2>3. /\ IsFiniteSet({"join"} \cup {"dead"})
        /\ Cardinality({"join"} \cup {"dead"}) =
             IF "dead" \in {"join"} THEN Cardinality({"join"}) ELSE Cardinality({"join"}) + 1
    BY <2>1, FS_AddElement
  <2>4. IsFiniteSet({"join", "dead"}) /\ Cardinality({"join", "dead"}) = 2
    BY <2>1, <2>2, <2>3
  <2>5. /\ IsFiniteSet({"join", "dead"} \X Members)
        /\ Cardinality({"join", "dead"} \X Members) = Cardinality({"join", "dead"}) * Cardinality(Members)
    BY <2>4, Constants, FS_Product
  <2> QED
    BY <2>4, <2>5
<1>3. IsFiniteSet(L) /\ Cardinality(L) = Cardinality(K) - 1
  <2>1. <<type, t>> \in K
    OBVIOUS
  <2> HIDE DEF K
  <2> QED
    BY <1>2, <2>1, FS_RemoveElement
<1>4. f \in Injection(1..Len(q), L)
  <2>1. \A i \in 1..Len(q) : <<q[i].type, q[i].addr>> \in L
    BY <1>1
  <2>2. \A i, j \in 1..Len(q) : <<q[i].type, q[i].addr>> = <<q[j].type, q[j].addr>> => i = j
    OBVIOUS
  <2> HIDE DEF L
  <2>3. f \in [1..Len(q) -> L]
    BY <2>1
  <2>4. \A i, j \in 1..Len(q) : f[i] = f[j] => i = j
    BY <2>2
  <2> QED
    BY <2>3, <2>4 DEF Injection, IsInjective
<1> HIDE DEF f, K, L
<1>5. Cardinality(1..Len(q)) <= Cardinality(L)
  BY <1>3, <1>4, FS_Injection
<1>6. Cardinality(1..Len(q)) = Len(q)
  <2> DEFINE n == Len(q)
  <2>1. n \in Nat /\ n \in Int /\ 1 \in Int
    BY <1>1
  <2> HIDE DEF n
  <2>2. Cardinality(1..n) = IF 1 > n THEN 0 ELSE n - 1 + 1
    BY <2>1, FS_Interval
  <2>3. Cardinality(1..n) = n
    BY <2>1, <2>2
  <2> QED
    BY <2>3 DEF n
<1>7. Cardinality(Members) \in Nat
  BY Constants, FS_CardinalityType
<1> QED
  BY <1>1, <1>2, <1>3, <1>5, <1>6, <1>7, Constants

-----------------------------------------------------------------------------
\* What happens to a view keeps the ring true to it.

\* Events are about members.
LEMMA EventsAre ==
  ASSUME NEW v \in Views
  PROVE  /\ v.events \in Seq(Event) /\ v.blind \subseteq Members /\ Len(v.events) \in Nat
         /\ \A i \in 1..Len(v.events) :
              v.events[i].addr \in Members /\ v.events[i].type \in {"join", "dead"}
<1>1. v.events \in Seq(Event) /\ v.blind \subseteq Members
  BY ViewIs
<1> DEFINE q == v.events
<1>2. q \in Seq(Event)
  BY <1>1
<1> HIDE DEF q
<1>3. Len(q) \in Nat /\ \A i \in 1..Len(q) : q[i] \in Event
  BY <1>2
<1>4. \A e \in Event : e.addr \in Members /\ e.type \in {"join", "dead"}
  BY DEF Event
<1> QED
  BY <1>1, <1>3, <1>4 DEF q

\* One more event that has happened and is not queued yet.
LEMMA SaidWith ==
  ASSUME NEW v \in Views, Said(v), NEW w, NEW e \in Event, w.events = Append(v.events, e),
         \A i \in 1..Len(v.events) : ~(v.events[i].type = e.type /\ v.events[i].addr = e.addr),
         IF e.type = "join" THEN ~Joinable(w.row, e.addr) ELSE w.row[e.addr].state = "dead",
         \A u \in Members : /\ ~Joinable(v.row, u) => ~Joinable(w.row, u)
                            /\ v.row[u].state = "dead" => w.row[u].state = "dead"
  PROVE  Said(w)
<1> DEFINE q == v.events
           p == w.events
           n == Len(q)
<1>1. /\ q \in Seq(Event) /\ n \in Nat
      /\ \A i \in 1..n : q[i].addr \in Members
  BY EventsAre
<1>2. p = Append(q, e)
  OBVIOUS
<1>3. /\ \A i, j \in 1..n : q[i].type = q[j].type /\ q[i].addr = q[j].addr => i = j
      /\ \A i \in 1..n : IF q[i].type = "join" THEN ~Joinable(v.row, q[i].addr)
                         ELSE v.row[q[i].addr].state = "dead"
      /\ \A i \in 1..n : ~(q[i].type = e.type /\ q[i].addr = e.addr)
  BY DEF Said
<1> HIDE DEF q, p
<1>4. /\ Len(p) = n + 1 /\ p[n + 1] = e
      /\ \A i \in 1..n : p[i] = q[i]
  BY <1>1, <1>2
<1>5. \A i \in 1..(n + 1) : i \in 1..n \/ i = n + 1
  BY <1>1
<1> HIDE DEF n
<1>6. \A i, j \in 1..Len(p) : p[i].type = p[j].type /\ p[i].addr = p[j].addr => i = j
  BY <1>3, <1>4, <1>5
<1>7. ASSUME NEW i \in 1..Len(p)
      PROVE  IF p[i].type = "join" THEN ~Joinable(w.row, p[i].addr)
             ELSE w.row[p[i].addr].state = "dead"
  <2>1. CASE i \in 1..n
    <3>1. p[i] = q[i] /\ q[i].addr \in Members
      BY <1>1, <1>4, <2>1
    <3> QED
      BY <1>3, <2>1, <3>1
  <2>2. CASE i = n + 1
    BY <1>4, <2>2
  <2> QED
    BY <1>4, <1>5, <2>1, <2>2
<1> QED
  BY <1>6, <1>7 DEF Said, p

\* A join finds room in the channel, and adds to the ring what belongs there.
LEMMA JoinLoyal ==
  ASSUME EventCap >= 2 * Cardinality(Members), NEW m \in Members, NEW r, NEW v \in Views, Loyal(v, r, m),
         \A u \in Members : v.row[u].http => u \in Nodes,
         NEW w \in Views, NEW t \in Members, Joins(v, w, t)
  PROVE  Loyal(w, r, m)
<1> DEFINE e == [type |-> "join", addr |-> t, http |-> t \in Nodes]
           n == Len(v.events)
<1>1. /\ Joinable(v.row, t)
      /\ \A u \in Members \ {t} : w.row[u] = v.row[u]
      /\ w.row[t].http = (t \in Nodes)
      /\ w.row[t].state = IF Known(v.row, t) THEN v.row[t].state ELSE "alive"
      /\ w.blind = v.blind /\ Told(v, w, "join", t, t \in Nodes)
  BY DEF Joins
<1>2. /\ v.events \in Seq(Event) /\ v.blind \subseteq Members /\ n \in Nat
      /\ \A i \in 1..n : v.events[i].addr \in Members /\ v.events[i].type \in {"join", "dead"}
  BY EventsAre
<1>3. /\ v.dropped = FALSE /\ Said(v) /\ \A u \in v.blind : v.row[u].state = "dead"
      /\ ~Joinable(v.row, m)
  BY DEF Loyal
<1>4. \A i \in 1..n : ~(v.events[i].type = "join" /\ v.events[i].addr = t)
  BY <1>1, <1>3 DEF Said
<1>5. n < EventCap
  BY <1>2, <1>3, <1>4, RoomLeft DEF Said
<1>6. w.events = Append(v.events, e) /\ w.dropped = FALSE
  BY <1>1, <1>3, <1>5 DEF Told
<1>7. e \in Event /\ e.type = "join" /\ e.addr = t /\ e.http = (t \in Nodes)
  <2> DEFINE h == t \in Nodes
  <2>1. h \in BOOLEAN /\ (h => t \in Nodes)
    OBVIOUS
  <2>2. e = [type |-> "join", addr |-> t, http |-> h]
    OBVIOUS
  <2> HIDE DEF h, e
  <2>3. e \in Event /\ e.type = "join" /\ e.addr = t /\ e.http = h
    BY <2>1, <2>2 DEF Event
  <2> QED
    BY <2>3 DEF h
<1> HIDE DEF e
<1>10. ~Joinable(w.row, t)
  BY <1>1 DEF Joinable, Known
<1>11. \A u \in Members : /\ v.row[u].state = "dead" <=> w.row[u].state = "dead"
                          /\ ~Joinable(v.row, u) => ~Joinable(w.row, u)
  BY <1>1, <1>10 DEF Joinable, Known
<1>12. Said(w)
  BY <1>3, <1>4, <1>6, <1>7, <1>10, <1>11, SaidWith, ZenonT(30)
<1>13. \A u \in w.blind : w.row[u].state = "dead"
  BY <1>1, <1>2, <1>3, <1>11
<1>14. ASSUME m \in Watchers
       PROVE  /\ Reading!Fold(r, w.events) = InRing(w, m)
              /\ \A u \in Nodes : w.row[u].state = "dead" /\ ~w.row[u].http => u \in w.blind
  <2>1. /\ Reading!Fold(r, v.events) = InRing(v, m)
        /\ \A u \in Nodes : v.row[u].state = "dead" /\ ~v.row[u].http => u \in v.blind
    BY <1>14 DEF Loyal
  <2>2. Reading!Fold(r, w.events) = Read(InRing(v, m), e)
    BY <1>2, <1>6, <1>7, <2>1, Reading!FoldAppend
  <2>3. InRing(w, m) = IF t \in Nodes THEN InRing(v, m) \cup {t} ELSE InRing(v, m)
    <3>1. \A u \in Nodes \ {t} : u \in InRing(w, m) <=> u \in InRing(v, m)
      BY <1>1, <1>11, Constants DEF InRing
    <3>2. t \in Nodes => t \in InRing(w, m)
      <4> SUFFICES ASSUME t \in Nodes PROVE t \in InRing(w, m)
        OBVIOUS
      <4>1. t # m /\ w.row[t].http
        BY <1>1, <1>3
      <4>2. w.row[t].state # "dead" \/ t \in w.blind
        BY <1>1, <2>1 DEF Joinable, Known
      <4> QED
        BY <4>1, <4>2 DEF InRing
    <3>3. InRing(w, m) \subseteq Nodes /\ InRing(v, m) \subseteq Nodes
      BY DEF InRing
    <3> QED
      BY <3>1, <3>2, <3>3
  <2>4. Read(InRing(v, m), e) = IF t \in Nodes THEN InRing(v, m) \cup {t} ELSE InRing(v, m)
    BY <1>7 DEF Read
  <2>6. \A u \in Nodes : w.row[u].state = "dead" /\ ~w.row[u].http => u \in w.blind
    BY <1>1, <1>11, <2>1, Constants
  <2> QED
    BY <2>2, <2>3, <2>4, <2>6
<1> QED
  BY <1>3, <1>6, <1>11, <1>12, <1>13, <1>14 DEF Loyal

\* A death finds room in the channel, and takes from the ring what does not belong there any
\* more, unless its HTTP address is unknown.
LEMMA DieLoyal ==
  ASSUME EventCap >= 2 * Cardinality(Members), NEW m \in Members, NEW r, NEW v \in Views, Loyal(v, r, m),
         \A u \in Members : v.row[u].http => u \in Nodes,
         NEW w \in Views, NEW t \in Members, Dies(v, w, t)
  PROVE  Loyal(w, r, m)
<1> DEFINE e == [type |-> "dead", addr |-> t, http |-> v.row[t].http]
           n == Len(v.events)
<1>1. /\ v.row[t].state \in {"alive", "suspect"}
      /\ \A u \in Members \ {t} : w.row[u] = v.row[u]
      /\ w.row[t].http = v.row[t].http /\ w.row[t].state = "dead"
      /\ w.blind = (IF v.row[t].http THEN v.blind ELSE v.blind \cup {t})
      /\ Told(v, w, "dead", t, v.row[t].http)
  BY DEF Dies
<1>2. /\ v.events \in Seq(Event) /\ v.blind \subseteq Members /\ n \in Nat
      /\ \A i \in 1..n : v.events[i].addr \in Members /\ v.events[i].type \in {"join", "dead"}
      /\ v.row[t].http \in BOOLEAN
  BY EventsAre, ViewIs, RowIs
<1>3. /\ v.dropped = FALSE /\ Said(v) /\ \A u \in v.blind : v.row[u].state = "dead"
      /\ ~Joinable(v.row, m)
  BY DEF Loyal
<1>4. \A i \in 1..n : ~(v.events[i].type = "dead" /\ v.events[i].addr = t)
  BY <1>1, <1>3 DEF Said
<1>5. n < EventCap
  BY <1>2, <1>3, <1>4, RoomLeft DEF Said
<1>6. w.events = Append(v.events, e) /\ w.dropped = FALSE
  BY <1>1, <1>3, <1>5 DEF Told
<1>7. e \in Event /\ e.type = "dead" /\ e.addr = t /\ e.http = v.row[t].http
  BY <1>2 DEF Event
<1> HIDE DEF e
<1>10. \A u \in Members : /\ w.row[u].state = "dead" <=> v.row[u].state = "dead" \/ u = t
                          /\ w.row[u].http = v.row[u].http
                          /\ ~Joinable(v.row, u) => ~Joinable(w.row, u)
  BY <1>1 DEF Joinable, Known
<1>11. Said(w)
  BY <1>1, <1>3, <1>4, <1>6, <1>7, <1>10, SaidWith, ZenonT(30)
<1>12. \A u \in w.blind : w.row[u].state = "dead"
  BY <1>1, <1>2, <1>3, <1>10
<1>13. ASSUME m \in Watchers
       PROVE  /\ Reading!Fold(r, w.events) = InRing(w, m)
              /\ \A u \in Nodes : w.row[u].state = "dead" /\ ~w.row[u].http => u \in w.blind
  <2>1. /\ Reading!Fold(r, v.events) = InRing(v, m)
        /\ \A u \in Nodes : v.row[u].state = "dead" /\ ~v.row[u].http => u \in v.blind
    BY <1>13 DEF Loyal
  <2>2. Reading!Fold(r, w.events) = Read(InRing(v, m), e)
    BY <1>2, <1>6, <1>7, <2>1, Reading!FoldAppend
  <2>3. InRing(w, m) = IF v.row[t].http THEN InRing(v, m) \ {t} ELSE InRing(v, m)
    <3>1. t \notin v.blind
      BY <1>1, <1>3
    <3>2. CASE v.row[t].http
      <4>1. \A u \in Nodes : u \in InRing(w, m) <=> u \in InRing(v, m) /\ u # t
        BY <1>1, <1>10, <3>1, <3>2, Constants DEF InRing
      <4>2. InRing(w, m) \subseteq Nodes /\ InRing(v, m) \subseteq Nodes
        BY DEF InRing
      <4> QED
        BY <3>2, <4>1, <4>2
    <3>3. CASE ~v.row[t].http
      <4>1. \A u \in Nodes : u \in InRing(w, m) <=> u \in InRing(v, m)
        BY <1>1, <1>10, <3>3, Constants DEF InRing
      <4>2. InRing(w, m) \subseteq Nodes /\ InRing(v, m) \subseteq Nodes
        BY DEF InRing
      <4> QED
        BY <3>3, <4>1, <4>2
    <3> QED
      BY <3>2, <3>3
  <2>4. Read(InRing(v, m), e) = IF v.row[t].http THEN InRing(v, m) \ {t} ELSE InRing(v, m)
    BY <1>7 DEF Read
  <2>5. \A u \in Nodes : w.row[u].state = "dead" /\ ~w.row[u].http => u \in w.blind
    BY <1>1, <1>10, <2>1, Constants
  <2> QED
    BY <2>2, <2>3, <2>4, <2>5
<1> QED
  BY <1>3, <1>6, <1>10, <1>11, <1>12, <1>13 DEF Loyal

\* A change that concerns neither events nor deaths, or only who is suspected.
LEMMA SameLoyal ==
  ASSUME NEW m \in Members, NEW r, NEW v \in Views, Loyal(v, r, m), NEW w,
         w.events = v.events, w.dropped = v.dropped, w.blind = v.blind,
         \A u \in Members : /\ w.row[u].http = v.row[u].http
                            /\ w.row[u].state = "dead" <=> v.row[u].state = "dead"
                            /\ w.row[u].state = "unknown" <=> v.row[u].state = "unknown"
  PROVE  Loyal(w, r, m)
<1>1. /\ v.events \in Seq(Event) /\ v.blind \subseteq Members
      /\ \A i \in 1..Len(v.events) : v.events[i].addr \in Members
  BY EventsAre
<1>2. \A u \in Members : Joinable(w.row, u) <=> Joinable(v.row, u)
  BY DEF Joinable, Known
<1>3. InRing(w, m) = InRing(v, m)
  BY Constants DEF InRing
<1>4. Said(w)
  BY <1>1, <1>2 DEF Said, Loyal
<1> QED
  BY <1>1, <1>2, <1>3, <1>4, Constants DEF Loyal

\* All that gossip can do to a view keeps it loyal ...
LEMMA MovedLoyal ==
  ASSUME EventCap >= 2 * Cardinality(Members), NEW m \in Members, NEW r, NEW D, NEW v, Fit(v, m, D),
         Loyal(v, r, m), NEW w \in Views, NEW t \in Members,
         Unmoved(v, w) \/ Joins(v, w, t) \/ Dies(v, w, t)
  PROVE  Loyal(w, r, m)
<1>1. v \in Views /\ \A u \in Members : v.row[u].http => u \in Nodes
  BY DEF Fit
<1>2. CASE Unmoved(v, w)
  BY <1>1, <1>2, SameLoyal DEF Unmoved
<1>3. CASE Joins(v, w, t)
  BY <1>1, <1>3, JoinLoyal
<1>4. CASE Dies(v, w, t)
  BY <1>1, <1>4, DieLoyal
<1> QED
  BY <1>2, <1>3, <1>4

\* ... also when a packet does it several times.
LEMMA MergedLoyal ==
  ASSUME EventCap >= 2 * Cardinality(Members), NEW m \in Members, NEW r, NEW D \in SUBSET Members,
         NEW v, Fit(v, m, D), Loyal(v, r, m), NEW es \in Seq(Gossip)
  PROVE  Loyal(Merged(v, es), r, m)
<1> DEFINE T == {x \in Views : Fit(x, m, D) /\ Loyal(x, r, m)}
<1>1. v \in T
  BY DEF Fit
<1>2. \A x \in T, e \in Gossip : Hear(x, e) \in T
  <2> SUFFICES ASSUME NEW x \in T, NEW e \in Gossip PROVE Hear(x, e) \in T
    OBVIOUS
  <2>1. x \in Views /\ Fit(x, m, D) /\ Loyal(x, r, m)
    OBVIOUS
  <2>2. e.addr \in Members /\ (x.row[e.addr].http => e.addr \in Nodes)
    BY <2>1 DEF Fit, Gossip
  <2>3. /\ Hear(x, e) \in Views
        /\ Unmoved(x, Hear(x, e)) \/ Joins(x, Hear(x, e), e.addr) \/ Dies(x, Hear(x, e), e.addr)
    BY <2>1, <2>2, HearIs
  <2>4. Fit(Hear(x, e), m, D)
    BY <2>1, HearFit
  <2>5. Loyal(Hear(x, e), r, m)
    BY <2>1, <2>2, <2>3, MovedLoyal
  <2> QED
    BY <2>3, <2>4, <2>5
<1> HIDE DEF T
<1>3. Merging!Fold(v, es) \in T
  BY <1>1, <1>2, Merging!FoldPreserves
<1> QED
  BY <1>3, MergedIsFold DEF T

\* A step that leaves all this alone.
LEMMA FollowedStays ==
  ASSUME Followed, UNCHANGED <<up, table, events, ring, blind, dropped>>
  PROVE  Followed'
<1>1. ASSUME NEW m \in up PROVE Loyal(View(m)', ring[m], m)
  <2>1. /\ View(m)'.row = View(m).row /\ View(m)'.events = View(m).events
        /\ View(m)'.dropped = View(m).dropped /\ View(m)'.blind = View(m).blind
    BY DEF View
  <2>2. Loyal(View(m), ring[m], m)
    BY <1>1 DEF Followed
  <2> HIDE DEF View
  <2>3. InRing(View(m)', m) = InRing(View(m), m)
    BY <2>1 DEF InRing
  <2>4. Said(View(m)')
    BY <2>1, <2>2 DEF Said, Loyal
  <2> QED
    BY <2>1, <2>2, <2>3, <2>4 DEF Loyal
<1> QED
  BY <1>1 DEF Followed

\* What is kept of a view.
LEMMA KeptLoyal ==
  ASSUME NEW m \in Members, NEW r, NEW w, Loyal(w, r, m),
         NEW x, x.row = w.row, x.dropped = FALSE,
         x.events = (IF m \in Watchers THEN w.events ELSE <<>>),
         x.blind = (IF m \in Watchers THEN w.blind \cap Nodes ELSE {})
  PROVE  Loyal(x, r, m)
<1>1. Said(w) /\ \A t \in w.blind : w.row[t].state = "dead"
  BY DEF Loyal
<1>2. CASE m \in Watchers
  <2>1. InRing(x, m) = InRing(w, m)
    BY <1>2 DEF InRing
  <2>2. Said(x)
    BY <1>1, <1>2 DEF Said
  <2>3. \A t \in x.blind : x.row[t].state = "dead"
    BY <1>1, <1>2
  <2>4. /\ Reading!Fold(r, x.events) = InRing(x, m)
        /\ \A t \in Nodes : x.row[t].state = "dead" /\ ~x.row[t].http => t \in x.blind
    BY <1>2, <2>1 DEF Loyal
  <2> QED
    BY <2>2, <2>3, <2>4 DEF Loyal
<1>3. CASE m \notin Watchers
  <2>1. Said(x)
    BY <1>1, <1>3 DEF Said
  <2> QED
    BY <1>3, <2>1 DEF Loyal
<1> QED
  BY <1>2, <1>3

\* Storing a loyal view.
LEMMA SetViewFollowed ==
  ASSUME Typed, Followed, NEW m \in up, NEW w \in Views, Loyal(w, ring[m], m), SetView(m, w),
         UNCHANGED <<up, ring>>
  PROVE  Followed'
<1>1. /\ m \in Members /\ up \subseteq Members
      /\ table \in [Members -> [Members -> Row]] /\ events \in [Members -> Seq(Event)]
      /\ blind \in [Members -> SUBSET Members]
  BY DEF Typed, TableTyped, QueuesTyped, RingTyped
<1>2. /\ table' = [table EXCEPT ![m] = w.row]
      /\ events' = [events EXCEPT ![m] = IF m \in Watchers THEN w.events ELSE <<>>]
      /\ dropped' = (IF w.dropped THEN dropped \cup {m} ELSE dropped)
      /\ blind' = [blind EXCEPT ![m] = IF m \in Watchers THEN w.blind \cap Nodes ELSE {}]
  BY DEF SetView
<1>3. dropped' = {} /\ dropped = {}
  BY <1>2 DEF Loyal, Followed
<1>4. /\ table'[m] = w.row
      /\ events'[m] = (IF m \in Watchers THEN w.events ELSE <<>>)
      /\ blind'[m] = (IF m \in Watchers THEN w.blind \cap Nodes ELSE {})
      /\ \A u \in Members \ {m} :
           table'[u] = table[u] /\ events'[u] = events[u] /\ blind'[u] = blind[u]
  BY <1>1, <1>2
<1>5. ASSUME NEW u \in up \ {m} PROVE Loyal(View(u)', ring[u], u)
  <2>1. /\ View(u)'.row = View(u).row /\ View(u)'.events = View(u).events
        /\ View(u)'.dropped = View(u).dropped /\ View(u)'.blind = View(u).blind
    BY <1>1, <1>3, <1>4 DEF View
  <2>2. Loyal(View(u), ring[u], u) /\ View(u) \in Views /\ u \in Members
    BY ViewFits DEF Followed
  <2> QED
    BY <2>1, <2>2, SameLoyal
<1>6. Loyal(View(m)', ring[m], m)
  <2>0. (m \in dropped') = FALSE
    BY <1>3
  <2>1. /\ View(m)'.row = w.row /\ View(m)'.dropped = FALSE
        /\ View(m)'.events = (IF m \in Watchers THEN w.events ELSE <<>>)
        /\ View(m)'.blind = (IF m \in Watchers THEN w.blind \cap Nodes ELSE {})
    BY <1>4, <2>0 DEF View
  <2> HIDE DEF View
  <2> QED
    BY <1>1, <2>1, KeptLoyal
<1>7. \A u \in Members \ up : events'[u] = <<>> /\ blind'[u] = {}
  BY <1>4 DEF Followed
<1> QED
  BY <1>3, <1>5, <1>6, <1>7 DEF Followed

-----------------------------------------------------------------------------
\* The steps.

\* A member that starts: its ring is all nodes, and it holds nobody dead.
LEMMA FreshLoyal ==
  ASSUME NEW m \in Members, NEW v, v.row = FirstRow(m), v.events = <<>>, v.dropped = FALSE, v.blind = {}
  PROVE  Loyal(v, FirstRing(m), m)
<1>1. \A t \in Members : v.row[t].state # "dead"
  BY FirstRowIs
<1>2. Said(v)
  BY DEF Said
<1>3. ~Joinable(v.row, m) /\ \A t \in Nodes : v.row[t].http => t = m
  <2>1. v.row[m] = [state |-> "alive", http |-> m \in Nodes, inc |-> 0]
    BY DEF FirstRow
  <2>2. v.row[m].state = "alive" /\ (m \in Nodes => v.row[m].http)
    <3> DEFINE h == m \in Nodes
    <3>1. v.row[m] = [state |-> "alive", http |-> h, inc |-> 0]
      BY <2>1
    <3> HIDE DEF h
    <3>2. v.row[m].state = "alive" /\ (h => v.row[m].http)
      BY <3>1
    <3> QED
      BY <3>2 DEF h
  <2>3. \A t \in Members \ {m} : v.row[t].http = FALSE
    BY DEF FirstRow, Unknown
  <2> QED
    BY <2>2, <2>3, Constants DEF Joinable, Known
<1>4. InRing(v, m) = Peers[m] /\ Peers[m] \subseteq Nodes
  BY <1>1, <1>3, Constants DEF InRing
<1>5. Reading!Fold(Peers[m], <<>>) = Peers[m]
  BY Reading!FoldEmpty
<1> QED
  BY <1>1, <1>2, <1>3, <1>4, <1>5, Constants DEF Loyal, FirstRing

\* Followed holds at the start.
LEMMA InitFollowed == Init => Followed
<1> SUFFICES ASSUME Init PROVE Followed
  OBVIOUS
<1>1. /\ up = Running /\ dropped = {}
      /\ \A m \in up : m \in Members /\ table[m] = FirstRow(m) /\ ring[m] = FirstRing(m)
      /\ \A m \in Members : events[m] = <<>> /\ blind[m] = {}
  BY Constants DEF Init
<1>2. ASSUME NEW m \in up
      PROVE  /\ View(m).row = FirstRow(m) /\ View(m).events = <<>>
             /\ View(m).dropped = FALSE /\ View(m).blind = {}
  <2>1. (m \in dropped) = FALSE
    BY <1>1
  <2> QED
    BY <1>1, <2>1 DEF View
<1> HIDE DEF View
<1> QED
  BY <1>1, <1>2, FreshLoyal DEF Followed

\* A process starts, with the ring of its peers.
LEMMA StartFollowed ==
  ASSUME Typed, Followed, NEW m \in Members, Start(m)
  PROVE  Followed'
<1>1. /\ m \notin up /\ up' = up \cup {m} /\ up \subseteq Members
      /\ table \in [Members -> [Members -> Row]] /\ ring \in [Members -> SUBSET Nodes]
      /\ table' = [table EXCEPT ![m] = FirstRow(m)]
      /\ ring' = [ring EXCEPT ![m] = FirstRing(m)]
      /\ UNCHANGED <<events, blind, dropped>>
  BY DEF Start, Typed, TableTyped, RingTyped
<1>2. /\ table'[m] = FirstRow(m) /\ ring'[m] = FirstRing(m)
      /\ \A u \in Members \ {m} : table'[u] = table[u] /\ ring'[u] = ring[u]
  BY <1>1
<1>3. events[m] = <<>> /\ blind[m] = {} /\ dropped = {}
  BY <1>1 DEF Followed
<1>4. ASSUME NEW u \in up PROVE Loyal(View(u)', ring'[u], u)
  <2>1. u \in Members /\ u # m
    BY <1>1
  <2>2. /\ View(u)'.row = View(u).row /\ View(u)'.events = View(u).events
        /\ View(u)'.dropped = View(u).dropped /\ View(u)'.blind = View(u).blind
    BY <1>1, <1>2, <2>1 DEF View
  <2>3. Loyal(View(u), ring[u], u) /\ View(u) \in Views
    BY ViewFits DEF Followed
  <2>4. Loyal(View(u)', ring[u], u)
    BY <2>1, <2>2, <2>3, SameLoyal
  <2> QED
    BY <1>2, <2>1, <2>4
<1>5. Loyal(View(m)', ring'[m], m)
  <2>1. (m \in dropped') = FALSE
    BY <1>1, <1>3
  <2>2. /\ View(m)'.row = FirstRow(m) /\ View(m)'.events = <<>>
        /\ View(m)'.dropped = FALSE /\ View(m)'.blind = {}
    BY <1>1, <1>2, <1>3, <2>1 DEF View
  <2>3. Loyal(View(m)', FirstRing(m), m)
    BY <2>2, FreshLoyal
  <2> QED
    BY <1>2, <2>3
<1> QED
  BY <1>1, <1>3, <1>4, <1>5 DEF Followed

\* A process dies, and its channel with it.
LEMMA CrashFollowed ==
  ASSUME Typed, Followed, NEW m \in Members, Crash(m)
  PROVE  Followed'
<1>1. /\ m \in up /\ up' = up \ {m} /\ up \subseteq Members
      /\ table \in [Members -> [Members -> Row]] /\ ring \in [Members -> SUBSET Nodes]
      /\ events \in [Members -> Seq(Event)] /\ blind \in [Members -> SUBSET Members]
      /\ table' = [table EXCEPT ![m] = [t \in Members |-> Unknown]]
      /\ events' = [events EXCEPT ![m] = <<>>]
      /\ ring' = [ring EXCEPT ![m] = {}] /\ blind' = [blind EXCEPT ![m] = {}]
      /\ UNCHANGED dropped
  BY DEF Crash, Typed, TableTyped, QueuesTyped, RingTyped
<1>2. /\ events'[m] = <<>> /\ blind'[m] = {}
      /\ \A u \in Members \ {m} : table'[u] = table[u] /\ ring'[u] = ring[u]
                                  /\ events'[u] = events[u] /\ blind'[u] = blind[u]
  BY <1>1
<1>3. ASSUME NEW u \in up' PROVE Loyal(View(u)', ring'[u], u)
  <2>1. u \in Members /\ u # m /\ u \in up
    BY <1>1
  <2>2. /\ View(u)'.row = View(u).row /\ View(u)'.events = View(u).events
        /\ View(u)'.dropped = View(u).dropped /\ View(u)'.blind = View(u).blind
    BY <1>1, <1>2, <2>1 DEF View
  <2>3. Loyal(View(u), ring[u], u) /\ View(u) \in Views
    BY <2>1, ViewFits DEF Followed
  <2>4. Loyal(View(u)', ring[u], u)
    BY <2>1, <2>2, <2>3, SameLoyal
  <2> QED
    BY <1>2, <2>1, <2>4
<1>4. \A u \in Members \ up' : events'[u] = <<>> /\ blind'[u] = {}
  BY <1>1, <1>2 DEF Followed
<1> QED
  BY <1>1, <1>3, <1>4 DEF Followed

\* A suspicion concerns no ring.
LEMMA IndirectTimeoutFollowed ==
  ASSUME Typed, Followed, NEW p \in probes, IndirectTimeout(p)
  PROVE  Followed'
<1> DEFINE m == p.by
           t == p.target
           s == IF table[m][t].state = "alive" THEN "suspect" ELSE table[m][t].state
<1>1. /\ table' = [table EXCEPT ![m][t].state = s]
      /\ UNCHANGED <<up, pending, events, ring, blind, dropped>>
  BY DEF IndirectTimeout, procVars, ringVars
<1>2. m \in Members /\ t \in Members /\ m \in up
  BY DEF Typed, ProbesTyped, Pings
<1>3. table \in [Members -> [Members -> Row]] /\ up \subseteq Members
  BY DEF Typed, TableTyped
<1>4. \A u, w \in Members : /\ table'[u][w].http = table[u][w].http
                            /\ table'[u][w].state = IF u = m /\ w = t THEN s ELSE table[u][w].state
  <2> HIDE DEF m, t
  <2>1. table[m] \in [Members -> Row] /\ table[m][t] \in Row
    BY <1>2, <1>3
  <2> DEFINE r == [table[m][t] EXCEPT !.state = s]
             q == [table[m] EXCEPT ![t] = r]
  <2>2. r.state = s /\ r.http = table[m][t].http
    <3> HIDE DEF s
    <3> QED
      BY <2>1, RowWith
  <2>3. table' = [table EXCEPT ![m] = q]
    BY <1>1
  <2> HIDE DEF r, s
  <2>4. q[t] = r /\ \A u \in Members \ {t} : q[u] = table[m][u]
    BY <1>2, <2>1
  <2> HIDE DEF q
  <2>5. table'[m] = q /\ \A u \in Members \ {m} : table'[u] = table[u]
    BY <1>2, <1>3, <2>3
  <2> QED
    BY <2>2, <2>4, <2>5
<1>5. /\ s = "dead" <=> table[m][t].state = "dead"
      /\ s = "unknown" <=> table[m][t].state = "unknown"
  OBVIOUS
<1> HIDE DEF m, t, s
<1>6. ASSUME NEW u \in up PROVE Loyal(View(u)', ring[u], u)
  <2>1. Loyal(View(u), ring[u], u) /\ View(u) \in Views /\ u \in Members
    BY ViewFits DEF Followed
  <2>2. /\ View(u)'.row = table'[u] /\ View(u).row = table[u] /\ View(u)'.events = View(u).events
        /\ View(u)'.dropped = View(u).dropped /\ View(u)'.blind = View(u).blind
    BY <1>1 DEF View
  <2>3. \A w \in Members :
          /\ table'[u][w].http = table[u][w].http
          /\ table'[u][w].state = "dead" <=> table[u][w].state = "dead"
          /\ table'[u][w].state = "unknown" <=> table[u][w].state = "unknown"
    BY <1>4, <1>5, <2>1
  <2> QED
    BY <2>1, <2>2, <2>3, SameLoyal
<1> QED
  BY <1>1, <1>6 DEF Followed

\* A suspect is declared dead.
LEMMA ExpireFollowed ==
  ASSUME EventCap >= 2 * Cardinality(Members), Typed, Followed,
         NEW m \in Members, NEW t \in Members, Expire(m, t)
  PROVE  Followed'
<1>1. /\ m \in up /\ table[m][t].state = "suspect" /\ SetView(m, Declared(View(m), t))
      /\ UNCHANGED <<up, ring>>
  BY DEF Expire, procVars
<1>2. Fit(View(m), m, DeadAt(m)) /\ View(m) \in Views /\ Loyal(View(m), ring[m], m)
  BY <1>1, ViewFits DEF Followed
<1>3. View(m).row[t].state = "suspect" /\ (View(m).row[t].http => t \in Nodes)
  BY <1>1 DEF View, Typed, TableTyped
<1>4. Declared(View(m), t) \in Views /\ Dies(View(m), Declared(View(m), t), t)
  BY <1>2, <1>3, DeclaredIs
<1>5. Loyal(Declared(View(m), t), ring[m], m)
  BY <1>2, <1>4, MovedLoyal
<1> QED
  BY <1>1, <1>4, <1>5, SetViewFollowed

\* The view after the gossip of a packet is loyal.
LEMMA HeardLoyal ==
  ASSUME EventCap >= 2 * Cardinality(Members), Typed, Followed,
         NEW x \in net, x.to \in up, x.type # "ping-req"
  PROVE  Loyal(Heard(x), ring[x.to], x.to)
<1>1. x.events \in Seq(Gossip)
  BY DEF Typed, NetTyped, IsPacket
<1>2. /\ x.to \in Members /\ Fit(View(x.to), x.to, DeadAt(x.to)) /\ DeadAt(x.to) \in SUBSET Members
      /\ Loyal(View(x.to), ring[x.to], x.to)
  BY ViewFits DEF Followed
<1> QED
  BY <1>1, <1>2, MergedLoyal DEF Heard

\* A ping arrives.
LEMMA HandlePingFollowed ==
  ASSUME EventCap >= 2 * Cardinality(Members), Typed, Followed, NEW x \in net, HandlePing(x)
  PROVE  Followed'
<1> DEFINE m == x.to
           v == Heard(x)
           w == [v EXCEPT !.pending = Undrained(@)]
<1>1. m \in up /\ x.type = "ping" /\ SetView(m, w) /\ UNCHANGED <<up, ring>>
  BY DEF HandlePing, Received, Heard, procVars
<1>2. /\ m \in Members /\ Fit(v, m, DeadAt(m)) /\ v \in Views /\ Loyal(v, ring[m], m)
  BY <1>1, HeardFits, HeardLoyal, ViewFits
<1> HIDE DEF v
<1>3. w \in Views /\ Unmoved(v, w)
  BY <1>2, PulledIs
<1> HIDE DEF w
<1>4. Loyal(w, ring[m], m)
  BY <1>2, <1>3, MovedLoyal
<1> QED
  BY <1>1, <1>3, <1>4, SetViewFollowed

\* An ack arrives.
LEMMA HandleAckFollowed ==
  ASSUME EventCap >= 2 * Cardinality(Members), Typed, Followed, NEW x \in net, HandleAck(x)
  PROVE  Followed'
<1> DEFINE m == x.to
           v == Heard(x)
           w == [v EXCEPT !.row = Refuted(@, x.from)]
<1>1. m \in up /\ x.type = "ack" /\ SetView(m, w) /\ UNCHANGED <<up, ring>>
  BY DEF HandleAck, Received, Heard, procVars
<1>2. /\ m \in Members /\ x.from \in Members
      /\ v \in Views /\ Loyal(v, ring[m], m)
  BY <1>1, HeardFits, HeardLoyal, ViewFits DEF Typed, NetTyped, IsPacket
<1> HIDE DEF v
<1>3. /\ w \in Views /\ w.row = Refuted(v.row, x.from)
      /\ w.events = v.events /\ w.dropped = v.dropped /\ w.blind = v.blind
  BY <1>2, AckedIs
<1> HIDE DEF w
<1>4. \A u \in Members : /\ w.row[u].http = v.row[u].http
                         /\ w.row[u].state = "dead" <=> v.row[u].state = "dead"
                         /\ w.row[u].state = "unknown" <=> v.row[u].state = "unknown"
  <2>1. v.row \in [Members -> Row]
    BY <1>2, ViewIs
  <2>2. \A u \in Members : /\ w.row[u].http = v.row[u].http
                           /\ v.row[u].state # "suspect" => w.row[u] = v.row[u]
                           /\ v.row[u].state = "suspect" => w.row[u].state \in {"alive", "suspect"}
    BY <1>2, <1>3, <2>1, RefutedIs
  <2> QED
    BY <2>2
<1>5. Loyal(w, ring[m], m)
  BY <1>2, <1>3, <1>4, SameLoyal
<1> QED
  BY <1>1, <1>3, <1>5, SetViewFollowed

\* The watcher takes one event off its channel.
LEMMA WatchFollowed ==
  ASSUME Typed, Followed, NEW w \in Watchers, Watch(w)
  PROVE  Followed'
<1> DEFINE q == events[w]
           e == Head(q)
<1>1. /\ w \in up /\ q # <<>> /\ events' = [events EXCEPT ![w] = Tail(q)]
      /\ ring' = [ring EXCEPT ![w] = Read(ring[w], e)]
      /\ UNCHANGED <<up, table, blind, dropped>>
  BY DEF Watch, procVars, Read
<1>2. /\ w \in Members /\ up \subseteq Members
      /\ events \in [Members -> Seq(Event)] /\ ring \in [Members -> SUBSET Nodes]
  BY Constants DEF Typed, TableTyped, QueuesTyped, RingTyped
<1>3. q \in Seq(Event)
  BY <1>2
<1> HIDE DEF q
<1>4. /\ Len(q) \in Nat /\ Len(Tail(q)) = Len(q) - 1
      /\ \A i \in 1..Len(Tail(q)) : i + 1 \in 1..Len(q) /\ Tail(q)[i] = q[i + 1]
  BY <1>1, <1>3
<1>5. /\ events'[w] = Tail(q) /\ ring'[w] = Read(ring[w], e)
      /\ \A u \in Members \ {w} : events'[u] = events[u] /\ ring'[u] = ring[u]
  BY <1>1, <1>2
<1>6. ASSUME NEW u \in up \ {w} PROVE Loyal(View(u)', ring'[u], u)
  <2>1. Loyal(View(u), ring[u], u) /\ View(u) \in Views /\ u \in Members
    BY ViewFits DEF Followed
  <2>2. /\ View(u)'.row = View(u).row /\ View(u)'.events = View(u).events
        /\ View(u)'.dropped = View(u).dropped /\ View(u)'.blind = View(u).blind
    BY <1>1, <1>5, <2>1 DEF View
  <2>3. Loyal(View(u)', ring[u], u)
    BY <2>1, <2>2, SameLoyal
  <2> QED
    BY <1>5, <2>1, <2>3
<1>7. Loyal(View(w)', ring'[w], w)
  <2> DEFINE x == View(w)'
             v == View(w)
  <2>1. /\ x.row = v.row /\ x.events = Tail(q) /\ v.events = q
        /\ x.dropped = v.dropped /\ x.blind = v.blind
    BY <1>1, <1>5 DEF View, q
  <2>2. Loyal(v, ring[w], w)
    BY <1>1 DEF Followed
  <2> HIDE DEF x, v
  <2>3. Said(x)
    <3>1. /\ \A i, j \in 1..Len(q) : q[i].type = q[j].type /\ q[i].addr = q[j].addr => i = j
          /\ \A i \in 1..Len(q) : IF q[i].type = "join" THEN ~Joinable(v.row, q[i].addr)
                                  ELSE v.row[q[i].addr].state = "dead"
      BY <2>1, <2>2 DEF Loyal, Said
    <3>2. \A i, j \in 1..Len(Tail(q)) :
            Tail(q)[i].type = Tail(q)[j].type /\ Tail(q)[i].addr = Tail(q)[j].addr => i = j
      <4> SUFFICES ASSUME NEW i \in 1..Len(Tail(q)), NEW j \in 1..Len(Tail(q)),
                          Tail(q)[i].type = Tail(q)[j].type, Tail(q)[i].addr = Tail(q)[j].addr
                   PROVE  i = j
        OBVIOUS
      <4>1. i + 1 = j + 1
        BY <1>4, <3>1
      <4> QED
        BY <1>4, <4>1
    <3>3. \A i \in 1..Len(Tail(q)) :
            IF Tail(q)[i].type = "join" THEN ~Joinable(v.row, Tail(q)[i].addr)
            ELSE v.row[Tail(q)[i].addr].state = "dead"
      BY <1>4, <3>1
    <3> QED
      BY <2>1, <3>2, <3>3 DEF Said
  <2>4. InRing(x, w) = InRing(v, w)
    BY <2>1 DEF InRing
  <2>5. Reading!Fold(ring'[w], x.events) = InRing(x, w)
    <3>1. Reading!Fold(ring[w], q) = InRing(v, w)
      BY <2>1, <2>2 DEF Loyal
    <3>2. Reading!Fold(ring[w], q) = Reading!Fold(Read(ring[w], e), Tail(q))
      BY <1>1, <1>3, Reading!FoldHead
    <3> QED
      BY <1>5, <2>1, <2>4, <3>1, <3>2
  <2>6. Loyal(x, ring'[w], w)
    BY <2>1, <2>2, <2>3, <2>5 DEF Loyal
  <2> QED
    BY <2>6 DEF x
<1>8. \A u \in Members \ up : events'[u] = <<>> /\ blind'[u] = {}
  BY <1>1, <1>5 DEF Followed
<1> QED
  BY <1>1, <1>6, <1>7, <1>8 DEF Followed

\* Every step keeps the rings loyal.
LEMMA NextFollowed ==
  ASSUME EventCap >= 2 * Cardinality(Members), Typed, Followed, [Next]_vars
  PROVE  Followed'
<1>1. CASE UNCHANGED vars
  BY <1>1, FollowedStays DEF vars, procVars, viewVars, ringVars
<1>2. CASE \E m \in Members : Start(m) \/ Crash(m)
  BY <1>2, StartFollowed, CrashFollowed
<1>3. CASE \E m \in Probers, t \in Members : Probe(m, t)
  BY <1>3, FollowedStays DEF Probe, procVars, ringVars
<1>4. CASE \E m, t \in Members : Expire(m, t)
  BY <1>4, ExpireFollowed
<1>5. CASE \E p \in probes : Confirmed(p) \/ DirectTimeout(p) \/ IndirectTimeout(p) \/ HelperTimeout(p)
  <2> SUFFICES ASSUME NEW p \in probes,
                      Confirmed(p) \/ DirectTimeout(p) \/ IndirectTimeout(p) \/ HelperTimeout(p)
               PROVE  Followed'
    BY <1>5
  <2>1. CASE Confirmed(p)
    BY <2>1, FollowedStays DEF Confirmed, procVars, viewVars, ringVars
  <2>2. CASE DirectTimeout(p)
    BY <2>2, FollowedStays DEF DirectTimeout, procVars, viewVars, ringVars
  <2>3. CASE IndirectTimeout(p)
    BY <2>3, IndirectTimeoutFollowed
  <2>4. CASE HelperTimeout(p)
    BY <2>4, FollowedStays DEF HelperTimeout, procVars, viewVars, ringVars
  <2> QED
    BY <2>1, <2>2, <2>3, <2>4
<1>6. CASE \E x \in net : HandlePing(x) \/ HandleAck(x) \/ HandlePingReq(x) \/ Unheard(x)
  <2> SUFFICES ASSUME NEW x \in net,
                      HandlePing(x) \/ HandleAck(x) \/ HandlePingReq(x) \/ Unheard(x)
               PROVE  Followed'
    BY <1>6
  <2>1. CASE HandlePing(x)
    BY <2>1, HandlePingFollowed
  <2>2. CASE HandleAck(x)
    BY <2>2, HandleAckFollowed
  <2>3. CASE HandlePingReq(x)
    BY <2>3, FollowedStays DEF HandlePingReq, procVars, ringVars
  <2>4. CASE Unheard(x)
    BY <2>4, FollowedStays DEF Unheard, procVars, viewVars, ringVars
  <2> QED
    BY <2>1, <2>2, <2>3, <2>4
<1>7. CASE \E w \in Watchers : Watch(w)
  BY <1>7, WatchFollowed
<1> QED
  BY <1>1, <1>2, <1>3, <1>4, <1>5, <1>6, <1>7 DEF Next

\* watchMembership and watchNodeRing: no event is lost, and once a watcher has read its events,
\* its ring holds of the nodes that it was started with (--peers, any of them) or that joined with
\* their HTTP address exactly those that it does not hold dead, and those that died before that
\* address was known.  The channel must hold two events for each member: the 64 of New in
\* membership.go are enough for 32 members, however slow the watcher.
THEOREM RingKeepsUp ==
  ASSUME EventCap >= 2 * Cardinality(Members)
  PROVE  Spec => []RingFollows
<1>1. Init => Typed /\ Followed
  BY InitTyped, InitFollowed
<1>2. (Typed /\ Followed) /\ [Next]_vars => (Typed /\ Followed)'
  BY NextTyped, NextFollowed
<1> QED
  BY <1>1, <1>2, FollowedImplies, PTL DEF Spec
=============================================================================
