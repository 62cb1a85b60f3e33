----------------------------- MODULE ApplyQueue -----------------------------
(***************************************************************************)
(* One node's partition under load: the shed check of its handlers          *)
(* (cmd/node/main.go, checkShedding), the bounded queue in front of the     *)
(* partition's goroutine, and the goroutine's loop with its batches         *)
(* (internal/partition/partition.go).  The log is the sequence of the       *)
(* events appended; EventLog has its files, its offsets and its clock.  The *)
(* log keeps every id: it is the log of a node without --no-idempotent, in  *)
(* a time shorter than the TTL of its index.                                *)
(*                                                                          *)
(* The actions change this component's variables only; Overload composes    *)
(* them with the gateway that calls the node.                               *)
(***************************************************************************)
EXTENDS Integers, Sequences, FiniteSets, SequencesExt

CONSTANTS
    Calls,      \* POST /events and POST /replicate requests that reach the node
    IdOf,       \* IdOf[c]: the event id that call c carries
    Queries,    \* GET /aggregates requests
    QueueCap,   \* --queue-cap
    BatchMax    \* --wal-batch

ASSUME QueueAssumption ==
    /\ IsFiniteSet(Calls) /\ IsFiniteSet(Queries)
    /\ DOMAIN IdOf = Calls
    /\ QueueCap \in Nat /\ BatchMax \in Nat \ {0}

VARIABLES
    handler,  \* handler[c]: "none", "checked", "applying", or the node's answer:
              \* "shed", "fresh", "duplicate"
    queue,    \* the channel apply
    blocked,  \* handlers that wait for room in it, in the order they came
    loop,     \* the goroutine: "select", "drain" or "reply"
    batch,    \* the writes it has taken
    result,   \* result[c]: what the log said of a write not answered yet
    log,      \* events appended
    counted,  \* events that the aggregate has counted
    asked,    \* queries waiting in the channel query
    read      \* read[q]: the events that a query's answer counts

queueVars == <<handler, queue, blocked, loop, batch, result, log, counted, asked, read>>

QueueInit ==
    /\ handler = [c \in Calls |-> "none"]
    /\ queue = <<>> /\ blocked = <<>>
    /\ loop = "select"
    /\ batch = <<>>
    /\ result = [c \in Calls |-> "none"]
    /\ log = <<>>
    /\ counted = {}
    /\ asked = {}
    /\ read = [q \in Queries |-> {}]

-----------------------------------------------------------------------------
\* The handlers.

\* checkShedding: the depth is looked at here, and the write is queued later.
CheckShedding(c) ==
    /\ handler[c] = "none"
    /\ handler' = [handler EXCEPT ![c] = IF Len(queue) >= QueueCap THEN "shed" ELSE "checked"]
    /\ UNCHANGED <<queue, blocked, loop, batch, result, log, counted, asked, read>>

\* Partition.Apply: a full channel blocks the handler.
Apply(c) ==
    /\ handler[c] = "checked"
    /\ handler' = [handler EXCEPT ![c] = "applying"]
    /\ IF Len(queue) < QueueCap
       THEN queue' = Append(queue, c) /\ UNCHANGED blocked
       ELSE blocked' = Append(blocked, c) /\ UNCHANGED queue
    /\ UNCHANGED <<loop, batch, result, log, counted, asked, read>>

\* Partition.Query.
Query(q) ==
    /\ q \notin asked
    /\ asked' = asked \cup {q}
    /\ UNCHANGED <<handler, queue, blocked, loop, batch, result, log, counted, read>>

-----------------------------------------------------------------------------
\* run and applyBatch.

\* A write leaves the channel, and the first of the blocked handlers enters it.
Take ==
    /\ queue # <<>>
    /\ batch' = Append(batch, Head(queue))
    /\ queue' = IF blocked = <<>> THEN Tail(queue) ELSE Append(Tail(queue), Head(blocked))
    /\ blocked' = IF blocked = <<>> THEN <<>> ELSE Tail(blocked)
    /\ UNCHANGED <<handler, result, log, counted, asked, read>>

Select == loop = "select" /\ loop' = "drain" /\ Take

\* Draining does not wait: it ends with a full batch or an empty channel.
Drain == loop = "drain" /\ Len(batch) < BatchMax /\ loop' = "drain" /\ Take

\* AppendBatch: an event that the log holds, also from this batch, is a duplicate.
AppendBatchBlind(l, cs) ==                 \* faulty: the batch is not looked at
    l \o SelectSeq([i \in DOMAIN cs |-> IdOf[cs[i]]], LAMBDA id : id \notin Range(l))
AppendBatch(l, cs) ==
    FoldLeft(LAMBDA s, c : IF IdOf[c] \in Range(s) THEN s ELSE Append(s, IdOf[c]), l, cs)

Firsts(cs) == {i \in DOMAIN cs : IdOf[cs[i]] \notin Range(log)
                                 /\ \A j \in 1..(i - 1) : IdOf[cs[j]] # IdOf[cs[i]]}

WaitsForFull == Len(batch) = BatchMax      \* faulty: waits for a batch to fill
Drained == Len(batch) = BatchMax \/ queue = <<>>

Commit ==
    /\ loop = "drain"
    /\ Drained
    /\ log' = AppendBatch(log, batch)
    /\ result' = [c \in Calls |->
         IF c \notin Range(batch) THEN result[c]
         ELSE IF \E i \in Firsts(batch) : batch[i] = c THEN "fresh" ELSE "duplicate"]
    /\ loop' = "reply"
    /\ UNCHANGED <<handler, queue, blocked, batch, counted, asked, read>>

\* agg.Apply and the reply, one write after the other, before anything else is
\* selected.
Counts(c) == IF result[c] = "fresh" THEN counted \cup {IdOf[c]} ELSE counted

Reply ==
    /\ loop = "reply"
    /\ LET c == Head(batch)
       IN /\ counted' = Counts(c)
          /\ handler' = [handler EXCEPT ![c] = result[c]]
          /\ batch' = Tail(batch)
          /\ loop' = IF Len(batch) = 1 THEN "select" ELSE "reply"
    /\ UNCHANGED <<queue, blocked, result, log, asked, read>>

\* The query case.
ServeQuery(q) ==
    /\ loop = "select"
    /\ q \in asked
    /\ asked' = asked \ {q}
    /\ read' = [read EXCEPT ![q] = counted]
    /\ UNCHANGED <<handler, queue, blocked, loop, batch, result, log, counted>>

NodeStep ==
    \/ \E c \in Calls : Apply(c)
    \/ Select \/ Drain \/ Commit \/ Reply
    \/ \E q \in Queries : Query(q) \/ ServeQuery(q)

-----------------------------------------------------------------------------
QueueTypeOK ==
    /\ handler \in [Calls -> {"none", "checked", "applying", "shed", "fresh", "duplicate"}]
    /\ result \in [Calls -> {"none", "fresh", "duplicate"}]
    /\ loop \in {"select", "drain", "reply"}
    /\ loop = "select" => batch = <<>>
    /\ Len(queue) <= QueueCap /\ Len(batch) <= BatchMax
    /\ blocked # <<>> => Len(queue) = QueueCap
    /\ asked \subseteq Queries
    \* Every applying handler's write is in one place.
    /\ LET all == queue \o blocked \o batch
       IN /\ Cardinality(Range(all)) = Len(all)
          /\ Range(all) = {c \in Calls : handler[c] = "applying"}

\* README.md:134, "Nodes reject incoming writes with HTTP 429 before the apply
\* queue fills": then no handler would ever wait for room in it.
ShedsBeforeFull == blocked = <<>>

\* The partition implements the ledger: a write takes effect where its batch is
\* appended, a query where it is served.
Effect ==
    [c \in Calls |-> IF handler[c] \in {"none", "checked", "shed"} THEN "none"
                     ELSE IF result[c] = "none" THEN "pending" ELSE result[c]]
Promise == INSTANCE Ledger WITH effect <- Effect, reading <- asked
ImplementsLedger == Promise!Spec
=============================================================================
