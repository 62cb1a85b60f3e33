------------------------------ MODULE Reshard -------------------------------
(***************************************************************************)
(* Moving a partition from a source to a target while clients write.       *)
(*                                                                          *)
(*   control plane  cmd/controlplane/main.go  the POST /reshard handler     *)
(*   both nodes     internal/reshard/reshard.go  the State machine           *)
(*                  cmd/node/main.go  handleEvent, handleReplicate,          *)
(*                    handleReshard*, loadFromSource, catchUpFromSource      *)
(*                                                                          *)
(* Three kinds of actor interleave: one write handler per client write, one *)
(* control plane handler per reshard session and the goroutine that each    *)
(* accepted /reshard/load starts.  A step is one critical section of         *)
(* reshard.State, one Apply, one change of the directory, one answer of the  *)
(* source, or one call between the control plane and a node.  The epoch such *)
(* a call carries is the subject of EpochFencing.                            *)
(***************************************************************************)
EXTENDS Integers, Sequences, FiniteSets, SequencesExt

CONSTANTS
    Ids,            \* event ids
    Source, Target, \* the two nodes
    Writes,         \* client writes, a subset of Ids \X {Source, Target}
    Sessions,       \* reshard sessions, each started at most once
    Live,           \* "live" in the body of POST /reshard
    SourceCompacts, \* may the source compact its log ...
    CompactsInLoad, \* ... also while a loader runs?
    TargetCompacts, \* may a partition of the target compact its log?
    LoadFails,      \* may a GET of loadFromSource fail?
    TimesOut,       \* may a load be aborted, after 30 s or by hand?
    LossyCalls,     \* may a call of the control plane, or its reply, be lost?
    CpDies,         \* may the control plane die?
    Forgets,        \* may an id leave a partition's idempotency index?
    MaxRestarts,    \* bound: restarts of a node ...
    CrashInLoad     \* ... also while a loader runs?

Nodes == {Source, Target}

ASSUME ReshardAssumption ==
    /\ Source # Target /\ "" \notin Sessions
    /\ Writes \subseteq Ids \X Nodes
    /\ {Live, SourceCompacts, CompactsInLoad, TargetCompacts, LoadFails, TimesOut,
        LossyCalls, CpDies, Forgets, CrashInLoad} \subseteq BOOLEAN
    /\ MaxRestarts \in Nat

VARIABLES
    status,     \* status[n]: State.status of node n
    session,    \* session[n]: State.sessionID, "" for none
    buffer,     \* State.buffer of the target
    parts,      \* every partition.Partition that runs; parts[1] is the
                \* source's, parts[2] the one the target started with
    cur,        \* the index in parts of the target's current partition
    disk,       \* the target's data directory
    handler,    \* handler[w]: where the handler of write w is
    loader,     \* loader[s]: the goroutine of session s
    operator,   \* operator[s]: where the /reshard handler of session s is
    restarts    \* nodes restarted so far

state == <<status, session>>
data  == <<parts, cur, disk>>
vars  == <<state, buffer, data, handler, loader, operator, restarts>>

\* A partition: `hist` is every event it counts, in offset order, those below
\* `base` only in its snapshot.  Those below `forgot` are not in its idempotency
\* index: it was opened on that snapshot, or their TTL is over.
NewPart(hist, base) == [hist |-> hist, base |-> base, forgot |-> base]

\* A data directory: the events that snapshot.json covers, the lines of the
\* file "wal", and the partitions that hold that file open.  A partition whose
\* file was removed goes on writing to one that nobody will read.
EmptyDisk == [snap |-> <<>>, wal |-> <<>>, open |-> {2}]

PartOf(n) == IF n = Source THEN 1 ELSE cur
SourceLog == parts[1].hist

\* Log.Append behind partition.Apply.
Indexed(p, id) == \E i \in (p.forgot + 1)..Len(p.hist) : p.hist[i] = id
ApplyTo(p, id) == IF Indexed(p, id) THEN p ELSE [p EXCEPT !.hist = Append(@, id)]

\* The same on partition k, with the line it adds to the WAL.
ApplyIn(k, id) ==
    /\ parts' = [parts EXCEPT ![k] = ApplyTo(@, id)]
    /\ disk' = IF k \in disk.open /\ ~Indexed(parts[k], id)
                 THEN [disk EXCEPT !.wal = Append(@, id)] ELSE disk

\* partition.Open: the WAL is replayed on the snapshot, an id that is in the WAL
\* twice only once.
Opened(d) == FoldLeft(ApplyTo, NewPart(d.snap, Len(d.snap)), d.wal)

\* Log.Since: an offset below the base starts at the base.
SinceSkips(p, from) == SubSeq(p.hist, from + 2, Len(p.hist))   \* faulty: off by one
Since(p, from) ==
    SubSeq(p.hist, (IF from < p.base THEN p.base ELSE from) + 1, Len(p.hist))

-----------------------------------------------------------------------------
\* reshard.State, one operator per method.

SetStatus(n, st, s) ==
    /\ status' = [status EXCEPT ![n] = st]
    /\ session' = [session EXCEPT ![n] = s]

Freeze(n, s) == SetStatus(n, "frozen", s)

ThawForgets(n) == UNCHANGED <<status, session>>   \* faulty: stays frozen
Thaw(n) == SetStatus(n, "normal", "")

StartLoadLater(n, s) ==                    \* faulty: left to the goroutine
    UNCHANGED <<status, session>> /\ buffer' = <<>>
StartLoad(n, s) == SetStatus(n, "loading", s) /\ buffer' = <<>>

\* FinishLoad does not look at the session.
FinishKeepsSession(n) ==                   \* faulty: sessionID is not cleared
    status' = [status EXCEPT ![n] = "normal"] /\ UNCHANGED session
FinishForgets(n) == UNCHANGED <<status, session>>   \* faulty: stays loading
FinishLoad(n) == SetStatus(n, "normal", "")

-----------------------------------------------------------------------------
\* A write handler (handleEvent, handleReplicate): looks at the State and at the
\* current partition, each under its own lock.

\* rs.Check
CheckFrozen(w) ==
    /\ handler[w].pc = "new"
    /\ handler' = [handler EXCEPT ![w].pc = IF status[w[2]] = "frozen"
                                              THEN "refused" ELSE "checked"]
    /\ UNCHANGED <<state, buffer, data, loader, operator, restarts>>

\* rs.IsLoading
CheckLoading(w) ==
    /\ handler[w].pc = "checked"
    /\ handler' = [handler EXCEPT ![w].pc = IF status[w[2]] = "loading"
                                              THEN "buffering" ELSE "admitted"]
    /\ UNCHANGED <<state, buffer, data, loader, operator, restarts>>

\* getPartition
GetPartition(w) ==
    /\ handler[w].pc = "admitted"
    /\ handler' = [handler EXCEPT ![w] = [pc |-> "applying", part |-> PartOf(w[2])]]
    /\ UNCHANGED <<state, buffer, data, loader, operator, restarts>>

\* rs.Buffer, then 202: the write is kept only while still loading.
BufferWrite(w) ==
    /\ handler[w].pc = "buffering"
    /\ buffer' = IF status[w[2]] = "loading" THEN Append(buffer, w[1]) ELSE buffer
    /\ handler' = [handler EXCEPT ![w].pc = "buffered"]
    /\ UNCHANGED <<state, data, loader, operator, restarts>>

\* Apply on the partition the handler got, then 201 or 200.
ApplyWrite(w) ==
    /\ handler[w].pc = "applying"
    /\ ApplyIn(handler[w].part, w[1])
    /\ handler' = [handler EXCEPT ![w].pc = "applied"]
    /\ UNCHANGED <<state, buffer, cur, loader, operator, restarts>>

-----------------------------------------------------------------------------
\* The goroutine of /reshard/load: loadFromSource, replay, catch-up.

IdleLoader == [pc |-> "idle", base |-> 0, fetched |-> <<>>, drained |-> <<>>,
               part |-> 0, asOf |-> 0]

GoTo(s, pc) == loader' = [loader EXCEPT ![s].pc = pc]

\* GET /snapshot: what the source has compacted of its log.  Without a snapshot,
\* and when the call fails, the base is 0 and the directory is kept.
FetchSnapshot(s) ==
    /\ loader[s].pc = "snapshot"
    /\ \/ /\ parts[1].base > 0
          /\ loader' = [loader EXCEPT ![s].base = parts[1].base,
                                      ![s].fetched = SubSeq(SourceLog, 1, parts[1].base),
                                      ![s].pc = "clear"]
       \/ /\ parts[1].base = 0 \/ LoadFails
          /\ loader' = [loader EXCEPT ![s].base = 0, ![s].pc = "tail"]
    /\ UNCHANGED <<state, buffer, data, handler, operator, restarts>>

\* os.Remove of the WAL, ahead of the source's snapshot and again before Open.
RemoveWal(s) ==
    /\ loader[s].pc \in {"clear", "remove"}
    /\ disk' = [disk EXCEPT !.wal = <<>>, !.open = {}]
    /\ GoTo(s, IF loader[s].pc = "clear" THEN "unsnap" ELSE "open")
    /\ UNCHANGED <<state, buffer, parts, cur, handler, operator, restarts>>

\* os.Remove of snapshot.json ...
RemoveSnapshot(s) ==
    /\ loader[s].pc = "unsnap"
    /\ disk' = [disk EXCEPT !.snap = <<>>]
    /\ GoTo(s, "rename")
    /\ UNCHANGED <<state, buffer, parts, cur, handler, operator, restarts>>

\* ... and os.Rename of the source's over it.
InstallSnapshot(s) ==
    /\ loader[s].pc = "rename"
    /\ disk' = [disk EXCEPT !.snap = loader[s].fetched]
    /\ GoTo(s, "tail")
    /\ UNCHANGED <<state, buffer, parts, cur, handler, operator, restarts>>

\* GET /log?from=from
Fetched(s, from, pc) ==
    loader' = [loader EXCEPT ![s].fetched = Since(parts[1], from),
                             ![s].asOf = Len(SourceLog),
                             ![s].pc = pc]

LoadTail(s) ==
    /\ loader[s].pc = "tail"
    /\ Fetched(s, loader[s].base, "remove")
    /\ UNCHANGED <<state, buffer, data, handler, operator, restarts>>

\* loadFromSource returns an error: the goroutine leaves without draining.
LoadFail(s) ==
    /\ LoadFails
    /\ loader[s].pc = "tail"
    /\ FinishLoad(Target)
    /\ GoTo(s, "failed")
    /\ UNCHANGED <<buffer, data, handler, operator, restarts>>

\* partition.Open on what the directory holds now.
RemoveAfterOpen == [disk EXCEPT !.wal = <<>>, !.open = {}]   \* faulty: swapped
OpenWal == [disk EXCEPT !.open = @ \cup {Len(parts) + 1}]

OpenPartition(s) ==
    /\ loader[s].pc = "open"
    /\ parts' = Append(parts, Opened(disk))
    /\ disk' = OpenWal
    /\ loader' = [loader EXCEPT ![s].part = Len(parts) + 1, ![s].pc = "fill"]
    /\ UNCHANGED <<state, buffer, cur, handler, operator, restarts>>

\* Apply of the next entry fetched, on the loader's own partition.
ApplyFetched(s, pc) ==
    /\ loader[s].pc = pc
    /\ loader[s].fetched # <<>>
    /\ ApplyIn(loader[s].part, Head(loader[s].fetched))
    /\ loader' = [loader EXCEPT ![s].fetched = Tail(@)]
    /\ UNCHANGED <<state, buffer, cur, handler, operator, restarts>>

ApplyTail(s) == ApplyFetched(s, "fill")

SetPartition(s) ==
    /\ loader[s].pc = "fill"
    /\ loader[s].fetched = <<>>
    /\ cur' = loader[s].part
    /\ GoTo(s, "drain")
    /\ UNCHANGED <<state, buffer, parts, disk, handler, operator, restarts>>

DrainBuffer(s) ==
    /\ loader[s].pc = "drain"
    /\ buffer' = <<>>
    /\ loader' = [loader EXCEPT ![s].drained = buffer, ![s].pc = "finish"]
    /\ UNCHANGED <<state, data, handler, operator, restarts>>

FinishLoading(s) ==
    /\ loader[s].pc = "finish"
    /\ FinishLoad(Target)
    /\ GoTo(s, "current")
    /\ UNCHANGED <<buffer, data, handler, operator, restarts>>

\* getPartition: by now perhaps the partition of another session.
TakePartition(s) ==
    /\ loader[s].pc = "current"
    /\ loader' = [loader EXCEPT ![s].part = cur, ![s].pc = "catchup"]
    /\ UNCHANGED <<state, buffer, data, handler, operator, restarts>>

\* Apply of the next write that was drained.
ReplayBuffered(s) ==
    /\ loader[s].pc = "catchup"
    /\ loader[s].drained # <<>>
    /\ ApplyIn(loader[s].part, Head(loader[s].drained))
    /\ loader' = [loader EXCEPT ![s].drained = Tail(@)]
    /\ UNCHANGED <<state, buffer, cur, handler, operator, restarts>>

\* A round of catchUpFromSource: cur.Head, then GET /log?from=head ...
CatchUpFetch(s) ==
    /\ loader[s].pc = "catchup"
    /\ loader[s].drained = <<>>
    /\ Fetched(s, Len(parts[loader[s].part].hist), "caught")
    /\ UNCHANGED <<state, buffer, data, handler, operator, restarts>>

\* ... then Apply of each entry ...
CatchUpApply(s) == ApplyFetched(s, "caught")

\* ... and another round, or the deadline.
CatchUpRound(s) ==
    /\ loader[s].pc = "caught"
    /\ loader[s].fetched = <<>>
    /\ \E pc \in {"catchup", "done"} : GoTo(s, pc)
    /\ UNCHANGED <<state, buffer, data, handler, operator, restarts>>

-----------------------------------------------------------------------------
\* The control plane's /reshard handler.

Step(s, pc) == operator' = [operator EXCEPT ![s] = pc]

\* POST /reshard; the synchronous path freezes the source first.  When the
\* reply is lost the caller gets an error although the source is frozen.
BeginFreeze(s) ==
    /\ operator[s] = "new"
    /\ ~Live
    /\ \/ /\ status[Source] = "normal"
          /\ Freeze(Source, s)
          /\ \E pc \in {"load"} \cup (IF LossyCalls THEN {"error"} ELSE {}) : Step(s, pc)
       \/ /\ status[Source] # "normal" \/ LossyCalls
          /\ Step(s, "error")
          /\ UNCHANGED <<status, session>>
    /\ UNCHANGED <<buffer, data, handler, loader, restarts>>

\* POST /reshard/load: the target starts the goroutine, or refuses and the
\* source is thawed.  So it is when no reply comes: the handler gives up without
\* a poll and without an abort, although the call may still arrive.
BeginLoad(s) ==
    /\ operator[s] = IF Live THEN "new" ELSE "load"
    /\ \/ /\ status[Target] = "normal"
          /\ StartLoad(Target, s)
          /\ GoTo(s, "snapshot")
          /\ Step(s, "poll")
       \/ /\ status[Target] # "normal"
          /\ Step(s, IF Live THEN "error" ELSE "thaw-error")
          /\ UNCHANGED <<state, buffer, loader>>
       \/ /\ LossyCalls
          /\ GoTo(s, "called")
          /\ Step(s, IF Live THEN "error" ELSE "thaw-error")
          /\ UNCHANGED <<state, buffer>>
    /\ UNCHANGED <<data, handler, restarts>>

\* A call whose reply nobody waits for reaches the target.
LateLoad(s) ==
    /\ loader[s].pc = "called"
    /\ \/ /\ status[Target] = "normal"
          /\ StartLoad(Target, s)
          /\ GoTo(s, "snapshot")
       \/ /\ status[Target] # "normal"
          /\ GoTo(s, "idle")
          /\ UNCHANGED <<state, buffer>>
    /\ UNCHANGED <<data, handler, operator, restarts>>

\* GET /health reports "normal".
PollNormal(s) ==
    /\ operator[s] = "poll"
    /\ status[Target] = "normal"
    /\ Step(s, IF Live THEN "complete" ELSE "thaw-complete")
    /\ UNCHANGED <<state, buffer, data, handler, loader, restarts>>

\* 30 s have passed: POST /reshard/abort, which is FinishLoad.  Nobody looks at
\* its error.
PollTimeout(s) ==
    /\ TimesOut
    /\ operator[s] = "poll"
    /\ \/ FinishLoad(Target)
       \/ LossyCalls /\ UNCHANGED <<status, session>>
    /\ Step(s, IF Live THEN "error" ELSE "thaw-error")
    /\ UNCHANGED <<buffer, data, handler, loader, restarts>>

\* POST /reshard/thaw; an error is only logged.
ThawSource(s) ==
    /\ operator[s] \in {"thaw-error", "thaw-complete"}
    /\ \/ /\ session[Source] = s
          /\ Thaw(Source)
       \/ /\ session[Source] # s \/ LossyCalls
          /\ UNCHANGED <<status, session>>
    /\ Step(s, IF operator[s] = "thaw-error" THEN "error" ELSE "complete")
    /\ UNCHANGED <<buffer, data, handler, loader, restarts>>

\* POST /reshard/abort by hand.
AbortByHand ==
    /\ TimesOut
    /\ status[Target] = "loading"
    /\ FinishLoad(Target)
    /\ UNCHANGED <<buffer, data, handler, loader, operator, restarts>>

\* The control plane dies: nobody goes on with the sessions it was in, and it
\* keeps nothing of them.
InProgress == {"load", "poll", "thaw-error", "thaw-complete"}
ControlPlaneDies ==
    /\ CpDies
    /\ \E s \in Sessions : operator[s] \in InProgress
    /\ operator' = [s \in Sessions |-> IF operator[s] \in InProgress THEN "dead" ELSE operator[s]]
    /\ UNCHANGED <<state, buffer, data, handler, loader, restarts>>

-----------------------------------------------------------------------------
\* Partitions compact, ids expire and processes die.

LoadingPCs == {"snapshot", "clear", "unsnap", "rename", "tail", "remove", "open",
               "fill", "drain", "finish"}
LoaderRuns == \E s \in Sessions :
                loader[s].pc \notin {"idle", "called", "done", "failed", "killed"}
LoadRuns   == \E s \in Sessions : loader[s].pc \in LoadingPCs

\* A compaction covers the whole log (partition.run).
Compact(k) ==
    /\ parts[k].base < Len(parts[k].hist)
    /\ parts' = [parts EXCEPT ![k].base = Len(parts[k].hist)]
    /\ UNCHANGED <<state, buffer, cur, handler, loader, operator, restarts>>

CompactSource ==
    /\ SourceCompacts
    /\ LoaderRuns => CompactsInLoad
    /\ Compact(1)
    /\ UNCHANGED disk

\* The target's partitions share the directory, the replaced ones included,
\* whose goroutines nobody stops.
CompactTarget(k) ==
    /\ TargetCompacts
    /\ Compact(k)
    /\ disk' = [snap |-> parts[k].hist, wal |-> <<>>, open |-> disk.open \cup {k}]

\* The TTL of the oldest ids of partition k ends.  Under --no-idempotent, where
\* nobody asks the index, every id is as good as forgotten at once.
Expire(k) ==
    /\ Forgets
    /\ \E n \in (parts[k].forgot + 1)..Len(parts[k].hist) :
         parts' = [parts EXCEPT ![k].forgot = n]
    /\ UNCHANGED <<state, buffer, cur, disk, handler, loader, operator, restarts>>

\* Process n dies and starts again at once: its State is empty, the requests it
\* was handling get no answer.
Dies(n) ==
    /\ restarts < MaxRestarts
    /\ LoadRuns => CrashInLoad
    /\ restarts' = restarts + 1
    /\ SetStatus(n, "normal", "")
    /\ handler' = [w \in Writes |->
         IF w[2] = n /\ handler[w].pc \in {"checked", "admitted", "buffering", "applying"}
         THEN [pc |-> "lost", part |-> 0] ELSE handler[w]]
    /\ UNCHANGED operator

\* What the source recovers of its log is EventLog's subject: all of it, but
\* the index of what was compacted.
RestartSource ==
    /\ Dies(Source)
    /\ parts' = [parts EXCEPT ![1].forgot = IF @ < parts[1].base THEN parts[1].base ELSE @]
    /\ UNCHANGED <<buffer, cur, disk, loader>>

\* The target opens what is in the directory; its loaders are no more.
RestartTarget ==
    /\ Dies(Target)
    /\ buffer' = <<>>
    /\ parts' = <<parts[1], Opened(disk)>>
    /\ cur' = 2
    /\ disk' = [disk EXCEPT !.open = {2}]
    /\ loader' = [s \in Sessions |->
         IF loader[s].pc \in {"idle", "called", "failed"} THEN loader[s]
         ELSE [IdleLoader EXCEPT !.pc = IF loader[s].pc \in LoadingPCs THEN "failed"
                                                                        ELSE "killed"]]

-----------------------------------------------------------------------------
Init ==
    /\ status = [n \in Nodes |-> "normal"]
    /\ session = [n \in Nodes |-> ""]
    /\ buffer = <<>>
    /\ parts = <<NewPart(<<>>, 0), NewPart(<<>>, 0)>>
    /\ cur = 2
    /\ disk = EmptyDisk
    /\ handler = [w \in Writes |-> [pc |-> "new", part |-> 0]]
    /\ loader = [s \in Sessions |-> IdleLoader]
    /\ operator = [s \in Sessions |-> "new"]
    /\ restarts = 0

HandlerStep(w) ==
    CheckFrozen(w) \/ CheckLoading(w) \/ GetPartition(w) \/ BufferWrite(w) \/ ApplyWrite(w)

LoaderStep(s) ==
    \/ FetchSnapshot(s) \/ RemoveWal(s) \/ RemoveSnapshot(s) \/ InstallSnapshot(s)
    \/ LoadTail(s) \/ LoadFail(s) \/ OpenPartition(s) \/ ApplyTail(s) \/ SetPartition(s)
    \/ DrainBuffer(s) \/ FinishLoading(s) \/ TakePartition(s) \/ ReplayBuffered(s)
    \/ CatchUpFetch(s) \/ CatchUpApply(s) \/ CatchUpRound(s)

OperatorStep(s) ==
    BeginFreeze(s) \/ BeginLoad(s) \/ PollNormal(s) \/ PollTimeout(s) \/ ThawSource(s)

Next ==
    \/ \E w \in Writes : HandlerStep(w)
    \/ \E s \in Sessions : LoaderStep(s) \/ OperatorStep(s) \/ LateLoad(s)
    \/ AbortByHand
    \/ ControlPlaneDies
    \/ CompactSource
    \/ \E k \in 2..Len(parts) : CompactTarget(k)
    \/ \E k \in 1..Len(parts) : Expire(k)
    \/ RestartSource
    \/ RestartTarget

Spec == Init /\ [][Next]_vars

\* A control plane handler that has begun goes on; its deadline is a timer.
OperatorFair ==
    \A s \in Sessions : WF_vars(operator[s] # "new" /\ OperatorStep(s))

\* The goroutine also runs on: every GET of it is answered.
LoaderFair == \A s \in Sessions : WF_vars(LoaderStep(s))

FairSpec == Spec /\ OperatorFair /\ LoaderFair

\* The source does not answer the goroutine, whose http.Get has no timeout.
StuckLoaderSpec == Spec /\ OperatorFair

-----------------------------------------------------------------------------
\* Properties.

PCs == [handler |-> {"new", "refused", "checked", "admitted", "buffering", "applying",
                     "buffered", "applied", "lost"},
        loader |-> {"idle", "called", "snapshot", "clear", "unsnap", "rename", "tail",
                    "remove", "open", "fill", "drain", "finish", "current",
                    "catchup", "caught", "done", "failed", "killed"},
        operator |-> {"new", "load", "poll", "thaw-error", "thaw-complete",
                      "error", "complete", "dead"}]

\* Every variable has its type; a session is set exactly while a transition is
\* in progress.
TypeOK ==
    /\ status \in [Nodes -> {"normal", "frozen", "loading"}]
    /\ session \in [Nodes -> Sessions \cup {""}]
    /\ \A n \in Nodes : status[n] = "normal" <=> session[n] = ""
    /\ buffer \in Seq(Ids)
    /\ cur \in 2..Len(parts)
    /\ \A k \in DOMAIN parts : /\ parts[k].hist \in Seq(Ids)
                               /\ parts[k].forgot <= Len(parts[k].hist)
                               /\ parts[k].base <= Len(parts[k].hist)
    /\ disk.snap \in Seq(Ids) /\ disk.wal \in Seq(Ids)
    /\ disk.open \subseteq 2..Len(parts)
    /\ \A w \in Writes : handler[w].pc \in PCs.handler
    /\ \A s \in Sessions : loader[s].pc \in PCs.loader /\ operator[s] \in PCs.operator
    /\ restarts \in 0..MaxRestarts

\* A target that buffers has a goroutine that will end the loading: no
\* interleaving of aborts, failures and further sessions leaves it in Loading
\* with nobody to call FinishLoad.
LoadingHasLoader ==
    status[Target] = "loading" => \E s \in Sessions : loader[s].pc \in LoadingPCs

\* The source is frozen only on behalf of a session whose handler will thaw it,
\* unless the control plane died in it.
FrozenHasOwner ==
    status[Source] = "frozen" =>
        /\ session[Source] \in Sessions
        /\ operator[session[Source]] \in InProgress \cup {"dead"}

\* The transfer is offset-exact when nobody writes to the target directly: after
\* it, the target's log is a prefix of the source's, so that Head is
\* the offset to catch up from.
Loaded(s) == loader[s].pc \in {"current", "catchup", "caught", "done", "killed"}
TargetIsPrefix == (\E s \in Sessions : Loaded(s)) => IsPrefix(parts[cur].hist, SourceLog)

\* cmd/node/main.go:529, "pulls anything the source has past our current head
\* when resharding for correct replication": once catch-up is over, the
\* partition it caught up holds all that the source held at its last request.
CaughtUp ==
    \A s \in Sessions : loader[s].pc = "done" =>
        ToSet(SubSeq(SourceLog, 1, loader[s].asOf)) \subseteq ToSet(parts[loader[s].part].hist)

\* What a reshard without direct writes to the target promises of the data.
TransferExact == TargetIsPrefix /\ CaughtUp

\* A reshard that the control plane reports complete did transfer: the target
\* serves a partition that its loader opened.
CompleteMeansLoaded ==
    \A s \in Sessions : operator[s] \in {"thaw-complete", "complete"} => Loaded(s)

\* README.md:67, "Node state persists across restarts via the on-disk WAL,
\* snapshot, and epoch file": what the target has served from memory, transfers
\* included, it serves again after it died outside of a load.
RestartKeepsPartition ==
    [][RestartTarget /\ ~LoadRuns => parts'[cur'].hist = parts[cur].hist]_vars

\* README.md:85, "Once the transfer finishes the buffer replays into the
\* partition": a write answered 202 is in the target's partition once the
\* loaders are done.
BufferedIsReplayed ==
    \A w \in Writes : handler[w].pc = "buffered"
                      /\ (\A s \in Sessions : loader[s].pc \in {"done", "failed"})
        => w[1] \in ToSet(parts[cur].hist)

\* internal/reshard/reshard.go:12, "Frozen // writes return 503": no write is
\* applied on a frozen source.
FrozenAppliesNothing ==
    [][\A w \in Writes : ApplyWrite(w) => status[w[2]] # "frozen"]_vars

\* README.md:343, "when shrinking, first move the leaving node's partition to a
\* survivor": what the survivor itself had accepted is still there.
SurvivorKeepsItsOwn ==
    \A w \in Writes : handler[w].pc = "applied" /\ w[2] = Target
        => w[1] \in ToSet(parts[cur].hist)

\* README.md:650, "Abort a stuck live reshard, clear Loading state": after the
\* abort the aborted transfer no longer replaces the partition.
AbortedNeverSwaps == [][\A s \in Sessions : SetPartition(s) => session[Target] = s]_vars

\* README.md:87, "freezes the source (writers see 503), bumps the epoch,
\* triggers the transfer, then thaws": a frozen source accepts writes again.
FrozenEnds == status[Source] = "frozen" ~> status[Source] = "normal"

\* Node n is in no session, or in one whose /reshard handler died.
Released(n) == session[n] = "" \/ operator[session[n]] = "dead"

\* No node stays frozen or loading for ever when no call is lost and the control
\* plane outlives its sessions: whatever fails, times out, is aborted by hand,
\* overlaps or dies on the two nodes, and even if the source never answers the
\* loader.
TransitionsEnd == \A n \in Nodes : []<>Released(n)
=============================================================================
