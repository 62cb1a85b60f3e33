# Verification of StreamShard

TLA+ models of the StreamShard event store (gateways, partition nodes, control
plane), the TLC configurations that check them and TLAPS proofs about them.
Paths below are relative to the repository's root; line numbers refer to the
commit the modules were written from, and `PROJECT.json` ("map") names the lines
each definition stands for.

## 1. The system

| Component | State | Operations | Talks to |
|---|---|---|---|
| Control plane, `cmd/controlplane` | epoch per partition in memory and in `epochs.json` | bump, failover, reshard | nodes (freeze, load, poll, abort, thaw), gateways |
| Gateway, `cmd/gateway` | epoch (one atomic), overload flags, ring, breakers, limiter, semaphore | `handleEvent`, `post`, `pollEpoch`, `pollHealth`, `watchMembership` | nodes, control plane |
| Circuit breaker, `internal/breaker` | state, failures, time of opening | `Allow`, `Success`, `Failure` | called by `gateway.post` |
| Rate limiter, `internal/ratelimit` | a bucket per key | `Allow`, sweep | called by `handleEvent` |
| Hash ring, `internal/ring` | nodes, points | `Add`, `Remove`, `Owner`, `Replicas` | gateway and node |
| Membership, `internal/membership` | member table, pending gossip, ack waiters, event channel | probe, indirect probe, suspicion, gossip | UDP between all processes |
| Node, `cmd/node` | current partition, reshard state, fencer | `/events`, `/replicate`, reshard handlers, loader goroutine, fan-out | gateways, other nodes, control plane |
| Reshard state, `internal/reshard` | status, session, buffer | `Freeze`, `Thaw`, `StartLoad`, `Buffer`, `DrainBuffer`, `FinishLoad` | node handlers and loader |
| Fencer, `internal/epoch` | highest epoch seen, epoch file | `Check`, `Load` | node handlers and loader |
| Partition, `internal/partition` | a goroutine that owns a log and an aggregate; bounded channels | apply, query, log, head, compact | node handlers |
| Event log, `internal/log` | entries, base offset, idempotency index, WAL, snapshot | `Append`, `Since`, `Compact`, fsyncer, `Open` | partition |
| Aggregate, `internal/aggregate` | counts, timeline | `Apply`, `Counts`, `Snapshot`, eviction | partition |

A client's event goes gateway -> node handler -> fencer -> reshard state ->
partition -> log and aggregate, and back; a second path is the replica write
(`/replicate`), sent by the gateway or, with `--primary-replication`, by the
primary. The control plane only issues epochs and drives reshards.

What is hard about it, and what makes each part correct:

* **Epochs.** Issued in one place, cached by gateways in an atomic that is
  compared and stored in two operations, checked by nodes before a write but not
  under the lock it is applied under, persisted by two processes that may die
  in between. Correct: an epoch is issued once; nobody is ahead of the control
  plane's file; a node that said "ok" under an epoch never says "ok" under a
  smaller one, whichever process crashes.
* **Durable state.** WAL, snapshot and truncation are three file operations; the
  idempotency index and the aggregate are rebuilt from them. Correct: a restart
  loses nothing, repeats nothing and moves no offset.
* **Resharding.** Three kinds of actor (write handlers, loader goroutine, control
  plane handler) meet on a status word that each looks at several times under separate
  locks, and on a directory whose files are removed, renamed and opened one by one;
  calls are lost or come late, and every process can die. Correct: nobody is left
  frozen or loading; the target ends with the source's log; a write that was answered
  is somewhere.
* **Quorum writes.** Timeouts, refusals and one retry around a fan-out whose
  late calls go on in the background. Correct: an acknowledged event has W
  copies; RF follows; every client is answered.
* **Breaker.** Results arrive in another order than permissions were given.
  Correct: it is never left half-open with no probe out.
* **Routing.** Writes, retries and reads look at a ring that changes between two
  looks. Correct: rings with the same nodes route alike; a write goes to the
  replicas, a failover to the node that will own the key, a read counts a key once.
* **Membership.** Packets are lost and late, probes of one target overlap and share
  an entry, gossip is repeated by others. Correct: the dead are found, a death is
  not taken back by old news, the ring follows the member table.
* **Overload.** Semaphore, limiter, shed check and bounded queue are each looked at
  before they are used, while callers time out and call again. Correct: the limiter
  keeps its rate and denies nothing below it; whatever overlaps, the partition
  takes each event once and answers every handler.

The full list of hazards, each at its line and with the properties about it, is
`PROJECT.json` ("hazards").

## 2. The modules

| Module | Models | How |
|---|---|---|
| `EpochFencing` | epoch store, gateway epoch, fencer | One action per critical section; a section that writes a file is two, so that a crash can fall between. HTTP messages are sets: any order, any delay; a message nobody handles is a lost one. |
| `EpochFencingProofs` | | Theorems about `EpochFencing` (section 5). |
| `EventLog` | log, aggregate, partition goroutine | All on one goroutine, so one action per command, except `Compact`, which is split at the point between the snapshot's rename and the WAL's truncation. Files are separate variables with the part of them that is on the platter. |
| `Journal` | | What a log promises without its files and its index: records under offsets that stay, the retry window, what a restart and a power loss may take. `EventLog` implements it. |
| `EventLogProofs` | | Theorems about `EventLog`, and that it implements `Journal` (section 5). |
| `Reshard` | reshard state, handlers, loader, orchestrator, the target's data directory | One action per lock-protected look at the status, per call between processes (lost and late ones too), per answer of the source, per file removed, renamed or opened, per entry applied; compactions, restarts of either node, death of the control plane. |
| `ReshardProofs` | | Theorems about `Reshard` (section 5). |
| `Breaker` | one breaker | Requests in flight remember how they were allowed. |
| `QuorumWrite` | gateway write path, node fan-out | A call is a request in an inbox and, apart from it, the result its caller gets; a timeout ends the second and leaves the first. The flags of gateway and nodes are chosen at the start. |
| `QuorumWriteProofs` | | Theorems about `QuorumWrite` (section 5). |
| `Ring` | hash ring | Operators on a ring's value: New, Add, Remove, Owner, Replicas. Sorting is by rank, and the loops are folds. |
| `Routing` | the gateway's use of its ring | One action per access under the ring's lock: the watcher's, the write path's, the retry's and the aggregates'. Extends `Ring`. |
| `GatewayProofs` | | Theorems about `Ring`, `Routing` and `Breaker`, which share no state (section 5). |
| `Membership` | SWIM members, the two ring watchers | One action per packet handled, timer and lock-protected step of a probe; a merge of gossip is a fold over its events. |
| `MembershipProofs` | | Theorems about `Membership` (section 5). |
| `SequenceFolds` | | What `FoldLeft` computes, for any operator: the induction that the proofs about the log, the loader, the batch, the gossip and the ring instantiate (section 5). |
| `RateLimit` | the limiter's bucket of one key | Lookup, creation, use and sweep are the critical sections of the code. |
| `ApplyQueue` | shed check, apply queue, batching | The goroutine's receive, its drain, its one append and its replies are steps of their own. |
| `Ledger` | | What a partition promises: writes that take effect one by one, once per event, between call and answer. `ApplyQueue` implements it. |
| `Overload` | gateway semaphore, limiter, node queue together | Extends `RateLimit` and `ApplyQueue`; adds the gateway's handler with its timeout and retry. |
| `OverloadProofs` | | Theorems about `RateLimit`, `ApplyQueue` and `Overload`, and that the queue implements `Ledger` (section 5). |
| `MC*` | | Model values, write sets and other constants for TLC. |

State and code correspond one to one where a variable's comment names a field.
Variables marked "history" (`issued`, `failedOver`, `admitted`, `acked`, `durable`,
`streak`, `refused`, `meter`, `blind`, ...) are not in the code; no guard reads them,
except for the bounds on their length. Definitions marked `faulty` are never used by
the specifications: each is the form a neighbouring definition would have with a
plausible bug, and shows that a property notices it ("mutants" in `PROJECT.json`).

Abstractions, by module:

* `EpochFencing`. One epoch name, `_default`, the only one any caller uses.
  Applying a write has no effect here but the primary's fan-out. The kernel's
  `WriteBack` and `NodeWriteBack` exist only under `CpPowerLoss` and
  `NodePowerLoss`. `epochs.json` is not synced: a power loss takes it back, or
  leaves it unreadable, and then `main` ends in `log.Fatal` (`CpFatal`). The
  fencer syncs its file before the rename, but not the directory: a power loss
  takes the rename back.
* `EventLog`. Key and id of an event coincide: each event has a key of its own, so the
  aggregate counts events by id. Time is in ticks, `Second` of them to a second:
  `Unix` cuts a time to seconds where `dedupSet` does, when an id is added and for the
  cutoff of an eviction. The clock of a log is that of one machine, and does not go
  back. `snapshot.json` is renamed without a sync, so a power loss leaves the new one,
  the old one, or one that cannot be read. A batch is a run of `AppendEvent` steps
  with no `Tick` between them. `Fsync` is a step only under `PowerLoss`.
* `Reshard`. A partition is the sequence of events it counts, the base below
  which only its snapshot holds them, and the base below which its index does
  not know them, which grows as ids expire (`Expire`; under `--no-idempotent` they
  have all expired). Frozen and loading concern one source and one target. The
  epoch in a load is in `EpochFencing`. A failed load ends before the directory is
  opened. A write enters a handler at most once. The target's directory is the events
  its snapshot covers, the lines of the file `wal`, and who holds that file open: a
  removed file keeps its writers but has no readers, as on Unix. `partition.Open`
  reads the directory in the goroutine it starts; it is one step here, taken when
  `Open` returns, as every later call waits for that goroutine anyway. A restart is
  one step, in which the page cache survives; how a log with its offsets and
  counts comes back is `EventLog`'s subject, and so is a death inside `Compact`.
  A partition that has compacted writes without `O_APPEND`: two that then write
  to one file would overwrite each other's lines, which is left out. A load call
  whose reply nobody waits for may arrive at any later time (`LateLoad`); a freeze or
  a thaw arrives at once or never, and so does the abort at the deadline, since one
  that is late does what `AbortByHand` does. A control plane that died keeps nothing
  of its sessions, so it is not started again here; the epochs it reads back are in
  `EpochFencing`.
* `QuorumWrite`. One event. The ring is fixed; what a stale SWIM view does to it
  is the free choice of the live replicas (`staleViews`) and, for a failover, of
  the node tried second (which node that is, is `Routing`'s subject). 202 for a
  buffered write counts as stored: what becomes of buffered writes is
  `Reshard`'s subject. A breaker of the
  gateway that refuses a call (`BreakerRefuses`) ends it at once, and the node never
  sees it; when breakers open and close is `Breaker`'s subject.
* `Ring`, `Routing`. A key is its hash, and the layout of the virtual nodes is
  chosen at the start among all orders in which they can lie, so nothing depends
  on FNV-1a; two virtual nodes with one hash, whose order `sort.Slice` leaves
  open, are assumed away. Requests only read the ring, so one at a time is
  followed; what its calls store and answer is in `QuorumWrite`. `failedOverAt`,
  the memory of a bump a moment ago, is a bump that succeeds. On an empty ring
  a write indexes an empty list (`Panic`): in a goroutine, which ends the gateway,
  or with `--primary-replication` in the handler, where net/http recovers.
* `Membership`. Durations are left out: any timer may fire at any time, except
  where fairness is stated. A ring starts from the `--peers` of its process, any
  nodes (`Peers`), and a join adds the rest. A member may wait for several answers
  at a time, also of one target, since an indirect ping lasts longer than the
  interval of the probes (`MaxProbes`). The network holds a set of packets; those beyond the
  bound are lost. An ack carries the address it was sent from, so a helper's ack
  counts for the helper: an indirect probe never confirms its target, in the
  model as in the code. A join always carries incarnation 0, because nothing
  raises a process's own.
* `RateLimit`. One key. Tokens are counted in fractions of a token that a tick
  brings; a bucket that nobody can reach any more is forgotten.
* `ApplyQueue`. The log is the sequence of ids it accepted; files, offsets and the
  index's window are `EventLog`'s: this is the queue of a node without
  `--no-idempotent`, in a time shorter than the TTL, and `AcceptedOnce` and
  `ImplementsLedger` are about no other. Blocked senders enter the channel in their
  order, as Go's runtime has it. The case `batchMax = 1` of `run` is a batch of one.

## 3. The runs

Runs that pass (`TypeOK` and `BreakerTypeOK` are the type invariants of their modules):

| Run | Checks | Bounds |
|---|---|---|
| `EpochSafety` | `TypeOK`, `EpochAuthority`, `UniqueIssue` | 2 nodes, alike (symmetry), 1 gateway, 2 epochs, 2 restarts of anything, nodes whose hosts lose power, a write with fan-out |
| `EpochPowerLoss` | `FenceDurable`, `AdmissionsNeverGoBack`, `GatewaysCatchUp` | 1 node, 1 write, 2 epochs, 2 restarts, an unsynced `epochs.json` |
| `LogRestart` | `WellFormed` (`TypeOK` and `CountsMatchTimeline`), `NeverOvercounts`, `DedupWindow`, `RestartKeeps`, `ImplementsJournal` | 2 ids, 5 events, a clock of 5 half seconds with a TTL of 2 seconds and a window of half a second, compaction from 2 entries on, 2 restarts, kill -9 and power loss |
| `ReshardLive` | `TransferExact`, `CompleteMeansLoaded`, `RestartKeepsPartition` | 3 writes to the source, 2 sessions, lost and late calls, compactions of the source and one restart of a node between loads; 3.4 million states |
| `ReshardSync` | `TypeOK`, `LoadingHasLoader`, `FrozenHasOwner`, `TransitionsEnd` | 1 write to the target, 2 sessions, failed loads, timeouts, aborts by hand, compactions of the target, an index that forgets, a control plane that may die, one restart of a node, also in a load, a source that need not answer the loader; calls arrive. Writes to the source are left to `ReshardLive`: the properties here are about statuses, which no data decides |
| `BreakerSafety` | `BreakerTypeOK`, `HalfOpenHasProbe`, `OpensAfterStreak`, `Recovers` | 3 requests, threshold and cooldown 3 |
| `QuorumWrite` | `TypeOK`, `AckQuorum`, `ReachesRF`, `AlwaysAnswered` | RF 3, W 2, refusals, open breakers, timeouts, retry; two deployments: gateway fan-out, and primary replication under `--no-idempotent` with failover, stale views and nodes that need not answer |
| `Routing` | `Deterministic`, `CountedOnce`, `OnlyNeighboursMove`, `GoesToReplicas` | 3 nodes with 2 virtual nodes each in every order, 3 keys, RF 1 and 3, both modes, 2 ring changes during a query |
| `MembershipRing` | `RingFollows`, `DeadStaysDead` | a gateway started with one of 2 nodes as its peer, which learns of the other from gossip alone; that one crashes and restarts once; 1 probe each and 1 packet at a time, gossip that is not passed on, a channel of 4 events |
| `MembershipLive` | `TypeOK`, `Completeness` | a member that waits for two answers at a time and another that waits for one and asks it for help, one target that may crash and restart, 1 packet at a time; no HTTP addresses, as no ring is followed |
| `Overload` | `TypeOK`, `RateKept`, `AcceptedOnce`, `DeniesOnlyExcess`, `ImplementsLedger`, `AllServed` | 2 requests with one event id, 2 attempts each, a burst of one token and a rate of half a token per tick, a queue of 1, batches of 2, a query |

Why the bounds are enough: two epochs make a message stale and a third party
newer; two restarts let a process recover from a recovery; two sessions overlap
an aborted loader with a fresh one; a clock that passes the TTL lets an id be
accepted, expire and be accepted again, with a compaction between, and of half
seconds is the coarsest in which truncation takes part of a second; three
overlapping requests let a late answer, a probe and a fresh failure meet; RF 3
with W 2 is the deployed setting and the smallest with a minority; three nodes
with two virtual nodes are the fewest where a node can lie twice between others
and a removed owner has two candidates; an observer, a victim and a third party
that gossips and helps are what a probe needs; two calls of two requests for one
event fill a queue of one, block, share a batch and meet their own retry, and with
a bucket of one token a second creation or an early sweep shows. The fewest
steps that break a property in the configurations below are well inside these
bounds. `ReshardFaults` is a configuration beside the runs: `ReshardSync` without fairness
but with lost and late calls too, which passes for `TypeOK` and `LoadingHasLoader`.

Runs in which TLC finds the property violated: the code does not do what a
document or a comment of the repository says. The lines are quoted in
`PROJECT.json` ("findings").

| Run | Property | What happens |
|---|---|---|
| `ReshardBuffer` | `BufferedIsReplayed` | a write answered 202 between `DrainBuffer` and `FinishLoad` is dropped |

Further disagreements of the same kind, each with a configuration that
reproduces it (`tlc -config ReshardAbort.cfg MCReshard`; the module is the `MC`
module of the component, or the component itself where there is none). The line in
the third column is the one that says otherwise.

| Configuration | Property | Against | What happens |
|---|---|---|---|
| `EpochFailover` | `FailoverFences` | cmd/controlplane/main.go:233 | after `/failover` the superseded node still admits writes of a gateway that has not polled |
| `LogCompactCrash` | `NeverOvercounts` | README.md:67 | killed between snapshot and truncation: events are counted twice |
| `QuorumDuplicate` | `AckQuorum` | cmd/node/main.go:261 | the retry finds the event on the primary and is acknowledged with one copy |
| `MembershipBlind` | `DeathsLeaveRing` | README.md:65 | a node that died before its HTTP address was known stays in the ring |
| `MembershipRejoin` | `Rejoins` | README.md:685 | a node falsely declared dead never comes back: its incarnation stays 0 |
| `OverloadBurst` | `ShedsBeforeFull` | README.md:134 | two handlers pass the shed check before either enqueues; one blocks on the full queue |
| `EpochApplied` | `NeverAppliedBehind` | README.md:71 | a write that passed `checkEpoch` is applied after the node saw a newer epoch |
| `EpochReissue` | `UniqueIssue` | cmd/controlplane/main.go:90 | after a power loss `bump` returns an epoch again |
| `LogDedupRestart` | `CompactedStillDeduped` | internal/log/log_test.go:79 | compacted ids are accepted again after a restart, within the TTL |
| `LogTornTail` | `DurableHeld` | README.md:699 | the event appended to a torn line is lost though synced |
| `ReshardSurvivor` | `SurvivorKeepsItsOwn` | README.md:343 | the target's own events are gone after the swap |
| `ReshardAbort` | `AbortedNeverSwaps` | README.md:650 | an aborted loader swaps the partition later |
| `ReshardCatchUp` | `CaughtUp` | cmd/node/main.go:529 | direct writes to the target make catch-up skip entries |
| `ReshardCompaction` | `CaughtUp` | cmd/node/main.go:529 | a compaction of the source makes the loader skip entries |
| `ReshardFailedLoad` | `RestartKeepsPartition` | README.md:67 | a load that fails after it has put the source's snapshot in the target's directory: the target's next process opens on that |
| `ReshardOldSnapshot` | `TransferExact` | cmd/node/main.go:529 | a source without a snapshot is loaded on top of the target's own: events count twice, offsets disagree |
| `ReshardLostThaw` | `FrozenEnds` | README.md:87 | one lost call leaves the source frozen, and so does the death of the control plane (`LossyCalls = FALSE`, `CpDies = TRUE`) |
| `BreakerLate` | `ReclosesByProbe` | README.md:175 | a late success closes an open breaker |
| `QuorumRefused` | `FailureMeansNoQuorum` | README.md:656 | W copies, but the client is told of a failure |

More are the configurations above or those of passing runs, with a constant or the
property changed:
`Overload` checked for `RateKeptStrictly` (src/README.md:156) shows a request that uses a
bucket which the sweep has dropped, while the next gets a full one; `LogTornTail` with
`Torn = FALSE`, `Ids = {a, b}`, `Threshold = 1`, `MaxAppends = 2` and `MaxRestarts = 1`
violates `DurableHeld` (src/README.md:699) because the truncated WAL is durable before the
snapshot, and with `BigIds = {b}`, `Torn = FALSE` and `PowerLoss = FALSE` it violates
`AckedHeld` (src/README.md:67) because a WAL line beyond 64 KiB hides itself and all
after it;
`LogRestart` checked for `SeenWithinTTL` (internal/log/log_test.go:89, "id within TTL should
be seen") shows an id that is forgotten up to a second before its TTL ends, because
`dedupSet` cuts the time it was added at and the cutoff to seconds, each on its own;
`EpochPowerLoss` with `NodePowerLoss = TRUE` violates `FenceDurable` and
`AdmissionsNeverGoBack` (src/README.md:67), because the fencer syncs its file but not the
directory it renames it in;
`ReshardBuffer` with `Live = FALSE`, checked for `FrozenAppliesNothing`
(internal/reshard/reshard.go:12), shows a write that is applied while the source is frozen;
`ReshardLive` with `CrashInLoad = TRUE` violates `CompleteMeansLoaded` (the target dies
in the middle of a load, its next process says "normal", and the control plane
reports the reshard complete); with `LoadFails = TRUE` it violates
`CompleteMeansLoaded` (a load that failed is reported complete) and, checked alone,
`TransferExact` (a failed `GET /snapshot` is taken for a source without one, and what
the source has compacted is skipped); with `TimesOut = TRUE` it violates
`CompleteMeansLoaded` (a load aborted by hand is reported complete), `TransferExact` (the
aborted loader and the next one share the directory: one opens it after the other
removed the snapshot and before it has renamed the new one there, or sets its own
partition later) and `RestartKeepsPartition` (an aborted loader sets a partition whose
WAL the next one has removed); with `Forgets = TRUE` it violates `TransferExact` (catch-up
applies again what the index has forgotten); `ReshardSync` with `LossyCalls = TRUE`
violates `TransitionsEnd` (the abort is lost, and the source never answers the loader);
and `ReshardFailedLoad` with `LoadFails = FALSE` and
`TargetCompacts = TRUE` violates `RestartKeepsPartition` (the compactor of the replaced
partition overwrites the snapshot and truncates the WAL of the new one).

Where a passing run shows the same property as one of these, its constants
exclude the cause: `AckQuorum` holds with gateway fan-out or without the
idempotency index, `NeverOvercounts` without a crash inside `Compact`,
`TransferExact` with writes to the source only, no load that fails or is aborted, no
compaction of the source during one and none of the target, and nothing forgotten;
`RestartKeepsPartition` likewise, `CompleteMeansLoaded` when loads neither fail nor are
aborted or cut short by a death, `UniqueIssue` and `EpochAuthority`
when `epochs.json` survives, `FenceDurable` and `AdmissionsNeverGoBack` when the node's
epoch file does, `FrozenEnds` and `TransitionsEnd` when calls are not lost and the control
plane lives, `DedupWindow` up to a second, `RingFollows`
but for the nodes that died unknown, `RateKept` up to one request per overtaken
lookup. `RestartKeeps` is stated with the repetitions of an id taken out, which replay
drops: an id accepted again after its TTL, or under `--no-idempotent`.

## 4. Fairness

* `EpochPowerLoss` (`FairSpec`): a bump that holds its mutex returns, tickers
  keep firing, runnable goroutines run. That a poll is answered is assumed:
  `fetchEpoch` has no timeout of its own, so a control plane that accepts and
  never answers stops it. Nothing is said of a control plane that does not start
  because its file is unreadable. Bumps, writes and restarts have no fairness and are
  bounded. `GatewaysCatchUp` says "at least": a gateway keeps the greater epoch
  when a control plane that lost its file comes back with a smaller one.
* `ReshardSync` (`StuckLoaderSpec`): only the control plane's handler is fair; it is a
  loop with a deadline. `TransitionsEnd` claims nothing of a session in which the
  control plane died: its source stays frozen (`ReshardLostThaw`). The loader has
  none, because its `http.Get` may wait for ever: the abort at the deadline is what
  ends the loading.
* `ReshardLostThaw` (`FairSpec`): the loader is fair too, so that only the lost
  call can be the reason for the violation.
* `BreakerSafety` (`FairSpec`): time passes, a request that is out ends (the
  client has a timeout), and clients keep sending: without traffic an open
  breaker stays open.
* `QuorumWrite` (`FairSpec`): the gateway's goroutines run and every call ends by
  its timeout. Nodes handle what reaches them only in the deployment that says
  so (`nodesRun`): `AlwaysAnswered` needs nothing of them, `ReachesRF` is promised
  where they run, and only to the replicas that did not refuse the event and
  that no open breaker of the gateway kept it from, as nothing sends it to
  those again.
* `MembershipLive` (`FairSpec`): timers run out, and the ticker of a prober starts
  probes of each member that is not dead (strongly fair, because the bound on
  probes disables the step now and then; with more than eight members the code
  picks at random). This holds for `Steady`, the observer; the member that asks it for
  help may stop at any time. Nothing is assumed of the network.
* `Overload` (`FairSpec`): the node's handlers and its goroutine run. Gateways,
  clients and the limiter owe nothing.

Deadlock is checked except in `Reshard`, `QuorumWrite` and `Overload`, where every
session and request ends and nothing is left to do, and in `Membership`, where the
last crash may leave nobody to probe.

## 5. What is proved

For all values of the constants (any number of nodes, gateways and requests, any
bounds), from the assumptions named in the modules:

* `EpochFencingProofs!TypeCorrect`. Includes that the fencer's and the store's
  mutexes have one holder.
* `FenceIsDurable`, `FenceIsMonotone`. Neither is inductive alone. The
  strengthening `Fenced` adds that a node's file is never ahead of its memory,
  that the two agree unless a `Check` is between its two halves, and that such a
  `Check` carries the epoch in memory. With it each kind of step is a case:
  `CheckEqual` admits at an epoch that is on file, `CheckPersist` puts it there
  first, a restart falls back to a file that is no older than the last epoch
  admitted. Both assume `~NodePowerLoss`, that no host of a node loses the rename of
  the file. Nothing is assumed of the control plane: the fence holds even if
  epochs are issued twice.
* `ControlPlaneLeads`, `EpochsAreIssuedOnce`, both assuming `~CpPowerLoss`. The
  strengthening `Authority` orders the control plane itself: everything anybody
  holds is at most the epoch on file, the epoch on file is at most the one in
  memory, equal to it while no bump is between its halves, and every epoch
  issued is on file. A bump that returns has raised the memory above the file,
  so above everything issued. `EpochReissue` shows that the assumption is needed.
* `GatewayProofs!BreakerTypeCorrect`, `ProbeIsOut`, `OpensOnlyAfterStreak`. The last
  rests on an invariant that relates the failure count to the streak while the
  breaker is closed.
* `RoutesAlike`. A ring in use (`IsRing`) holds the virtual nodes of its nodes, each
  once, in the order of their hashes. `NewRing`, `AddNode` and `RemoveNode` keep that:
  New's list by induction over the set of nodes (`FoldOverRelates`), the sort because
  the rank of a point tells its place (`Ranks`), Remove because what stays keeps its
  order. A set of points has one such list only (`OnlyOrder`). This rests on
  `RoutingAssumption`: every node has a virtual node, and no two of them one hash.
* `MovesNeighbours`. `TourAhead` says that the walk of Owner and Replicas, with its wrap
  past the last point, meets the points in their clockwise order from the key; so the
  owner's point is the next one (`OwnerIsNext`), whatever else is on the ring. A
  node that joins can only put itself before it (`JoinMoves`). For a node that leaves,
  `NextMetOwns`: the replicas come in the order in which the walk meets their nodes
  first (`MetInTurn`), so that when one goes the first of the others owns the key. If
  the node has no points in front, nothing moves (`DeathMoves`).
* `ReachesReplicas`. `ReplicasAre` gives the list: as long as asked for, without
  repetitions, the owner first; the overload swap only exchanges two places. The
  failover's choice is `NextMetOwns` again, now for the node that is suspected instead
  of gone.
* `CountsOnce`. The invariant `Counting` bounds the nodes counted beside the present owner
  by the number of ring changes, as a change can turn only the old owner into one of
  them, and says what a merge has counted so far if there was none.

* `SequenceFolds`. Log replay, recovery, catch-up, batches and gossip are folds, and
  what a fold computes takes an induction over its sequence. The module proves it
  once, for an operator given as a CONSTANT: the fold of an appended sequence is
  one more application (`FoldAppend`), that of the rest goes on from the first
  (`FoldHead`), it climbs prefix by prefix (`FoldPrefix`), and keeps what the operator
  keeps (`FoldPreserves`). The fold over a finite set, whose elements come in an order
  that is not known, carries a relation between the elements met and the result
  (`FoldOverRelates`). `FoldLeft` is defined by a function on sets of indices,
  which is first shown to exist and to be unique; the induction itself is by a
  least counterexample, as the numbers are well-founded. The proof modules
  instantiate it with `Apply`, `ApplyAgg`, the step of `Replay`, `Hear`, `Meet` and others.
* `ReshardProofs!TypeCorrect`, from `Typed`: besides the types, which partitions exist
  and who holds which, and that a partition's offsets fit (`forgot`, `base` and the
  length of its history are in this order).
* `TransferIsExact` and `RestartKeepsTransfer`, assuming `Undisturbed`: all clients
  write to the source, no GET of a loader fails, no load is aborted, the source does
  not compact during one, the target never does, and no index forgets an id. Lost and
  late calls, the death of the control plane and restarts of both nodes, also in a
  load, are allowed. The core is `ApplyNext`, and `ApplySlice` about the replay of a
  WAL: applying the next entry of a stretch of the source's log to a prefix of it that
  reaches the stretch gives a prefix again, because the index skips what is there and
  the rest is appended in order. Around it stands the inductive invariant `Exact`, in
  parts: the source holds no id twice (`SourceOnce`), nothing is buffered
  (`NothingBuffered`), every partition that the target ever opened is a prefix of the
  source's history (`Copies`), so is the target's directory, at whose end the
  partition stands that writes to it (`Mirrored`), and what a loader has fetched is a
  slice of that history that begins where its partition ends or before (`Placed`). It
  rests on `Alone`: without aborts there is one loader in its load at a time, as a
  second session is refused while the first is loading. That is what makes the single
  steps on the directory safe, and each of the conditions is needed: writes to the
  target (`ReshardCatchUp`), a failed GET, an aborted load and a forgotten id
  (`ReshardLive` with `LoadFails`, `TimesOut` or `Forgets` set to `TRUE`), a
  compaction of the source during a load (`ReshardCompaction`) and one of the target
  (`ReshardOldSnapshot`).
* `LoaderIsThere`. Inductive but for `Shape`, which follows from `Typed`. The
  argument: a step of a session's loader either leaves the target's status alone
  and stays within the states that lead to
  `FinishLoad`, or calls `FinishLoad`; a second session cannot start while the
  first is loading, and an abort ends the loading even when the aborted loader
  runs on.
* `OwnerThaws`, assuming `~LossyCalls`: `FrozenHasOwner` together with
  "only the synchronous path freezes" is inductive. `ReshardLostThaw` shows that
  the assumption is needed. The owner may be a handler that died with the control
  plane: nobody thaws for it.
* `CompleteIsLoaded`, assuming `~LoadFails`, `~TimesOut` and `~CrashInLoad`. The
  argument needs `Alone`, that a loader before `FinishLoad` belongs to the session in the
  target's status, so that there is one at most, and `Polled`, that a session being
  polled has such a loader or one that has set its partition: "normal" leaves only the
  second. Each of
  the three assumptions is needed, as an abort, an error and a death all make the
  status normal without a swap.
* `EventLogProofs` counts: `Count(R, s)` is how many records of a set `R` a sequence holds.
  The window of a query and an id are such sets, so that one induction over each
  of `ApplyAgg`, `RecoverAgg` and `Replay` serves all that follows.
* `WellFormedHolds`, with no assumption: types, no count below zero, and counts that
  agree with their timeline. The strengthening `Sound` says the same of both
  versions of the snapshot (in the page cache and on the platter), so that recovery
  can start from whatever a death leaves, and where the snapshot stands in the log:
  at its base, or at its end inside `Compact` (`Anchored`).
* `NothingOvercounted`, assuming `~CrashInCompact`. `Backed` says that what a process
  counts, and what one would count that started now on the files as they are, or
  as a power loss would leave them, was accepted in the window. Snapshot and
  WAL together hold an event once except inside `Compact`, where a death is
  excluded; `LogCompactCrash` shows that this is needed.
* `RestartIsExact`, assuming `BigIds = {}` and `~Torn`. `Exact` says that replaying the WAL
  gives what replaying the log in memory gives, and that snapshot and WAL together hold
  exactly the aggregate of the window. `LogTornTail` and its
  variation with `BigIds` show what the two assumptions exclude.
* `DedupHolds`, about the TTL less a second (`Recall`). The strengthening `Remembered`
  says that the index holds every event of this process whose second is younger than
  the TTL, with its own second: eviction takes only older ones, and an id enters the
  index only when no younger entry of it is left. Two readings of the clock that lie
  at most `Recall` ticks apart, each cut to seconds, are less than the TTL apart.
  Restarts begin a new process, for which `CompactedStillDeduped` fails
  (`LogDedupRestart`).
* `JournalImplemented`, assuming `BigIds = {}`, `~Torn` and `~CrashInCompact`. The
  mapping takes the log's base and entries as they are; `Append` is `Accept`, an fsync
  `Sync`, the truncation in `Compact` `Trim`, a kill `Reopen`, a host's death
  `LosePower`, and the rest does not show. How many records a power loss cannot take
  (`Firm`) is not a variable of the code: it is the number of synced lines, less the
  lines that the last replay left out as repetitions. The strengthening `Journaled`
  has three parts. `Paired`: each prefix of the WAL replays to what some prefix of the
  log does, and is longer than that by no more than the WAL is longer than the log, so
  that cutting the WAL anywhere cuts the log. `Indexed`: the index holds every record
  that the log shows of a second younger than the TTL, also in a process that has just
  replayed it, which `Remembered` does not say. `Older`: the snapshot that a power
  loss brings back covers no more than the present one. The journal lets a power loss
  put what is left under lower offsets, because the snapshot is renamed but not
  synced; otherwise no step lowers an offset, except that a restart closes the gaps of
  repeated ids.

* `QuorumWriteProofs!TypeCorrect`. Its last conjunct, that a client has its answer
  exactly when its handler is done, is why a request is tried at most twice.
* `AcksAreCopies`, assuming that no deployment replicates from the primary with the
  idempotency index on (`QuorumDuplicate` shows why). The invariant says what an
  "ok" means to each caller: to a gateway that fans out, and to a primary, a copy
  at the node called; to a gateway that asked one primary, W copies. The
  argument counts: the acks of one attempt come from different nodes, so W of
  them are W copies, and W - 1 acks that a primary got from others are W copies
  with its own. Copies are never taken back, so late calls do no harm.
* `OverloadProofs!LimiterTypeCorrect`. There is always a bucket to create, since a
  request holds at most one.
* `LimiterKeepsRate`. `meter` leaks at the rate and so measures the worst period.
  The strengthening `Backed` relates it to what can still be admitted: meter and
  the tokens of the bucket in the map, or of the full one that would be made, are
  at most the burst, but for one token per stray request. A sweep keeps this
  because only full buckets go; a second look under the write lock keeps it
  when two requests create the bucket.
* `LimiterDeniesOnlyExcess`. The strengthening `Granted` is the other side: meter and
  the tokens of any bucket that somebody can use reach the burst, so a bucket
  without a token means a meter that has no room for one.
* `RateUnderLoad` carries both over to `Overload`: its steps are steps of the limiter
  or leave its variables alone, also when one request calls it for two attempts.
* `OverloadProofs!TypeCorrect`, `OnceAccepted`. `QueueInv` has five parts: a waiting
  write is in one place, once (`InOnePlace`: blocked at the channel, in it, in the
  batch, or answered); channel and batch keep their sizes (`Bounded`); the log has
  spoken on a write exactly when its batch has been appended (`Spoken`); the counters
  agree (`Counting`); types. The gateway's "ok" then is an answer of the log, and the
  log holds no id twice, whichever attempt it came from.
* `LedgerImplemented`. The mapping `Effect` takes a call past the shed check as
  pending and the log's verdict, although not sent yet, as its effect. `Apply` is the
  ledger's submission, the one append of `Commit` makes all writes of the batch take
  effect in the batch's order, a query is asked and read as the ledger's `Ask` and
  `Read`, and every other step of gateway, limiter or queue is a stutter. Liveness
  (`AllServed`) is not part of it.
* `MembershipProofs!TypeCorrect`, `DeathIsFinal`. A view can change in three ways only
  (`Unmoved`, `Joins`, `Dies`), whichever of the branches of `HearJoin`, `HearDead` and
  `Declared` is taken, and `FoldPreserves` carries that over a packet. The reason
  behind `DeathIsFinal` is in the types: a join in flight always carries incarnation
  0, since only its subject announces it and never raises its own (`table[m][m].inc
  = 0`), so that the comparison that would bring a dead member back is never true.
* `RingKeepsUp`, for a ring that starts from any peers, assuming `EventCap >= 2 *
  Cardinality(Members)`; the code's 64 serve 32 members. `Followed` says what the ring
  will be once the channel is read: the fold of the watcher over the queued events is
  the set of nodes that belong there (`InRing`): its peers and those that announced an
  HTTP address, without the dead. For this a queued join must be about a member that
  cannot join again, and a queued death about one that is dead; hence no event is
  queued twice, an injection of the queue into `{"join", "dead"} \X Members` without
  the new one bounds its length, and there is room for one more. The members that died
  before their HTTP address was known are the exception the property names
  (`MembershipBlind`).

Model-checked only: the liveness properties (`GatewaysCatchUp`, `TransitionsEnd`,
`Recovers`, `ReachesRF`, `AlwaysAnswered`, `Completeness`, `AllServed`), since liveness
under fairness is outside what the proofs cover. Every safety property of the passing
runs, the two refinements included, is a theorem.

## 6. Not modelled

* Disk errors: the code ignores them at `internal/log/log.go:131` and
  `internal/epoch/epoch.go:53`, and the models assume that writes succeed.
* A power loss during a reshard: the files of `Reshard` are always synced, those of
  `EventLog` are not.
* A freeze or thaw call that arrives after its caller has given up, an abort sent by hand
  to a node that is frozen, and a load that fails after it has opened the directory
  (`partition.Open` panics on a disk error).
* A clock that goes back, and clocks of several machines.
* `TopK` and `Rebuild` of the aggregate (the second is never called).
* The gateway's endpoints that only report (`/ring`, `/health`, `/swim`).
* Time as such: durations appear as the order in which timers may fire.
* The wire format, HTTP parsing and the values of events.
* Benchmarks, demo scripts and Terraform files, which are not part of the running
  system.

## 7. Plan

What was planned is done. The transfer of a partition has no abstract specification of
its own: when nothing disturbs it, there is nothing to say of it that `TransferExact`,
`CompleteMeansLoaded` and `RestartKeepsPartition` do not say of `Reshard` directly. What
would come next is the code's: the disagreements of section 3, each of whose
configurations becomes a passing run when its cause is removed.
