------------------------------ MODULE EventLog ------------------------------
(***************************************************************************)
(* One partition's durable state: the append-only log with its idempotency *)
(* index (internal/log/log.go), the windowed aggregate built from it       *)
(* (internal/aggregate/aggregate.go) and the goroutine that owns both and   *)
(* recovers them (internal/partition/partition.go, run).                    *)
(*                                                                          *)
(* All of it runs on one goroutine under l.mu, so the only other actors are *)
(* the clock, the fsyncer and the machine.  Every event has a key of its    *)
(* own, so the aggregate counts events by id.  A record is <<id, time>>; an *)
(* AppendBatch is a run of Append steps at one reading of the clock.        *)
(***************************************************************************)
EXTENDS Integers, Sequences, FiniteSets, SequencesExt

CONSTANTS
    Ids,            \* event ids
    BigIds,         \* ids whose WAL line exceeds bufio.Scanner's 64 KiB token
    Idempotent,     \* FALSE under --no-idempotent
    Second,         \* ticks in a second
    TTL,            \* dedupTTL, in seconds
    Window,         \* aggregate window, in ticks
    Threshold,      \* compactThreshold
    CrashInCompact, \* may the process die inside Compact?
    PowerLoss,      \* may the host lose writes that were not synced?
    Torn,           \* may such a loss leave half a line at the end of the WAL?
    MaxTime,        \* bound: clock
    MaxAppends,     \* bound: events accepted
    MaxRestarts     \* bound: restarts

ASSUME LogAssumption ==
    /\ BigIds \subseteq Ids
    /\ {Idempotent, CrashInCompact, PowerLoss, Torn} \subseteq BOOLEAN
    /\ {TTL, Second, Window, Threshold, MaxTime, MaxAppends, MaxRestarts} \subseteq Nat
    /\ Threshold > 0 /\ Second > 0

VARIABLES
    now,        \* time.Now(), in ticks
    \* memory
    base,       \* Log.baseOffset
    entries,    \* Log.entries; the entry at index i has offset base + i - 1
    dedup,      \* dedupSet.at, as a set of <<id, second added>>
    counts,     \* Aggregate.counts, 0 for an absent key
    timeline,   \* Aggregate.timeline
    compacting, \* between the two halves of Compact
    \* files
    wal,        \* the parseable lines of the WAL
    torn,       \* the WAL ends in half a line
    synced,     \* lines of the WAL that are on the platter
    snap,       \* snapshot.json, the zero snapshot when there is none
    snapSynced, \* the version of it that is on the platter
    \* history
    acked,      \* every event accepted: <<id, time, offset answered>>
    booted,     \* Len(acked) when this process started
    durable,    \* events accepted and then synced, when PowerLoss
    restarts

memory  == <<base, entries, dedup, counts, timeline>>
files   == <<wal, torn, synced, snap, snapSynced>>
history == <<acked, booted, durable, restarts>>
vars    == <<now, memory, compacting, files, history>>

IdOf(rec) == rec[1]
At(rec)   == rec[2]

-----------------------------------------------------------------------------
\* What the log implements.  Lines of the WAL whose repeated ids the last Open left
\* out are not in entries; so many fewer entries than synced lines are firm at least.
Firm ==
    LET leftOut == Len(wal) - Len(entries)
    IN IF synced > leftOut THEN synced - leftOut ELSE 0

\* The index cuts two readings of the clock to whole seconds, that of the event and
\* that of its repetition: it keeps an id for a second less than the TTL at least.
Recall == (TTL - 1) * Second

Promise == INSTANCE Journal WITH clock <- now, from <- base, tail <- entries, firm <- Firm

-----------------------------------------------------------------------------
\* Aggregate.

Agg == [counts |-> counts, timeline |-> timeline]
SetAgg(a) == counts' = a.counts /\ timeline' = a.timeline

\* evict: the leading entries of the timeline that are older than the cutoff
\* leave it and give back their counts.
Expired(tl, time) ==
    {i \in DOMAIN tl : \A j \in 1..i : At(tl[j]) < time - Window}
Drop(s, n) == SubSeq(s, n + 1, Len(s))

EvictKeepCount(a, time) ==                 \* faulty: counts are not given back
    [a EXCEPT !.timeline = Drop(@, Cardinality(Expired(@, time)))]
EvictAgg(a, time) ==
    LET old == Expired(a.timeline, time)
    IN [counts   |-> [id \in Ids |-> a.counts[id]
                        - Cardinality({i \in old : IdOf(a.timeline[i]) = id})],
        timeline |-> Drop(a.timeline, Cardinality(old))]

\* Apply: evict at the entry's own time, then count it.
ApplyAgg(a, rec) ==
    [EvictAgg(a, At(rec)) EXCEPT !.counts[IdOf(rec)] = @ + 1,
                                 !.timeline = Append(@, rec)]

\* Snapshot: the aggregate, evicted at the present, under the log's head.
ZeroSnap == [base |-> 0, counts |-> [id \in Ids |-> 0], timeline |-> <<>>]
SnapshotNoTimeline(head) == [base |-> head, counts |-> EvictAgg(Agg, now).counts,
                             timeline |-> <<>>]     \* faulty
Snapshot(head) == [base |-> head, counts |-> EvictAgg(Agg, now).counts,
                   timeline |-> EvictAgg(Agg, now).timeline]

-----------------------------------------------------------------------------
\* The idempotency index.

\* Unix() of a time, and the bucket of a record.
Unix(time) == time \div Second
InBucket(rec) == <<IdOf(rec), Unix(At(rec))>>

\* evict: a bucket goes once the cutoff, cut to seconds as well, has reached it.
EvictDedupEarly(d) == {r \in d : At(r) > Unix(now) - TTL + 1}   \* faulty: off by one
EvictDedup(d) == {r \in d : At(r) > Unix(now) - TTL}

\* add: an id that is still indexed keeps its first time.
AddDedup(d, rec) ==
    IF \E r \in d : IdOf(r) = IdOf(rec) THEN d ELSE d \cup {InBucket(rec)}

\* seen
Seen(id) == \E r \in EvictDedup(dedup) : IdOf(r) = id

-----------------------------------------------------------------------------
\* Log.

LogHead == base + Len(entries)

\* Append accepts the id: a fresh one, or any under --no-idempotent.
Fresh(id) == ~Idempotent \/ ~Seen(id)

\* A line written after half a line becomes part of it and is never parsed.
WriteLine(rec) ==
    /\ wal' = IF torn THEN wal ELSE Append(wal, rec)
    /\ torn' = FALSE
    /\ UNCHANGED <<synced, snap, snapSynced>>

\* run's apply case: Append, and Aggregate.Apply for a fresh event.
AppendEvent(id) ==
    /\ ~compacting
    /\ Len(acked) < MaxAppends
    /\ Fresh(id)
    /\ LET rec == <<id, now>>
       IN /\ entries' = Append(entries, rec)
          /\ dedup' = AddDedup(IF Idempotent THEN EvictDedup(dedup) ELSE dedup, rec)
          /\ WriteLine(rec)
          /\ SetAgg(ApplyAgg(Agg, rec))
          /\ acked' = Append(acked, <<id, now, LogHead>>)
    /\ UNCHANGED <<now, base, compacting, booted, durable, restarts>>

\* Append refuses a repeated id: seen still evicts.
AppendDuplicate(id) ==
    /\ ~compacting
    /\ ~Fresh(id)
    /\ dedup' = EvictDedup(dedup)
    /\ UNCHANGED <<now, base, entries, counts, timeline, compacting, files, history>>

\* Counts and TopK evict at the time of the query.
Query ==
    /\ ~compacting
    /\ SetAgg(EvictAgg(Agg, now))
    /\ UNCHANGED <<now, base, entries, dedup, compacting, files, history>>

AckedSinceBoot == ToSet(SubSeq(acked, booted + 1, Len(acked)))

\* fsyncer
Fsync ==
    /\ PowerLoss
    /\ ~compacting
    /\ synced' = Len(wal)
    /\ durable' = durable \cup AckedSinceBoot
    /\ UNCHANGED <<now, memory, compacting, wal, torn, snap, snapSynced>>
    /\ UNCHANGED <<acked, booted, restarts>>

\* run's compact case, first half of Compact: snapshot.json is replaced by a
\* rename that is not synced.
CompactSnapshot ==
    /\ ~compacting
    /\ Len(entries) >= Threshold
    /\ snap' = Snapshot(LogHead)
    /\ SetAgg(EvictAgg(Agg, now))
    /\ compacting' = TRUE
    /\ UNCHANGED <<now, base, entries, dedup, wal, torn, synced, snapSynced, history>>

\* Second half: the covered entries go, and the WAL is truncated, rewritten
\* with the rest and synced.
RewriteAppends(rest) == wal \o rest        \* faulty: O_APPEND for O_TRUNC
Rewrite(rest) == rest

CompactWal ==
    /\ compacting
    /\ entries' = Drop(entries, snap.base - base)
    /\ base' = snap.base
    /\ wal' = Rewrite(entries')
    /\ torn' = FALSE
    /\ synced' = IF PowerLoss THEN Len(wal') ELSE synced
    /\ durable' = IF PowerLoss THEN durable \cup AckedSinceBoot ELSE durable
    /\ compacting' = FALSE
    /\ UNCHANGED <<now, dedup, counts, timeline, snap, snapSynced>>
    /\ UNCHANGED <<acked, booted, restarts>>

-----------------------------------------------------------------------------
\* Recovery.

\* The scanner stops at the first line it cannot hold.
Scanned(w) ==
    SubSeq(w, 1, Cardinality({i \in DOMAIN w : \A j \in 1..i : IdOf(w[j]) \notin BigIds}))

\* Open keeps the first record of every id.
Replay(w) ==
    FoldLeft(LAMBDA log, rec : IF \E i \in DOMAIN log : IdOf(log[i]) = IdOf(rec)
                                 THEN log ELSE Append(log, rec),
             <<>>, Scanned(w))

\* Open indexes what it keeps.
ReindexNothing(log) == {}                   \* faulty: a new process knows no id
Reindex(log) == EvictDedup({InBucket(rec) : rec \in ToSet(log)})

\* run: the snapshot's aggregate, then every entry of the log.
RecoverAgg(s, log) ==
    FoldLeft(ApplyAgg, [counts |-> s.counts, timeline |-> s.timeline], log)

\* A process that starts on these files.
Boot(w, s) ==
    /\ base' = s.base
    /\ entries' = Replay(w)
    /\ dedup' = Reindex(Replay(w))
    /\ SetAgg(RecoverAgg(s, Replay(w)))
    /\ compacting' = FALSE
    /\ booted' = Len(acked)
    /\ restarts' = restarts + 1
    /\ UNCHANGED <<now, acked, durable>>

\* The process dies; the page cache survives it.
Kill ==
    /\ restarts < MaxRestarts
    /\ compacting => CrashInCompact
    /\ Boot(wal, snap)
    /\ UNCHANGED files

\* The host dies: a suffix of the unsynced lines is gone, the first lost line
\* may be half there, and snapshot.json, which is renamed without a sync, may be the
\* version written back last or unreadable, which LoadSnapshot takes for none.
HostDies ==
    /\ PowerLoss
    /\ restarts < MaxRestarts
    /\ compacting => CrashInCompact
    /\ \E k \in synced..Len(wal) :
         /\ wal' = SubSeq(wal, 1, k)
         /\ torn' \in IF Torn /\ k < Len(wal) THEN BOOLEAN ELSE {torn}
         /\ synced' = k
    /\ snap' \in {snap, snapSynced} \cup (IF snap = snapSynced THEN {} ELSE {ZeroSnap})
    /\ snapSynced' = snap'
    /\ Boot(wal', snap')

SnapWriteBack ==
    /\ PowerLoss
    /\ snapSynced' = snap
    /\ UNCHANGED <<now, memory, compacting, wal, torn, synced, snap, history>>

Tick ==
    /\ now < MaxTime
    /\ now' = now + 1
    /\ UNCHANGED <<memory, compacting, files, history>>

-----------------------------------------------------------------------------
Init ==
    /\ now = 0
    /\ base = 0 /\ entries = <<>> /\ dedup = {}
    /\ counts = ZeroSnap.counts /\ timeline = <<>>
    /\ compacting = FALSE
    /\ wal = <<>> /\ torn = FALSE /\ synced = 0
    /\ snap = ZeroSnap /\ snapSynced = ZeroSnap
    /\ acked = <<>> /\ booted = 0 /\ durable = {} /\ restarts = 0

Next ==
    \/ \E id \in Ids : AppendEvent(id) \/ AppendDuplicate(id)
    \/ Query
    \/ Fsync
    \/ CompactSnapshot
    \/ CompactWal
    \/ Kill
    \/ HostDies
    \/ SnapWriteBack
    \/ Tick

Spec == Init /\ [][Next]_vars

-----------------------------------------------------------------------------
\* Properties.

Records == Ids \X (0..MaxTime)

\* Every variable has its type; a count is never negative, which for the
\* code's uint64 would be a wrap to 2^64 - 1.
TypeOK ==
    /\ now \in 0..MaxTime
    /\ base \in Nat
    /\ entries \in Seq(Records) /\ timeline \in Seq(Records) /\ wal \in Seq(Records)
    /\ dedup \subseteq Ids \X Nat
    /\ counts \in [Ids -> Nat]
    /\ {compacting, torn} \subseteq BOOLEAN
    /\ synced \in 0..Len(wal)
    /\ {snap.base, snapSynced.base} \subseteq Nat
    /\ acked \in Seq(Ids \X (0..MaxTime) \X Nat)
    /\ booted \in 0..Len(acked)
    /\ durable \subseteq ToSet(acked)
    /\ restarts \in 0..MaxRestarts

Occurrences(id, s) == Cardinality({i \in DOMAIN s : IdOf(s[i]) = id})
InWindow(id, s) ==
    Cardinality({i \in DOMAIN s : IdOf(s[i]) = id /\ At(s[i]) >= now - Window})

\* The aggregate's two representations agree through evictions, snapshots and
\* recoveries: each count is the number of its entries in the timeline.
CountsMatchTimeline == \A id \in Ids : counts[id] = Occurrences(id, timeline)

\* What is in memory is of its type and agrees with itself.
WellFormed == TypeOK /\ CountsMatchTimeline

\* What a query reports of the window is never more than what was accepted in
\* the window: recovery does not count an event that the snapshot counts.
NeverOvercounts == \A id \in Ids : InWindow(id, timeline) <= InWindow(id, acked)

\* An event accepted now repeats none of acked[i] that is at most so many ticks old.
NoRepeatOf(i, ticks) ==
    Len(acked') > Len(acked) /\ IdOf(acked[i]) = IdOf(Last(acked'))
      => now - At(acked[i]) > ticks

\* With the idempotency index on, one process does not accept an id twice within
\* the TTL less a second, whatever was evicted or compacted in between and wherever
\* in their seconds the two events fall.
DedupWindow ==
    [][Idempotent => \A i \in booted + 1..Len(acked) : NoRepeatOf(i, Recall)]_vars

\* internal/log/log_test.go:89, "id within TTL should be seen": the same for the
\* whole TTL, of which the truncation can take almost a second.
SeenWithinTTL ==
    [][Idempotent => \A i \in booted + 1..Len(acked) : NoRepeatOf(i, TTL * Second - 1)]_vars

\* A process killed between two operations comes back with the same log, less
\* the repetitions of an id, under the same offsets; and, if no id is repeated in
\* the WAL, with the same counts: snapshot and WAL tail together are exactly the
\* aggregate that was in memory.
RestartKeeps ==
    [][Kill /\ ~compacting =>
         /\ base' = base
         /\ Promise!OnlyFirsts(entries', entries)
         /\ Promise!Firsts(wal) = DOMAIN wal =>
              \A id \in Ids : InWindow(id, timeline') = InWindow(id, timeline)]_vars

\* The log still holds this event: at the offset it was answered with, or
\* compacted away under the base offset.
Holds(a) ==
    /\ a[3] < LogHead
    /\ a[3] >= base => IdOf(entries[a[3] - base + 1]) = IdOf(a)

\* README.md:699, "WAL is fsynced every 100ms, so up to 100ms of writes can be
\* lost on a hard crash": an event that was synced is held after any power loss.
DurableHeld == \A a \in durable : Holds(a)

\* README.md:67, "Log entries are never overwritten. Node state persists across
\* restarts via the on-disk WAL, snapshot, and epoch file": an event stays in
\* the log at the offset its writer was told.
AckedHeld == \A i \in DOMAIN acked : Holds(acked[i])

\* internal/log/log_test.go:79, "replay of compacted-but-still-fresh id should
\* be deduped": an id still kept is not accepted again, by this or a later process.
CompactedStillDeduped ==
    [][\A i \in DOMAIN acked : NoRepeatOf(i, Recall)]_vars

\* The log implements the journal, whose records its handlers answer with offsets and
\* its readers fetch by them, through compactions, deaths and losses of power.
ImplementsJournal == Promise!Spec
=============================================================================
