---------------------------- MODULE EpochFencing ----------------------------
(***************************************************************************)
(* Who may write: the epoch that the control plane issues, that gateways    *)
(* stamp on every write (X-Epoch) and that every node's Fencer checks.      *)
(*                                                                          *)
(*   control plane  cmd/controlplane/main.go   epochStore, /epoch/bump,     *)
(*                                             /failover, /reshard          *)
(*   gateway        cmd/gateway/main.go        pollEpoch, bumpEpoch, post   *)
(*   node           internal/epoch/epoch.go    Fencer                       *)
(*                  cmd/node/main.go           checkEpoch, handleEvent,     *)
(*                                             handleReplicate, fan-out     *)
(*                                                                          *)
(* Each lock-protected region that touches a file is two steps (memory,     *)
(* then file), so a crash can fall between them.  The HTTP messages are     *)
(* sets: a lost message is one nobody ever handles, and a message left in   *)
(* its set can be overtaken by any other.                                   *)
(***************************************************************************)
EXTENDS Integers, FiniteSets, TLC

CONSTANTS
    Nodes,          \* partition nodes
    Gateways,       \* gateways, each with its own in-memory epoch
    Peer,           \* sender of a primary's fan-out to /replicate
    Loader,         \* the reshard loader of a node, which calls Fencer.Check
    PrimaryRepl,    \* --primary-replication
    CpPowerLoss,    \* may the control plane's host lose unsynced file writes?
    NodePowerLoss,  \* may a node's host lose a rename of the epoch file?
    MaxEpoch,       \* bound: epochs the control plane issues
    MaxRestarts,    \* bound: restarts of any process
    MaxRequests     \* bound: writes between gateway and apply

ASSUME ConstantsAssumption ==
    /\ PrimaryRepl \in BOOLEAN
    /\ CpPowerLoss \in BOOLEAN
    /\ NodePowerLoss \in BOOLEAN
    /\ MaxEpoch \in Nat
    /\ MaxRestarts \in Nat
    /\ MaxRequests \in Nat
    /\ Peer \notin Gateways
    /\ Loader \notin Gateways
    /\ Peer # Loader

Epochs == 0..MaxEpoch

\* No node is special.
SameNodes == Permutations(Nodes)

\* A call of Fencer.Check on `node`: a write from a gateway, a replica write
\* from a primary, or the load that ends a reshard.
Requests == [from : Gateways \cup {Peer, Loader}, node : Nodes, epoch : Epochs]

\* Callers of epochStore.bump, with the party the call is about.
Bumps == {"bump"} \X Gateways \cup {"failover", "reshard"} \X Nodes

VARIABLES
    \* control plane
    cpUp,       \* FALSE once it found epochs.json unreadable: it does not start again
    cpMem,      \* epochStore.epochs["_default"]
    cpDisk,     \* the epoch in epochs.json
    cpSynced,   \* the epoch in epochs.json that has reached the platter
    bumping,    \* the bump() that holds the mutex, {} or one element
    \* gateways
    gwEpoch,    \* gateway.epoch
    replies,    \* epochs on their way to a gateway: <<gateway, epoch>>
    storing,    \* compared and found newer, not stored yet: <<gateway, epoch>>
    \* nodes
    seen,       \* Fencer.seen
    disk,       \* the epoch file
    platter,    \* the epoch file that a power loss of the host leaves
    persisting, \* the Check() that holds the mutex after f.seen = e, {} or one
    requests,   \* X-Epoch calls that have not been checked
    checked,    \* writes that passed checkEpoch and are not applied yet
    \* bounds and history
    restarts,   \* restarts so far
    issued,     \* epochs bump() has returned to a caller
    failedOver, \* failedOver[n]: last epoch returned by /failover with dead = n
    admitted    \* admitted[n]: epoch of the last Check() on n that returned ok

cpVars   == <<cpUp, cpMem, cpDisk, cpSynced, bumping, issued, failedOver>>
gwVars   == <<gwEpoch, replies, storing>>
nodeVars == <<seen, disk, platter, persisting, checked, admitted>>
vars     == <<cpVars, gwVars, nodeVars, requests, restarts>>

-----------------------------------------------------------------------------
\* Control plane.

\* The mutex is free: current() never sees a half-done bump.
ReadableDirty == TRUE                      \* faulty: current() without RLock
Readable == bumping = {}

\* bump() takes the mutex and increments; the caller is an operator or gateway
\* POST /epoch/bump, a gateway's POST /failover or an operator's POST /reshard.
BumpIncrement(b) ==
    /\ cpUp /\ Readable
    /\ cpMem < MaxEpoch
    /\ cpMem' = cpMem + 1
    /\ bumping' = bumping \cup {b}
    /\ UNCHANGED <<cpUp, cpDisk, cpSynced, issued, failedOver>>
    /\ UNCHANGED <<gwVars, nodeVars, requests, restarts>>

\* persist(): epochs.json is replaced by a rename, but never synced.
PersistLost == UNCHANGED cpDisk            \* faulty: the write is skipped
Persist == cpDisk' = cpMem

\* bump() persists, unlocks and returns.  /epoch/bump answers its gateway;
\* /failover answers a caller that ignores the epoch (notifyFailover);
\* /reshard goes on to send the epoch to the target with /reshard/load.
BumpReturn(b) ==
    /\ b \in bumping
    /\ Persist
    /\ bumping' = bumping \ {b}
    /\ issued' = issued \cup {cpMem}
    /\ failedOver' = IF b[1] = "failover" THEN [failedOver EXCEPT ![b[2]] = cpMem]
                                          ELSE failedOver
    /\ replies' = IF b[1] = "bump" THEN replies \cup {<<b[2], cpMem>>} ELSE replies
    /\ requests' = IF b[1] = "reshard"
                     THEN requests \cup {[from |-> Loader, node |-> b[2], epoch |-> cpMem]}
                     ELSE requests
    /\ UNCHANGED <<cpUp, cpMem, cpSynced, gwEpoch, storing, nodeVars, restarts>>

\* The kernel writes epochs.json back at a time of its own choosing.
WriteBack ==
    /\ CpPowerLoss
    /\ cpSynced' = cpDisk
    /\ UNCHANGED <<cpUp, cpMem, cpDisk, bumping, issued, failedOver>>
    /\ UNCHANGED <<gwVars, nodeVars, requests, restarts>>

\* The control plane dies and loadEpochStore reads epochs.json again; after a
\* power loss the file is the last one that was written back.
CpRestart ==
    /\ cpUp
    /\ restarts < MaxRestarts
    /\ restarts' = restarts + 1
    /\ \E e \in {cpDisk} \cup (IF CpPowerLoss THEN {cpSynced} ELSE {}) :
         /\ cpMem' = e
         /\ cpDisk' = e
         /\ cpSynced' = IF CpPowerLoss THEN e ELSE cpSynced
    /\ bumping' = {}
    /\ UNCHANGED <<cpUp, issued, failedOver, gwVars, nodeVars, requests>>

\* Or the power loss leaves the new epochs.json empty or torn, since its rename may
\* reach the platter before its content: loadEpochStore fails, and main gives up.
CpFatal ==
    /\ cpUp /\ CpPowerLoss
    /\ cpSynced # cpDisk
    /\ restarts < MaxRestarts
    /\ restarts' = restarts + 1
    /\ cpUp' = FALSE
    /\ bumping' = {}
    /\ UNCHANGED <<cpMem, cpDisk, cpSynced, issued, failedOver, gwVars, nodeVars, requests>>

-----------------------------------------------------------------------------
\* Gateways.

\* pollEpoch: GET /epoch takes the mutex for reading.
PollFetch(g) ==
    /\ cpUp /\ Readable
    /\ replies' = replies \cup {<<g, cpMem>>}
    /\ UNCHANGED <<cpVars, gwEpoch, storing, nodeVars, requests, restarts>>

\* e > gw.epoch.Load(): the comparison of pollEpoch, bumpEpoch and post.
NewerByTwo(g, e) == e > gwEpoch[g] + 1     \* faulty: off by one
Newer(g, e) == e > gwEpoch[g]

Compare(g, e) ==
    /\ <<g, e>> \in replies
    /\ replies' = replies \ {<<g, e>>}
    /\ storing' = IF Newer(g, e) THEN storing \cup {<<g, e>>} ELSE storing
    /\ UNCHANGED <<cpVars, gwEpoch, nodeVars, requests, restarts>>

\* gw.epoch.Store(e): a separate atomic, so another goroutine may have stored
\* a larger epoch since the comparison.
Store(g, e) ==
    /\ <<g, e>> \in storing
    /\ gwEpoch' = [gwEpoch EXCEPT ![g] = e]
    /\ storing' = storing \ {<<g, e>>}
    /\ UNCHANGED <<cpVars, replies, nodeVars, requests, restarts>>

\* post: a write, or a retry of one, with the epoch held at this moment.
Send(g, n) ==
    /\ Cardinality(requests \cup checked) < MaxRequests
    /\ requests' = requests \cup {[from |-> g, node |-> n, epoch |-> gwEpoch[g]]}
    /\ UNCHANGED <<cpVars, gwVars, nodeVars, restarts>>

\* A restarted gateway fetches the epoch before it serves, and starts from 0
\* when the control plane does not answer.
GatewayRestart(g) ==
    /\ restarts < MaxRestarts
    /\ restarts' = restarts + 1
    /\ \E e \in {0} \cup (IF cpUp /\ Readable THEN {cpMem} ELSE {}) :
         gwEpoch' = [gwEpoch EXCEPT ![g] = e]
    /\ replies' = {r \in replies : r[1] # g}
    /\ storing' = {r \in storing : r[1] # g}
    /\ UNCHANGED <<cpVars, nodeVars, requests>>

-----------------------------------------------------------------------------
\* Nodes.

\* e < f.seen
StaleByTwo(r) == r.epoch + 1 < seen[r.node]   \* faulty: off by one
Stale(r) == r.epoch < seen[r.node]

\* Another Check() holds the mutex.
NeverLocked(n) == n \notin Nodes           \* faulty: no mutex
Locked(n) == persisting[n] # {}

\* What a caller of Check() does once it returned ok: a write goes on to its
\* handler, the loader is done.
Admit(r) ==
    /\ checked' = IF r.from = Loader THEN checked ELSE checked \cup {r}
    /\ admitted' = [admitted EXCEPT ![r.node] = r.epoch]

\* 409 with the epoch seen; only a gateway learns from it.
CheckReject(r) ==
    /\ r \in requests
    /\ ~Locked(r.node)
    /\ Stale(r)
    /\ requests' = requests \ {r}
    /\ replies' = IF r.from \in Gateways THEN replies \cup {<<r.from, seen[r.node]>>}
                                         ELSE replies
    /\ UNCHANGED <<cpVars, gwEpoch, storing, nodeVars, restarts>>

CheckEqual(r) ==
    /\ r \in requests
    /\ ~Locked(r.node)
    /\ ~Stale(r)
    /\ r.epoch <= seen[r.node]
    /\ requests' = requests \ {r}
    /\ Admit(r)
    /\ UNCHANGED <<cpVars, gwVars, seen, disk, platter, persisting, restarts>>

\* f.seen = e, with the mutex held for the write of the epoch file.
CheckAdvance(r) ==
    /\ r \in requests
    /\ ~Locked(r.node)
    /\ r.epoch > seen[r.node]
    /\ requests' = requests \ {r}
    /\ seen' = [seen EXCEPT ![r.node] = r.epoch]
    /\ persisting' = [persisting EXCEPT ![r.node] = @ \cup {r}]
    /\ UNCHANGED <<cpVars, gwVars, disk, platter, checked, admitted, restarts>>

\* Fencer.persist: the file is synced before the rename, the directory never is.
FencerPersistLost(n) == UNCHANGED disk     \* faulty: the write is skipped
FencerPersist(n) == disk' = [disk EXCEPT ![n] = seen[n]]

CheckPersist(r) ==
    /\ r \in persisting[r.node]
    /\ FencerPersist(r.node)
    /\ persisting' = [persisting EXCEPT ![r.node] = @ \ {r}]
    /\ Admit(r)
    /\ UNCHANGED <<cpVars, gwVars, seen, platter, requests, restarts>>

\* handleEvent or handleReplicate reaches Apply; a primary passes the epoch of
\* the request on to the other replicas (fanOutReplicate).
ApplyWrite(r) ==
    /\ r \in checked
    /\ checked' = checked \ {r}
    /\ requests' = IF PrimaryRepl /\ r.from \in Gateways
                     THEN requests \cup [from : {Peer}, node : Nodes \ {r.node},
                                         epoch : {r.epoch}]
                     ELSE requests
    /\ UNCHANGED <<cpVars, gwVars, seen, disk, platter, persisting, admitted, restarts>>

\* The kernel writes the directory of the epoch file back.
NodeWriteBack(n) ==
    /\ NodePowerLoss
    /\ platter' = [platter EXCEPT ![n] = disk[n]]
    /\ UNCHANGED <<cpVars, gwVars, seen, disk, persisting, checked, admitted, requests, restarts>>

\* A node restarts: epoch.Load reads the file, its handlers are gone.
NodeRestart(n) ==
    /\ restarts < MaxRestarts
    /\ restarts' = restarts + 1
    /\ \E e \in {disk[n]} \cup (IF NodePowerLoss THEN {platter[n]} ELSE {}) :
         /\ seen' = [seen EXCEPT ![n] = e]
         /\ disk' = [disk EXCEPT ![n] = e]
         /\ platter' = IF NodePowerLoss THEN [platter EXCEPT ![n] = e] ELSE platter
    /\ persisting' = [persisting EXCEPT ![n] = {}]
    /\ checked' = {r \in checked : r.node # n}
    /\ UNCHANGED <<cpVars, gwVars, admitted, requests>>

-----------------------------------------------------------------------------
Init ==
    /\ cpUp = TRUE
    /\ cpMem = 0
    /\ cpDisk = 0
    /\ cpSynced = 0
    /\ bumping = {}
    /\ issued = {}
    /\ failedOver = [n \in Nodes |-> 0]
    /\ gwEpoch = [g \in Gateways |-> 0]
    /\ replies = {}
    /\ storing = {}
    /\ seen = [n \in Nodes |-> 0]
    /\ disk = [n \in Nodes |-> 0]
    /\ platter = [n \in Nodes |-> 0]
    /\ persisting = [n \in Nodes |-> {}]
    /\ checked = {}
    /\ admitted = [n \in Nodes |-> 0]
    /\ requests = {}
    /\ restarts = 0

CpNext ==
    \/ \E b \in Bumps : BumpIncrement(b) \/ BumpReturn(b)
    \/ WriteBack
    \/ CpRestart \/ CpFatal

GwNext ==
    \E g \in Gateways :
      \/ PollFetch(g)
      \/ \E e \in Epochs : Compare(g, e) \/ Store(g, e)
      \/ \E n \in Nodes : Send(g, n)
      \/ GatewayRestart(g)

NodeNext ==
    \/ \E r \in requests : CheckReject(r) \/ CheckEqual(r) \/ CheckAdvance(r)
    \/ \E n \in Nodes : \E r \in persisting[n] : CheckPersist(r)
    \/ \E r \in checked : ApplyWrite(r)
    \/ \E n \in Nodes : NodeWriteBack(n) \/ NodeRestart(n)

Next == CpNext \/ GwNext \/ NodeNext

\* Safety needs no fairness.
Spec == Init /\ [][Next]_vars

\* A bump that holds the mutex returns, the poller's ticker keeps firing and a
\* goroutine that is runnable runs.
FairSpec ==
    /\ Spec
    /\ \A b \in Bumps : WF_vars(BumpReturn(b))
    /\ \A g \in Gateways :
         /\ WF_vars(PollFetch(g))
         /\ \A e \in Epochs : WF_vars(Compare(g, e)) /\ WF_vars(Store(g, e))

-----------------------------------------------------------------------------
\* Properties.

\* Every variable has its type, and each mutex has at most one holder: the
\* Fencer's Check and the store's bump never run twice at once.
TypeOK ==
    /\ cpUp \in BOOLEAN
    /\ cpMem \in Epochs
    /\ cpDisk \in Epochs
    /\ cpSynced \in Epochs
    /\ bumping \in {{}} \cup {{b} : b \in Bumps}
    /\ issued \subseteq Epochs
    /\ failedOver \in [Nodes -> Epochs]
    /\ gwEpoch \in [Gateways -> Epochs]
    /\ replies \subseteq Gateways \X Epochs
    /\ storing \subseteq Gateways \X Epochs
    /\ seen \in [Nodes -> Epochs]
    /\ disk \in [Nodes -> Epochs]
    /\ platter \in [Nodes -> Epochs]
    /\ persisting \in [Nodes -> {{}} \cup {{r} : r \in Requests}]
    /\ checked \subseteq Requests
    /\ admitted \in [Nodes -> Epochs]
    /\ requests \subseteq Requests
    /\ restarts \in 0..MaxRestarts

\* The control plane is ahead of everybody, on disk and not only in memory: no
\* gateway, message or node ever holds an epoch that a restarted control plane
\* would not know.  Otherwise nodes would reject every write until the control
\* plane had been bumped past them.
EpochAuthority ==
    /\ \A n \in Nodes : seen[n] <= cpDisk
    /\ \A g \in Gateways : gwEpoch[g] <= cpDisk
    /\ \A m \in replies \cup storing : m[2] <= cpDisk
    /\ \A r \in requests : r.epoch <= cpDisk

\* A node never tells a caller "ok" under an epoch it could forget: the epoch
\* file is at least as new as the last epoch admitted, between any two steps of
\* Check() and across restarts (not across a power loss of the node's host).
FenceDurable == \A n \in Nodes : admitted[n] <= disk[n]

\* The epochs a node admits never go back, whatever gateways, peers and loaders
\* send and in whatever order, across restarts of everybody (Fencer.Check) and power
\* losses of the control plane's host.
AdmissionsNeverGoBack == [][\A n \in Nodes : admitted'[n] >= admitted[n]]_vars

\* bump() never returns the same epoch to two callers, although the process can
\* die between the increment, the write of epochs.json and the answer.
UniqueIssue == [][\A b \in Bumps : BumpReturn(b) => cpMem \notin issued]_vars

\* A gateway's compare-then-store can lose against another goroutine's and take
\* its epoch back; once bumps and restarts stop, polling repairs every gateway.
\* (It can stay ahead of a control plane that lost its file, see EpochAuthority.)
GatewaysCatchUp == <>[](cpUp => \A g \in Gateways : gwEpoch[g] >= cpMem)

\* README.md:71, "A node checks the epoch on each write and rejects one that is
\* behind": a write is never behind the node's own epoch when it is applied.
NeverAppliedBehind == [][\A r \in checked : ApplyWrite(r) => ~Stale(r)]_vars

\* cmd/controlplane/main.go:233, "Bumps epoch to fence the dead node so stale
\* writes from it get rejected": once /failover returned an epoch for a node,
\* that node no longer admits a write with a smaller one.
FailoverFences ==
    [][\A r \in checked' \ checked : r.epoch >= failedOver[r.node]]_vars
=============================================================================
