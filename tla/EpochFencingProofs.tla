------------------------- MODULE EpochFencingProofs -------------------------
(***************************************************************************)
(* What holds of EpochFencing for any number of nodes and gateways and for  *)
(* any bounds.  Types hold whatever the disks lose; what concerns a node's  *)
(* epoch file is proved for a node whose disk survives, and the authority   *)
(* of the control plane for a control plane whose disk does.                *)
(***************************************************************************)
EXTENDS EpochFencing, TLAPS

\* Every variable keeps its type and no mutex ever has two holders.
THEOREM TypeCorrect == Spec => []TypeOK
<1> USE ConstantsAssumption
<1>1. Init => TypeOK
  BY DEF Init, TypeOK, Epochs
<1>2. TypeOK /\ [Next]_vars => TypeOK'
  <2> SUFFICES ASSUME TypeOK, [Next]_vars PROVE TypeOK'
    OBVIOUS
  <2> USE DEF TypeOK, Epochs, cpVars, gwVars, nodeVars
  <2>1. ASSUME NEW b \in Bumps, BumpIncrement(b) PROVE TypeOK'
    BY <2>1 DEF BumpIncrement, Readable
  <2>2. ASSUME NEW b \in Bumps, BumpReturn(b) PROVE TypeOK'
    <3>1. bumping' = {}
      BY <2>2 DEF BumpReturn
    <3>2. failedOver' \in [Nodes -> Epochs]
      BY <2>2 DEF BumpReturn, Bumps
    <3>3. replies' \subseteq Gateways \X Epochs
      BY <2>2 DEF BumpReturn, Bumps
    <3>4. requests' \subseteq Requests
      BY <2>2 DEF BumpReturn, Bumps, Requests
    <3> QED
      BY <2>2, <3>1, <3>2, <3>3, <3>4 DEF BumpReturn, Persist
  <2>3. ASSUME WriteBack PROVE TypeOK'
    BY <2>3 DEF WriteBack
  <2>4. ASSUME CpRestart \/ CpFatal PROVE TypeOK'
    <3>1. CASE CpRestart
      BY <3>1 DEF CpRestart
    <3>2. CASE CpFatal
      <4>1. cpUp' = FALSE /\ bumping' = {} /\ restarts' = restarts + 1 /\ restarts < MaxRestarts
            /\ UNCHANGED <<cpMem, cpDisk, cpSynced, issued, failedOver>>
            /\ UNCHANGED <<gwVars, nodeVars, requests>>
        BY <3>2 DEF CpFatal
      <4>2. restarts' \in 0..MaxRestarts
        BY <4>1
      <4> QED
        BY <4>1, <4>2
    <3> QED
      BY <2>4, <3>1, <3>2
  <2>5. ASSUME NEW g \in Gateways, PollFetch(g) PROVE TypeOK'
    BY <2>5 DEF PollFetch
  <2>6. ASSUME NEW g \in Gateways, NEW e \in Epochs, Compare(g, e) PROVE TypeOK'
    BY <2>6 DEF Compare
  <2>7. ASSUME NEW g \in Gateways, NEW e \in Epochs, Store(g, e) PROVE TypeOK'
    BY <2>7 DEF Store
  <2>8. ASSUME NEW g \in Gateways, NEW n \in Nodes, Send(g, n) PROVE TypeOK'
    BY <2>8 DEF Send, Requests
  <2>9. ASSUME NEW g \in Gateways, GatewayRestart(g) PROVE TypeOK'
    BY <2>9 DEF GatewayRestart
  <2>10. ASSUME NEW r \in requests, CheckReject(r) PROVE TypeOK'
    BY <2>10 DEF CheckReject, Requests
  <2>11. ASSUME NEW r \in requests, CheckEqual(r) PROVE TypeOK'
    BY <2>11 DEF CheckEqual, Admit, Requests
  <2>12. ASSUME NEW r \in requests, CheckAdvance(r) PROVE TypeOK'
    <3>1. persisting' \in [Nodes -> {{}} \cup {{q} : q \in Requests}]
      BY <2>12 DEF CheckAdvance, Locked, Requests
    <3> QED
      BY <2>12, <3>1 DEF CheckAdvance, Requests
  <2>13. ASSUME NEW n \in Nodes, NEW r \in persisting[n], CheckPersist(r) PROVE TypeOK'
    <3>1. r \in Requests
      BY <2>13
    <3>2. r.node \in Nodes /\ persisting[r.node] = {r}
      BY <2>13, <3>1 DEF CheckPersist, Requests
    <3>3. persisting[r.node] \ {r} = {}
      BY <3>2
    <3>4. persisting' = [persisting EXCEPT ![r.node] = {}]
      BY <2>13, <3>3 DEF CheckPersist
    <3> QED
      BY <2>13, <3>1, <3>2, <3>4 DEF CheckPersist, FencerPersist, Admit, Requests
  <2>14. ASSUME NEW r \in checked, ApplyWrite(r) PROVE TypeOK'
    BY <2>14 DEF ApplyWrite, Requests
  <2>15. ASSUME NEW n \in Nodes, NodeWriteBack(n) \/ NodeRestart(n) PROVE TypeOK'
    <3>1. CASE NodeWriteBack(n)
      BY <3>1 DEF NodeWriteBack
    <3>2. CASE NodeRestart(n)
      <4>1. PICK e \in Epochs : /\ seen' = [seen EXCEPT ![n] = e]
                                /\ disk' = [disk EXCEPT ![n] = e]
                                /\ platter' \in {platter, [platter EXCEPT ![n] = e]}
        BY <3>2 DEF NodeRestart
      <4> QED
        BY <3>2, <4>1 DEF NodeRestart
    <3> QED
      BY <2>15, <3>1, <3>2
  <2>16. CASE UNCHANGED vars
    BY <2>16 DEF vars
  <2> QED
    BY <2>1, <2>2, <2>3, <2>4, <2>5, <2>6, <2>7, <2>8, <2>9, <2>10, <2>11,
       <2>12, <2>13, <2>14, <2>15, <2>16 DEF Next, CpNext, GwNext, NodeNext
<1> QED
  BY <1>1, <1>2, PTL DEF Spec

-----------------------------------------------------------------------------
\* The inductive form of FenceDurable.  The epoch file may lag behind
\* Fencer.seen only while a Check() holds the mutex, and that Check() is the
\* one whose epoch the file is about to hold.
FencedAt(n) ==
    /\ ~NodePowerLoss => admitted[n] <= disk[n]
    /\ platter[n] <= disk[n] /\ disk[n] <= seen[n]
    /\ ~Locked(n) => disk[n] = seen[n]
    /\ \A r \in persisting[n] : r.node = n /\ r.epoch = seen[n]

Fenced == \A n \in Nodes : FencedAt(n)

\* One step keeps Fenced and takes no node's admitted epoch back.
LEMMA FencedStep ==
    ASSUME TypeOK, TypeOK', Fenced, [Next]_vars
    PROVE  Fenced' /\ (~NodePowerLoss => \A n \in Nodes : admitted'[n] >= admitted[n])
<1> USE ConstantsAssumption DEF TypeOK, Epochs, cpVars, gwVars, nodeVars, Fenced, FencedAt, Locked
<1> DEFINE Goal == Fenced' /\ (~NodePowerLoss => \A n \in Nodes : admitted'[n] >= admitted[n])
<1> SUFFICES Goal
  OBVIOUS
<1>1. ASSUME UNCHANGED nodeVars PROVE Goal
  BY <1>1
<1>2. ASSUME NEW r \in requests, CheckEqual(r) PROVE Goal
  <2>1. r.node \in Nodes /\ r.epoch \in Epochs
    BY DEF Requests
  <2>2. disk[r.node] = seen[r.node] /\ r.epoch = seen[r.node]
    BY <1>2, <2>1 DEF CheckEqual, Stale
  <2> QED
    BY <1>2, <2>1, <2>2 DEF CheckEqual, Admit
<1>3. ASSUME NEW r \in requests, CheckAdvance(r) PROVE Goal
  <2>1. r.node \in Nodes /\ r.epoch \in Epochs
    BY DEF Requests
  <2>2. persisting' = [persisting EXCEPT ![r.node] = {r}]
    BY <1>3, <2>1 DEF CheckAdvance
  <2> QED
    BY <1>3, <2>1, <2>2 DEF CheckAdvance
<1>4. ASSUME NEW m \in Nodes, NEW r \in persisting[m], CheckPersist(r) PROVE Goal
  <2>1. r.node = m /\ r.epoch = seen[m]
    OBVIOUS
  <2>2. persisting[m] = {r}
    OBVIOUS
  <2>3. persisting' = [persisting EXCEPT ![m] = {}]
    BY <1>4, <2>1, <2>2 DEF CheckPersist
  <2> QED
    BY <1>4, <2>1, <2>3 DEF CheckPersist, FencerPersist, Admit
<1>5. ASSUME NEW r \in checked, ApplyWrite(r) PROVE Goal
  BY <1>5 DEF ApplyWrite
<1>6. ASSUME NEW m \in Nodes, NodeWriteBack(m) \/ NodeRestart(m) PROVE Goal
  BY <1>6 DEF NodeWriteBack, NodeRestart
<1>7. CpNext => UNCHANGED nodeVars
  BY DEF CpNext, BumpIncrement, BumpReturn, WriteBack, CpRestart, CpFatal
<1>8. GwNext => UNCHANGED nodeVars
  BY DEF GwNext, PollFetch, Compare, Store, Send, GatewayRestart
<1>9. ASSUME NEW r \in requests, CheckReject(r) PROVE UNCHANGED nodeVars
  BY <1>9 DEF CheckReject
<1>10. UNCHANGED vars => UNCHANGED nodeVars
  BY DEF vars
<1> QED
  BY <1>1, <1>2, <1>3, <1>4, <1>5, <1>6, <1>7, <1>8, <1>9, <1>10 DEF Next, NodeNext

LEMMA FencedAlways == Spec => []Fenced
<1>1. Init => Fenced
  BY DEF Init, Fenced, FencedAt
<1>2. TypeOK /\ TypeOK' /\ Fenced /\ [Next]_vars => Fenced'
  BY FencedStep
<1> QED
  BY <1>1, <1>2, TypeCorrect, PTL DEF Spec

\* While its epoch file survives, no node forgets an epoch it answered "ok" under
\* (Fencer.persist).
THEOREM FenceIsDurable == ASSUME ~NodePowerLoss PROVE Spec => []FenceDurable
<1>1. Fenced => FenceDurable
  BY DEF Fenced, FencedAt, FenceDurable
<1> QED
  BY <1>1, FencedAlways, PTL

\* While its epoch file survives, a node never goes back to an older epoch, across
\* restarts and whatever the control plane loses (Fencer.Check).
THEOREM FenceIsMonotone == ASSUME ~NodePowerLoss PROVE Spec => AdmissionsNeverGoBack
<1>1. TypeOK /\ TypeOK' /\ Fenced /\ [Next]_vars
        => [\A n \in Nodes : admitted'[n] >= admitted[n]]_vars
  BY FencedStep
<1> QED
  BY <1>1, TypeCorrect, FencedAlways, PTL DEF Spec, AdmissionsNeverGoBack

-----------------------------------------------------------------------------
\* The inductive form of EpochAuthority and UniqueIssue.  Memory is one ahead
\* of epochs.json exactly while a bump holds the mutex, when nobody can read
\* it, and every epoch that has left the process is in the file.
Authority ==
    /\ Readable => cpMem = cpDisk
    /\ ~Readable => cpMem = cpDisk + 1
    /\ \A e \in issued : e <= cpDisk
    /\ \A n \in Nodes : seen[n] <= cpDisk
    /\ \A g \in Gateways : gwEpoch[g] <= cpDisk
    /\ \A m \in replies \cup storing : m[2] <= cpDisk
    /\ \A r \in requests \cup checked : r.epoch <= cpDisk

LEMMA AuthorityStep ==
    ASSUME ~CpPowerLoss, TypeOK, TypeOK', Fenced, Authority, [Next]_vars
    PROVE  Authority'
<1> USE DEF TypeOK, Epochs, cpVars, gwVars, nodeVars, Authority, Readable
<1>1. ASSUME NEW b \in Bumps, BumpIncrement(b) PROVE Authority'
  BY <1>1 DEF BumpIncrement
<1>2. ASSUME NEW b \in Bumps, BumpReturn(b) PROVE Authority'
  <2>1. cpDisk' = cpDisk + 1 /\ cpDisk' = cpMem /\ cpMem' = cpMem /\ bumping' = {}
    BY <1>2 DEF BumpReturn, Persist
  <2>2. \A m \in replies' \cup storing' : m[2] <= cpDisk'
    BY <1>2, <2>1 DEF BumpReturn
  <2>3. \A r \in requests' \cup checked' : r.epoch <= cpDisk'
    BY <1>2, <2>1 DEF BumpReturn, Requests
  <2>4. \A e \in issued' : e <= cpDisk'
    BY <1>2, <2>1 DEF BumpReturn
  <2> QED
    BY <1>2, <2>1, <2>2, <2>3, <2>4 DEF BumpReturn
<1>3. ASSUME WriteBack PROVE Authority'
  BY <1>3 DEF WriteBack
<1>4. ASSUME CpRestart \/ CpFatal PROVE Authority'
  BY <1>4 DEF CpRestart, CpFatal
<1>5. ASSUME NEW g \in Gateways, PollFetch(g) PROVE Authority'
  BY <1>5 DEF PollFetch
<1>6. ASSUME NEW g \in Gateways, NEW e \in Epochs, Compare(g, e) PROVE Authority'
  BY <1>6 DEF Compare
<1>7. ASSUME NEW g \in Gateways, NEW e \in Epochs, Store(g, e) PROVE Authority'
  BY <1>7 DEF Store
<1>8. ASSUME NEW g \in Gateways, NEW n \in Nodes, Send(g, n) PROVE Authority'
  BY <1>8 DEF Send
<1>9. ASSUME NEW g \in Gateways, GatewayRestart(g) PROVE Authority'
  BY <1>9 DEF GatewayRestart
<1>10. ASSUME NEW r \in requests, CheckReject(r) PROVE Authority'
  BY <1>10 DEF CheckReject, Requests
<1>11. ASSUME NEW r \in requests, CheckEqual(r) PROVE Authority'
  BY <1>11 DEF CheckEqual, Admit
<1>12. ASSUME NEW r \in requests, CheckAdvance(r) PROVE Authority'
  BY <1>12 DEF CheckAdvance
<1>13. ASSUME NEW n \in Nodes, NEW r \in persisting[n], CheckPersist(r) PROVE Authority'
  <2>1. r.epoch <= cpDisk
    BY DEF Fenced, FencedAt
  <2> QED
    BY <1>13, <2>1 DEF CheckPersist, Admit
<1>14. ASSUME NEW r \in checked, ApplyWrite(r) PROVE Authority'
  BY <1>14 DEF ApplyWrite
<1>15. ASSUME NEW n \in Nodes, NodeWriteBack(n) \/ NodeRestart(n) PROVE Authority'
  BY <1>15 DEF NodeWriteBack, NodeRestart, Fenced, FencedAt
<1>16. CASE UNCHANGED vars
  BY <1>16 DEF vars
<1> QED
  BY <1>1, <1>2, <1>3, <1>4, <1>5, <1>6, <1>7, <1>8, <1>9, <1>10, <1>11,
     <1>12, <1>13, <1>14, <1>15, <1>16 DEF Next, CpNext, GwNext, NodeNext

LEMMA AuthorityAlways == ASSUME ~CpPowerLoss PROVE Spec => []Authority
<1>1. Init => Authority
  BY DEF Init, Authority, Readable
<1>2. TypeOK /\ TypeOK' /\ Fenced /\ Authority /\ [Next]_vars => Authority'
  BY AuthorityStep
<1> QED
  BY <1>1, <1>2, TypeCorrect, FencedAlways, PTL DEF Spec

\* While epochs.json survives, no one is ever ahead of it (epochStore.bump).
THEOREM ControlPlaneLeads == ASSUME ~CpPowerLoss PROVE Spec => []EpochAuthority
<1>1. Authority => EpochAuthority
  BY DEF Authority, EpochAuthority
<1> QED
  BY <1>1, AuthorityAlways, PTL

\* While epochs.json survives, no epoch is issued twice (epochStore.bump).
THEOREM EpochsAreIssuedOnce == ASSUME ~CpPowerLoss PROVE Spec => UniqueIssue
<1>1. TypeOK /\ Authority => \A b \in Bumps : BumpReturn(b) => cpMem \notin issued
  BY DEF TypeOK, Epochs, Authority, Readable, BumpReturn
<1> QED
  BY <1>1, TypeCorrect, AuthorityAlways, PTL DEF UniqueIssue
=============================================================================
