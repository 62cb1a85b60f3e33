---------------------------- MODULE ReshardProofs ----------------------------
(***************************************************************************)
(* Theorems about Reshard, for any number of events, writes, sessions and  *)
(* restarts.  In this order:                                                *)
(*                                                                          *)
(*   - the types, from the inductive invariant Typed;                       *)
(*   - whoever is frozen or loading is so on behalf of an actor that will   *)
(*     end it, and one load runs at a time when none is aborted (Alone);    *)
(*   - a transfer that nothing disturbs is exact, from Alone and the        *)
(*     inductive invariant Exact.  Its core are ApplyNext, for a loader     *)
(*     that applies one entry, and ApplySlice, for a partition.Open that     *)
(*     replays a WAL: a stretch of the source's log, applied to a prefix    *)
(*     that reaches it, gives a longer prefix.                              *)
(*                                                                          *)
(* What a list of Applies computes is a fold, about which SequenceFolds     *)
(* proves by induction what is used here.                                   *)
(***************************************************************************)
EXTENDS Reshard, TLAPS

\* The folds of Apply over a list of events.
Applying == INSTANCE SequenceFolds WITH Op <- ApplyTo

\* What a partition is made of.
Part == [hist : Seq(Ids), base : Nat, forgot : Nat]

\* What a partition can become by events applied to it.
Extensions(p) ==
    {q \in Part : /\ q.base = p.base /\ q.forgot = p.forgot
                  /\ Len(p.hist) <= Len(q.hist)
                  /\ \A i \in 1..Len(p.hist) : q.hist[i] = p.hist[i]}

\* Apply of each of some events.
ApplyAll(p, ids) == FoldLeft(ApplyTo, p, ids)

\* ApplyAll is the fold that SequenceFolds proves things about.
LEMMA ApplyAllIsFold == \A p, ids : ApplyAll(p, ids) = Applying!Fold(p, ids)
  BY DEF ApplyAll, Applying!Fold, FoldLeft, Applying!FoldLeft, MapThenFoldSet,
         Applying!MapThenFoldSet, Max, Applying!Max

\* One Append behind Apply: an id the index knows changes nothing, any other
\* one goes to the end.
LEMMA ApplyToExtends ==
  ASSUME NEW p \in Part, NEW id \in Ids
  PROVE  /\ ApplyTo(p, id) \in Extensions(p)
         /\ Indexed(p, id) => ApplyTo(p, id) = p
         /\ ~Indexed(p, id) => ApplyTo(p, id).hist = Append(p.hist, id)
<1>1. p \in Extensions(p)
  BY DEF Extensions, Part
<1>2. CASE ~Indexed(p, id)
  <2> DEFINE q == [p EXCEPT !.hist = Append(@, id)]
  <2>1. ApplyTo(p, id) = q
    BY <1>2 DEF ApplyTo
  <2>2. /\ q.hist = Append(p.hist, id) /\ q.base = p.base /\ q.forgot = p.forgot
        /\ q \in Part
    BY DEF Part
  <2>3. p.hist \in Seq(Ids)
    BY DEF Part
  <2>4. /\ Len(p.hist) <= Len(Append(p.hist, id))
        /\ \A i \in 1..Len(p.hist) : Append(p.hist, id)[i] = p.hist[i]
    BY <2>3
  <2> HIDE DEF q
  <2> QED
    BY <1>2, <2>1, <2>2, <2>4 DEF Extensions
<1> QED
  BY <1>1, <1>2 DEF ApplyTo

\* Applying any events extends a partition, and changes nothing of what it had.
LEMMA ApplyAllExtends ==
  ASSUME NEW p \in Part, NEW ids \in Seq(Ids)
  PROVE  ApplyAll(p, ids) \in Extensions(p)
<1> DEFINE T == Extensions(p)
<1>1. p \in T
  BY DEF Extensions, Part
<1>2. ASSUME NEW x \in T, NEW e \in Ids PROVE ApplyTo(x, e) \in T
  <2>1. x \in Part
    BY DEF Extensions
  <2>2. ApplyTo(x, e) \in Extensions(x)
    BY <2>1, ApplyToExtends
  <2>3. Len(p.hist) \in Nat /\ Len(x.hist) \in Nat /\ Len(ApplyTo(x, e).hist) \in Nat
    BY <2>1, <2>2 DEF Extensions, Part
  <2> QED
    BY <2>2, <2>3 DEF Extensions
<1> HIDE DEF T
<1>3. Applying!Fold(p, ids) \in T
  BY <1>1, <1>2, Applying!FoldPreserves
<1> QED
  BY <1>3, ApplyAllIsFold DEF T

\* The offsets of a partition fit.
Sound == {p \in Part : p.forgot <= Len(p.hist) /\ p.base <= Len(p.hist)}

\* What a loader goroutine holds.
LoaderType == [pc : PCs.loader, base : Nat, fetched : Seq(Ids), drained : Seq(Ids),
               part : Nat, asOf : Nat]

\* TypeOK, the strengthening that is inductive: with the types of what TypeOK
\* leaves open, and who holds which partition.
DataTyped ==
    /\ parts \in Seq(Sound)
    /\ cur \in 2..Len(parts)
    /\ disk \in [snap : Seq(Ids), wal : Seq(Ids), open : SUBSET (2..Len(parts))]

StatusTyped ==
    /\ status \in [Nodes -> {"normal", "frozen", "loading"}]
    /\ session \in [Nodes -> Sessions \cup {""}]
    /\ \A n \in Nodes : status[n] = "normal" <=> session[n] = ""

ActorsTyped ==
    /\ buffer \in Seq(Ids)
    /\ handler \in [Writes -> [pc : PCs.handler, part : Nat]]
    /\ loader \in [Sessions -> LoaderType]
    /\ operator \in [Sessions -> PCs.operator]
    /\ restarts \in 0..MaxRestarts

\* Where a loader holds a partition.
Holding == {"fill", "catchup", "caught", "done"}

\* Who holds a partition holds one that is there: the source's is the first.
Holds ==
    /\ \A w \in Writes : handler[w].pc = "applying" =>
         handler[w].part \in IF w[2] = Source THEN {1} ELSE 2..Len(parts)
    /\ \A s \in Sessions : loader[s].pc \in Holding => loader[s].part \in 2..Len(parts)

Typed == DataTyped /\ StatusTyped /\ ActorsTyped /\ Holds

\* A sound partition stays sound.
LEMMA ExtensionSound == ASSUME NEW p \in Sound, NEW q \in Extensions(p) PROVE q \in Sound
<1>1. Len(p.hist) \in Nat /\ Len(q.hist) \in Nat /\ p \in Part /\ q \in Part
  BY DEF Sound, Extensions, Part
<1>2. q.base \in Nat /\ q.forgot \in Nat /\ p.base \in Nat /\ p.forgot \in Nat
  BY <1>1 DEF Part
<1> QED
  BY <1>1, <1>2 DEF Sound, Extensions

\* Apply on partition k: what it does to the partitions and to the directory.
LEMMA ApplyInEffect ==
  ASSUME DataTyped, NEW k \in 1..Len(parts), NEW id \in Ids, ApplyIn(k, id)
  PROVE  /\ parts' \in Seq(Sound) /\ Len(parts') = Len(parts)
         /\ parts'[k] = ApplyTo(parts[k], id)
         /\ parts'[k] \in Extensions(parts[k])
         /\ \A j \in 1..Len(parts) : j # k => parts'[j] = parts[j]
         /\ disk' \in [snap : Seq(Ids), wal : Seq(Ids), open : SUBSET (2..Len(parts))]
         /\ disk'.snap = disk.snap /\ disk'.open = disk.open
         /\ disk'.wal = IF k \in disk.open /\ ~Indexed(parts[k], id)
                          THEN Append(disk.wal, id) ELSE disk.wal
         /\ k \notin disk.open => disk' = disk
<1> DEFINE p == ApplyTo(parts[k], id)
<1>1. parts[k] \in Sound /\ parts[k] \in Part
  BY DEF DataTyped, Sound
<1>2. p \in Extensions(parts[k]) /\ p \in Sound
  BY <1>1, ApplyToExtends, ExtensionSound
<1>3. parts' = [parts EXCEPT ![k] = p]
  BY DEF ApplyIn, DataTyped
<1> HIDE DEF p
<1>4. /\ parts' \in Seq(Sound) /\ Len(parts') = Len(parts) /\ parts'[k] = p
      /\ \A j \in 1..Len(parts) : j # k => parts'[j] = parts[j]
  BY <1>2, <1>3 DEF DataTyped
<1>5. disk' = IF k \in disk.open /\ ~Indexed(parts[k], id)
                THEN [disk EXCEPT !.wal = Append(@, id)] ELSE disk
  BY DEF ApplyIn
<1>6. Append(disk.wal, id) \in Seq(Ids)
  BY DEF DataTyped
<1>7. /\ disk' \in [snap : Seq(Ids), wal : Seq(Ids), open : SUBSET (2..Len(parts))]
      /\ disk'.snap = disk.snap /\ disk'.open = disk.open
      /\ disk'.wal = IF k \in disk.open /\ ~Indexed(parts[k], id)
                       THEN Append(disk.wal, id) ELSE disk.wal
  BY <1>5, <1>6 DEF DataTyped
<1> QED
  BY <1>2, <1>4, <1>5, <1>7 DEF p

\* The two nodes of a reshard.
LEMMA NodesDiffer == Source \in Nodes /\ Target \in Nodes /\ Source # Target
  BY ReshardAssumption DEF Nodes

\* What partition.Open returns of a directory is sound.
LEMMA OpenedSound ==
  ASSUME NEW d, d.snap \in Seq(Ids), d.wal \in Seq(Ids)
  PROVE  /\ NewPart(d.snap, Len(d.snap)) \in Sound
         /\ Opened(d) \in Extensions(NewPart(d.snap, Len(d.snap)))
         /\ Opened(d) \in Sound
<1>1. Len(d.snap) \in Nat
  OBVIOUS
<1>2. NewPart(d.snap, Len(d.snap)) \in Sound
  BY <1>1 DEF NewPart, Sound, Part
<1>3. NewPart(d.snap, Len(d.snap)) \in Part
  BY <1>2 DEF Sound
<1> QED
  BY <1>2, <1>3, ApplyAllExtends, ExtensionSound DEF Opened, ApplyAll

\* A write handler keeps the types ...
LEMMA HandlerTyped ==
  ASSUME Typed, NEW w \in Writes, HandlerStep(w)
  PROVE  Typed'
<1> USE NodesDiffer
<1>0. w[1] \in Ids /\ w[2] \in Nodes
  BY ReshardAssumption
<1>1. CASE CheckFrozen(w)
  BY <1>1 DEF CheckFrozen, state, data, Typed, DataTyped, StatusTyped, ActorsTyped, Holds, PCs
<1>2. CASE CheckLoading(w)
  BY <1>2 DEF CheckLoading, state, data, Typed, DataTyped, StatusTyped, ActorsTyped, Holds, PCs
<1>5. CASE GetPartition(w)
  <2>1. UNCHANGED <<state, buffer, data, loader, operator, restarts>>
    BY <1>5 DEF GetPartition
  <2>2. PartOf(w[2]) \in IF w[2] = Source THEN {1} ELSE 2..Len(parts)
    BY DEF PartOf, Typed, DataTyped
  <2>3. Len(parts) \in Nat
    BY DEF Typed, DataTyped
  <2>4. PartOf(w[2]) \in Nat
    BY <2>2, <2>3
  <2>5. handler' \in [Writes -> [pc : PCs.handler, part : Nat]]
    BY <1>5, <2>4 DEF GetPartition, Typed, ActorsTyped, PCs
  <2>6. \A v \in Writes : handler'[v].pc = "applying" =>
          handler'[v].part \in IF v[2] = Source THEN {1} ELSE 2..Len(parts)
    BY <1>5, <2>2 DEF GetPartition, Typed, ActorsTyped, Holds
  <2> QED
    BY <2>1, <2>5, <2>6
       DEF state, data, Typed, DataTyped, StatusTyped, ActorsTyped, Holds
<1>3. CASE BufferWrite(w)
  <2>1. buffer' \in Seq(Ids)
    BY <1>0, <1>3 DEF BufferWrite, Typed, ActorsTyped
  <2> QED
    BY <1>3, <2>1
       DEF BufferWrite, state, data, Typed, DataTyped, StatusTyped, ActorsTyped, Holds, PCs
<1>4. CASE ApplyWrite(w)
  <2>1. handler[w].part \in 1..Len(parts)
    BY <1>0, <1>4 DEF ApplyWrite, Typed, DataTyped, Holds
  <2>2. DataTyped' /\ Len(parts') = Len(parts)
    BY <1>0, <1>4, <2>1, ApplyInEffect DEF ApplyWrite, Typed, DataTyped
  <2> QED
    BY <1>4, <2>2 DEF ApplyWrite, state, Typed, StatusTyped, ActorsTyped, Holds, PCs
<1> QED
  BY <1>1, <1>2, <1>3, <1>4, <1>5 DEF HandlerStep

\* A loader's record keeps its type under what its steps do to it ...
LEMMA LoaderTyped ==
  ASSUME NEW s \in Sessions, loader \in [Sessions -> LoaderType],
         NEW l \in LoaderType, loader' = [loader EXCEPT ![s] = l]
  PROVE  /\ loader' \in [Sessions -> LoaderType]
         /\ loader'[s] = l
         /\ \A t \in Sessions : t # s => loader'[t] = loader[t]
  OBVIOUS

\* ... and so does the state, when one loader moves and what else it changes has
\* its type.
LEMMA MoveTyped ==
  ASSUME Typed, NEW s \in Sessions, NEW l \in LoaderType, loader' = [loader EXCEPT ![s] = l],
         DataTyped', Len(parts) <= Len(parts'), StatusTyped', buffer' \in Seq(Ids),
         UNCHANGED <<handler, restarts>>, operator' \in [Sessions -> PCs.operator],
         l.pc \in Holding => l.part \in 2..Len(parts')
  PROVE  Typed'
<1>1. /\ loader' \in [Sessions -> LoaderType] /\ loader'[s] = l
      /\ \A t \in Sessions : t # s => loader'[t] = loader[t]
  BY LoaderTyped DEF Typed, ActorsTyped
<1>2. Len(parts) \in Nat /\ Len(parts') \in Nat
  BY DEF Typed, DataTyped
<1>3. \A k \in 2..Len(parts) : k \in 2..Len(parts')
  BY <1>2
<1>4. Holds'
  BY <1>1, <1>3 DEF Typed, Holds
<1>5. ActorsTyped'
  BY <1>1 DEF Typed, ActorsTyped
<1> QED
  BY <1>4, <1>5 DEF Typed

\* The same when it does nothing but move.
LEMMA GoToTyped ==
  ASSUME Typed, NEW s \in Sessions, NEW pc \in PCs.loader, GoTo(s, pc),
         DataTyped', Len(parts) <= Len(parts'), StatusTyped', buffer' \in Seq(Ids),
         UNCHANGED <<handler, restarts>>, operator' \in [Sessions -> PCs.operator],
         pc \in Holding => loader[s].part \in 2..Len(parts')
  PROVE  Typed'
<1> DEFINE l == [loader[s] EXCEPT !.pc = pc]
<1>1. loader[s] \in LoaderType /\ loader \in [Sessions -> LoaderType]
  BY DEF Typed, ActorsTyped
<1>2. l \in LoaderType /\ l.pc = pc /\ l.part = loader[s].part
  BY <1>1 DEF LoaderType
<1>3. loader' = [loader EXCEPT ![s] = l]
  BY <1>1 DEF GoTo
<1> HIDE DEF l
<1> QED
  BY <1>2, <1>3, MoveTyped

\* What of the types UNCHANGED keeps.
LEMMA SameTyped ==
  ASSUME Typed
  PROVE  /\ UNCHANGED data => DataTyped' /\ Len(parts) <= Len(parts')
         /\ UNCHANGED state => StatusTyped'
         /\ UNCHANGED buffer => buffer' \in Seq(Ids)
         /\ UNCHANGED operator => operator' \in [Sessions -> PCs.operator]
<1>1. UNCHANGED data => DataTyped' /\ Len(parts) <= Len(parts')
  BY DEF data, Typed, DataTyped
<1>2. UNCHANGED state => StatusTyped'
  BY DEF state, Typed, StatusTyped
<1> QED
  BY <1>1, <1>2 DEF Typed, ActorsTyped

\* FinishLoad, Thaw and the calls that begin a transition keep it set exactly
\* while a node has a session.
LEMMA StatusSet ==
  ASSUME Typed, NEW n \in Nodes, NEW s \in Sessions
  PROVE  /\ SetStatus(n, "normal", "") => StatusTyped'
         /\ SetStatus(n, "frozen", s) => StatusTyped'
         /\ SetStatus(n, "loading", s) => StatusTyped'
<1>1. s # ""
  BY ReshardAssumption
<1> QED
  BY <1>1 DEF SetStatus, Typed, StatusTyped

\* StartLoad starts the goroutine.
LEMMA StartTyped ==
  ASSUME Typed, NEW s \in Sessions, StartLoad(Target, s), GoTo(s, "snapshot"),
         UNCHANGED <<data, handler, restarts>>, operator' \in [Sessions -> PCs.operator]
  PROVE  Typed'
<1>1. loader[s] \in LoaderType
  BY DEF Typed, ActorsTyped
<1>2. [loader[s] EXCEPT !.pc = "snapshot"] \in LoaderType
      /\ [loader[s] EXCEPT !.pc = "snapshot"].pc \notin Holding
  BY <1>1, ZenonT(30) DEF LoaderType, PCs, Holding
<1>3. loader' = [loader EXCEPT ![s] = [loader[s] EXCEPT !.pc = "snapshot"]]
  BY DEF GoTo, Typed, ActorsTyped
<1>4. StatusTyped' /\ buffer' \in Seq(Ids)
  <2>1. SetStatus(Target, "loading", s) /\ buffer' = <<>>
    BY DEF StartLoad
  <2> QED
    <3>1. Target \in Nodes
      BY NodesDiffer
    <3>2. StatusTyped'
      BY <2>1, <3>1, StatusSet
    <3>3. buffer' \in Seq(Ids)
      BY <2>1
    <3> QED
      BY <3>2, <3>3
<1>5. DataTyped' /\ Len(parts) <= Len(parts')
  BY SameTyped
<1> QED
  BY <1>2, <1>3, <1>4, <1>5, MoveTyped

\* ... so does the control plane, with the calls that are lost or late ...
LEMMA OperatorTyped ==
  ASSUME Typed, NEW s \in Sessions, OperatorStep(s)
  PROVE  Typed'
<1> USE NodesDiffer
<1>0. s # ""
  BY ReshardAssumption
<1>1. CASE BeginFreeze(s)
  <2>1. UNCHANGED <<buffer, data, handler, loader, restarts>>
    BY <1>1 DEF BeginFreeze
  <2>2. Freeze(Source, s) \/ UNCHANGED <<status, session>>
    BY <1>1 DEF BeginFreeze
  <2>3. \E pc \in PCs.operator : Step(s, pc)
    BY <1>1 DEF BeginFreeze, PCs
  <2>4. StatusTyped'
    BY <1>0, <2>2 DEF Freeze, SetStatus, Typed, StatusTyped
  <2>5. operator' \in [Sessions -> PCs.operator]
    BY <2>3 DEF Step, Typed, ActorsTyped
  <2> QED
    BY <2>1, <2>4, <2>5 DEF data, Typed, DataTyped, ActorsTyped, Holds
<1>2. CASE BeginLoad(s)
  <2>1. UNCHANGED <<data, handler, restarts>>
    BY <1>2 DEF BeginLoad
  <2>2. operator' \in [Sessions -> PCs.operator]
    BY <1>2 DEF BeginLoad, Step, Typed, ActorsTyped, PCs
  <2>3. CASE StartLoad(Target, s) /\ GoTo(s, "snapshot")
    BY <2>1, <2>2, <2>3, StartTyped
  <2>4. CASE UNCHANGED <<state, buffer, loader>>
    BY <2>1, <2>2, <2>4 DEF state, data, Typed, DataTyped, StatusTyped, ActorsTyped, Holds
  <2>5. CASE UNCHANGED <<state, buffer>> /\ GoTo(s, "called")
    <3>1. loader[s] \in LoaderType
      BY DEF Typed, ActorsTyped
    <3>2. [loader[s] EXCEPT !.pc = "called"] \in LoaderType
          /\ [loader[s] EXCEPT !.pc = "called"].pc \notin Holding
      BY <3>1, ZenonT(30) DEF LoaderType, PCs, Holding
    <3>3. loader' = [loader EXCEPT ![s] = [loader[s] EXCEPT !.pc = "called"]]
      BY <2>5 DEF GoTo, Typed, ActorsTyped
    <3> QED
      BY <2>1, <2>2, <2>5, <3>2, <3>3, MoveTyped, SameTyped
  <2> QED
    BY <1>2, <2>3, <2>4, <2>5 DEF BeginLoad
<1>3. CASE PollNormal(s)
  BY <1>3
     DEF PollNormal, Step, state, data, Typed, DataTyped, StatusTyped, ActorsTyped, Holds, PCs
<1>4. CASE PollTimeout(s)
  <2>1. UNCHANGED <<buffer, data, handler, loader, restarts>>
    BY <1>4 DEF PollTimeout
  <2>2. StatusTyped'
    BY <1>4, StatusSet, SameTyped DEF PollTimeout, FinishLoad, state
  <2>3. operator' \in [Sessions -> PCs.operator]
    BY <1>4 DEF PollTimeout, Step, Typed, ActorsTyped, PCs
  <2> QED
    BY <2>1, <2>2, <2>3 DEF data, Typed, DataTyped, ActorsTyped, Holds
<1>5. CASE ThawSource(s)
  BY <1>5
     DEF ThawSource, Thaw, SetStatus, Step, state, data, Typed, DataTyped, StatusTyped, ActorsTyped, Holds, PCs
<1> QED
  BY <1>1, <1>2, <1>3, <1>4, <1>5 DEF OperatorStep

\* A call that arrives late starts the goroutine, or is refused.
LEMMA LateTyped ==
  ASSUME Typed, NEW s \in Sessions, LateLoad(s)
  PROVE  Typed'
<1>1. UNCHANGED <<data, handler, operator, restarts>> /\ operator' \in [Sessions -> PCs.operator]
  BY DEF LateLoad, Typed, ActorsTyped
<1>2. CASE StartLoad(Target, s) /\ GoTo(s, "snapshot")
  BY <1>1, <1>2, StartTyped
<1>3. CASE GoTo(s, "idle") /\ UNCHANGED <<state, buffer>>
  <2>1. loader[s] \in LoaderType
    BY DEF Typed, ActorsTyped
  <2>2. [loader[s] EXCEPT !.pc = "idle"] \in LoaderType
        /\ [loader[s] EXCEPT !.pc = "idle"].pc \notin Holding
    BY <2>1, ZenonT(30) DEF LoaderType, PCs, Holding
  <2>3. loader' = [loader EXCEPT ![s] = [loader[s] EXCEPT !.pc = "idle"]]
    BY <1>3 DEF GoTo, Typed, ActorsTyped
  <2> QED
    BY <1>1, <1>3, <2>2, <2>3, MoveTyped, SameTyped
<1> QED
  BY <1>2, <1>3 DEF LateLoad

\* ... whoever aborts by hand, and the control plane's death.
LEMMA OutsideTyped ==
  ASSUME Typed, AbortByHand \/ ControlPlaneDies
  PROVE  Typed'
<1>1. CASE AbortByHand
  <2>1. StatusTyped'
    <3>1. SetStatus(Target, "normal", "")
      BY <1>1 DEF AbortByHand, FinishLoad
    <3> QED
      BY <3>1 DEF SetStatus, Typed, StatusTyped
  <2> QED
    BY <1>1, <2>1 DEF AbortByHand, data, Typed, DataTyped, ActorsTyped, Holds
<1>2. CASE ControlPlaneDies
  <2>1. operator' \in [Sessions -> PCs.operator]
    BY <1>2 DEF ControlPlaneDies, Typed, ActorsTyped, PCs
  <2> QED
    BY <1>2, <2>1
       DEF ControlPlaneDies, state, data, Typed, DataTyped, StatusTyped, ActorsTyped, Holds
<1> QED
  BY <1>1, <1>2

\* Log.Since returns events.
LEMMA SinceTyped ==
  ASSUME NEW p \in Part, NEW from \in Nat
  PROVE  Since(p, from) \in Seq(Ids)
<1> DEFINE m == (IF from < p.base THEN p.base ELSE from) + 1
<1>1. p.hist \in Seq(Ids) /\ p.base \in Nat
  BY DEF Part
<1>2. m \in Nat /\ m >= 1
  BY <1>1
<1> HIDE DEF m
<1>3. SubSeq(p.hist, m, Len(p.hist)) \in Seq(Ids)
  BY <1>1, <1>2
<1> QED
  BY <1>3 DEF Since, m

\* What the types say of the source.
LEMMA SourceSound ==
  ASSUME DataTyped
  PROVE  /\ parts[1] \in Sound /\ parts[1] \in Part /\ SourceLog \in Seq(Ids)
         /\ parts[1].base \in Nat /\ parts[1].base <= Len(SourceLog) /\ Len(SourceLog) \in Nat
         /\ Len(parts) \in Nat /\ Len(parts) >= 2
<1>1. Len(parts) \in Nat /\ Len(parts) >= 2
  BY DEF DataTyped
<1>2. parts[1] \in Sound
  BY <1>1 DEF DataTyped
<1> QED
  BY <1>1, <1>2 DEF Sound, Part, SourceLog

\* GET /log stores events.
LEMMA FetchedTyped ==
  ASSUME Typed, NEW s \in Sessions, NEW from \in Nat, NEW pc \in {"remove", "caught"},
         Fetched(s, from, pc), UNCHANGED <<state, buffer, data, handler, operator, restarts>>,
         pc \in Holding => loader[s].part \in 2..Len(parts)
  PROVE  Typed'
<1> DEFINE l == [loader[s] EXCEPT !.fetched = Since(parts[1], from),
                                  !.asOf = Len(SourceLog), !.pc = pc]
<1>0. loader[s] \in LoaderType /\ DataTyped /\ loader \in [Sessions -> LoaderType]
  BY DEF Typed, ActorsTyped
<1>1. Since(parts[1], from) \in Seq(Ids)
  BY <1>0, SourceSound, SinceTyped
<1>2. l \in LoaderType /\ l.pc = pc /\ l.part = loader[s].part
  BY <1>0, <1>1, SourceSound DEF LoaderType, PCs
<1>3. loader' = [loader EXCEPT ![s] = l]
  BY <1>0 DEF Fetched
<1>4. parts' = parts
  BY DEF data
<1> HIDE DEF l
<1> QED
  BY <1>2, <1>3, <1>4, MoveTyped, SameTyped

\* ... a loader ...
LEMMA LoaderStepTyped ==
  ASSUME Typed, NEW s \in Sessions, LoaderStep(s)
  PROVE  Typed'
<1> USE NodesDiffer
<1>0. loader[s] \in LoaderType /\ DataTyped /\ loader \in [Sessions -> LoaderType]
  BY DEF Typed, ActorsTyped
<1>2. CASE FetchSnapshot(s)
  <2>1. UNCHANGED <<state, buffer, data, handler, operator, restarts>>
    BY <1>2 DEF FetchSnapshot
  <2>2. PICK b \in Nat, f \in Seq(Ids), pc \in {"clear", "tail"} :
          loader' = [loader EXCEPT ![s] = [loader[s] EXCEPT !.base = b, !.fetched = f, !.pc = pc]]
    <3> DEFINE q == SubSeq(SourceLog, 1, parts[1].base)
    <3>1. CASE /\ parts[1].base > 0
               /\ loader' = [loader EXCEPT ![s].base = parts[1].base, ![s].fetched = q,
                                           ![s].pc = "clear"]
      <4>1. q \in Seq(Ids) /\ parts[1].base \in Nat
        BY <1>0, SourceSound
      <4> HIDE DEF q
      <4>2. loader' = [loader EXCEPT ![s] = [loader[s] EXCEPT !.base = parts[1].base,
                                                              !.fetched = q, !.pc = "clear"]]
        BY <1>0, <3>1
      <4> QED
        BY <4>1, <4>2
    <3>2. CASE loader' = [loader EXCEPT ![s].base = 0, ![s].pc = "tail"]
      <4>1. loader[s].fetched \in Seq(Ids)
        BY <1>0 DEF LoaderType
      <4>2. loader' = [loader EXCEPT ![s] = [loader[s] EXCEPT !.base = 0,
                                               !.fetched = loader[s].fetched, !.pc = "tail"]]
        BY <1>0, <3>2 DEF LoaderType
      <4> QED
        BY <4>1, <4>2
    <3> QED
      BY <1>2, <3>1, <3>2 DEF FetchSnapshot
  <2> DEFINE l == [loader[s] EXCEPT !.base = b, !.fetched = f, !.pc = pc]
  <2>3. l \in LoaderType /\ l.pc \notin Holding
    BY <1>0 DEF LoaderType, PCs, Holding
  <2>4. loader' = [loader EXCEPT ![s] = l]
    BY <2>2
  <2> HIDE DEF l
  <2> QED
    BY <2>1, <2>3, <2>4, MoveTyped, SameTyped
<1>3. CASE RemoveWal(s) \/ RemoveSnapshot(s) \/ InstallSnapshot(s)
  <2>1. UNCHANGED <<state, buffer, parts, cur, handler, operator, restarts>>
    BY <1>3 DEF RemoveWal, RemoveSnapshot, InstallSnapshot
  <2>2. PICK pc \in {"unsnap", "rename", "tail", "open"} : GoTo(s, pc)
    BY <1>3 DEF RemoveWal, RemoveSnapshot, InstallSnapshot
  <2>3. pc \in PCs.loader /\ pc \notin Holding
    BY DEF PCs, Holding
  <2>4. loader[s].fetched \in Seq(Ids)
    BY <1>0 DEF LoaderType
  <2>5. disk' \in [snap : Seq(Ids), wal : Seq(Ids), open : SUBSET (2..Len(parts))]
    <3>1. <<>> \in Seq(Ids) /\ {} \in SUBSET (2..Len(parts))
      OBVIOUS
    <3> QED
      BY <1>0, <1>3, <2>4, <3>1 DEF RemoveWal, RemoveSnapshot, InstallSnapshot, DataTyped
  <2>6. DataTyped' /\ Len(parts) <= Len(parts')
    BY <1>0, <2>1, <2>5 DEF DataTyped
  <2> QED
    BY <2>1, <2>2, <2>3, <2>6, GoToTyped, SameTyped
<1>4. CASE LoadTail(s)
  <2>1. loader[s].base \in Nat
    BY <1>0 DEF LoaderType
  <2> QED
    BY <1>4, <2>1, FetchedTyped DEF LoadTail, Holding
<1>5. CASE LoadFail(s) \/ FinishLoading(s)
  <2>1. UNCHANGED <<buffer, data, handler, operator, restarts>> /\ FinishLoad(Target)
    BY <1>5 DEF LoadFail, FinishLoading
  <2>2. StatusTyped'
    BY <2>1, StatusSet DEF FinishLoad
  <2>3. PICK pc \in {"failed", "current"} : GoTo(s, pc)
    BY <1>5 DEF LoadFail, FinishLoading
  <2>4. pc \in PCs.loader /\ pc \notin Holding
    BY DEF PCs, Holding
  <2> QED
    BY <2>1, <2>2, <2>3, <2>4, GoToTyped, SameTyped
<1>6. CASE OpenPartition(s)
  <2> DEFINE n == Len(parts)
             l == [loader[s] EXCEPT !.part = n + 1, !.pc = "fill"]
  <2>1. /\ parts' = Append(parts, Opened(disk)) /\ disk' = OpenWal
        /\ UNCHANGED <<state, buffer, cur, handler, operator, restarts>>
    BY <1>6 DEF OpenPartition
  <2>2. n \in Nat /\ n >= 2
    BY <1>0, SourceSound
  <2>3. Opened(disk) \in Sound
    BY <1>0, OpenedSound DEF DataTyped
  <2>4. parts' \in Seq(Sound) /\ Len(parts') = n + 1
    BY <1>0, <2>1, <2>3 DEF DataTyped
  <2>5. \A k : k \in 2..n => k \in 2..(n + 1)
    BY <2>2
  <2>6. disk' = [disk EXCEPT !.open = @ \cup {n + 1}]
    BY <2>1 DEF OpenWal
  <2>7. disk' \in [snap : Seq(Ids), wal : Seq(Ids), open : SUBSET (2..(n + 1))]
    BY <1>0, <2>2, <2>5, <2>6 DEF DataTyped
  <2>8. DataTyped' /\ Len(parts) <= Len(parts')
    BY <1>0, <2>1, <2>2, <2>4, <2>5, <2>7 DEF DataTyped
  <2>9. l \in LoaderType /\ l.part = n + 1
    <3>1. \A m \in Nat : /\ [loader[s] EXCEPT !.part = m, !.pc = "fill"] \in LoaderType
                         /\ [loader[s] EXCEPT !.part = m, !.pc = "fill"].part = m
      BY <1>0 DEF LoaderType, PCs
    <3>2. n + 1 \in Nat
      BY <2>2
    <3> HIDE DEF n
    <3> QED
      BY <3>1, <3>2
  <2>10. loader' = [loader EXCEPT ![s] = l]
    BY <1>0, <1>6 DEF OpenPartition
  <2>11. n + 1 \in 2..Len(parts')
    BY <2>2, <2>4
  <2> HIDE DEF l, n
  <2> QED
    BY <2>1, <2>8, <2>9, <2>10, <2>11, MoveTyped, SameTyped
<1>7. ASSUME NEW pc \in {"fill", "caught"}, ApplyFetched(s, pc) PROVE Typed'
  <2> DEFINE k == loader[s].part
             l == [loader[s] EXCEPT !.fetched = Tail(@)]
  <2>1. /\ loader[s].pc = pc /\ loader[s].fetched # <<>>
        /\ ApplyIn(k, Head(loader[s].fetched))
        /\ UNCHANGED <<state, buffer, cur, handler, operator, restarts>>
    BY <1>7 DEF ApplyFetched
  <2>2. loader[s].fetched \in Seq(Ids)
    BY <1>0 DEF LoaderType
  <2>3. Head(loader[s].fetched) \in Ids /\ Tail(loader[s].fetched) \in Seq(Ids)
    BY <2>1, <2>2
  <2>4. k \in 2..Len(parts) /\ k \in 1..Len(parts)
    BY <2>1 DEF Typed, Holds, Holding
  <2>5. DataTyped' /\ Len(parts') = Len(parts)
    BY <1>0, <2>1, <2>3, <2>4, ApplyInEffect DEF DataTyped
  <2>6. l \in LoaderType /\ l.part = k
    BY <1>0, <2>3 DEF LoaderType
  <2>7. loader' = [loader EXCEPT ![s] = l]
    BY <1>0, <1>7 DEF ApplyFetched
  <2>8. Len(parts) <= Len(parts')
    BY <1>0, <2>5, SourceSound
  <2> HIDE DEF l
  <2> QED
    BY <2>1, <2>4, <2>5, <2>6, <2>7, <2>8, MoveTyped, SameTyped
<1>8. CASE SetPartition(s)
  <2>1. UNCHANGED <<state, buffer, parts, disk, handler, operator, restarts>>
        /\ cur' = loader[s].part /\ loader[s].pc = "fill" /\ GoTo(s, "drain")
    BY <1>8 DEF SetPartition
  <2>2. loader[s].part \in 2..Len(parts)
    BY <2>1 DEF Typed, Holds, Holding
  <2>3. DataTyped' /\ Len(parts) <= Len(parts')
    BY <1>0, <2>1, <2>2 DEF DataTyped
  <2>4. "drain" \in PCs.loader /\ "drain" \notin Holding
    BY DEF PCs, Holding
  <2> QED
    BY <2>1, <2>3, <2>4, GoToTyped, SameTyped
<1>9. CASE DrainBuffer(s)
  <2> DEFINE l == [loader[s] EXCEPT !.drained = buffer, !.pc = "finish"]
  <2>1. UNCHANGED <<state, data, handler, operator, restarts>> /\ buffer' = <<>>
    BY <1>9 DEF DrainBuffer
  <2>2. l \in LoaderType /\ l.pc \notin Holding
    BY <1>0 DEF LoaderType, PCs, Typed, ActorsTyped, Holding
  <2>3. loader' = [loader EXCEPT ![s] = l]
    BY <1>0, <1>9 DEF DrainBuffer
  <2>4. buffer' \in Seq(Ids)
    BY <2>1
  <2> HIDE DEF l
  <2> QED
    BY <2>1, <2>2, <2>3, <2>4, MoveTyped, SameTyped
<1>10. CASE TakePartition(s)
  <2> DEFINE l == [loader[s] EXCEPT !.part = cur, !.pc = "catchup"]
  <2>1. UNCHANGED <<state, buffer, data, handler, operator, restarts>>
    BY <1>10 DEF TakePartition
  <2>2. cur \in 2..Len(parts) /\ cur \in Nat /\ parts' = parts
    BY <1>0, <2>1, SourceSound DEF DataTyped, data
  <2>3. l \in LoaderType /\ l.part = cur
    BY <1>0, <2>2 DEF LoaderType, PCs
  <2>4. loader' = [loader EXCEPT ![s] = l]
    BY <1>0, <1>10 DEF TakePartition
  <2> HIDE DEF l
  <2> QED
    BY <2>1, <2>2, <2>3, <2>4, MoveTyped, SameTyped
<1>11. CASE ReplayBuffered(s)
  <2> DEFINE k == loader[s].part
             l == [loader[s] EXCEPT !.drained = Tail(@)]
  <2>1. /\ loader[s].pc = "catchup" /\ loader[s].drained # <<>>
        /\ ApplyIn(k, Head(loader[s].drained))
        /\ UNCHANGED <<state, buffer, cur, handler, operator, restarts>>
    BY <1>11 DEF ReplayBuffered
  <2>2. loader[s].drained \in Seq(Ids)
    BY <1>0 DEF LoaderType
  <2>3. Head(loader[s].drained) \in Ids /\ Tail(loader[s].drained) \in Seq(Ids)
    BY <2>1, <2>2
  <2>4. k \in 2..Len(parts) /\ k \in 1..Len(parts)
    BY <2>1 DEF Typed, Holds, Holding
  <2>5. DataTyped' /\ Len(parts') = Len(parts)
    BY <1>0, <2>1, <2>3, <2>4, ApplyInEffect DEF DataTyped
  <2>6. l \in LoaderType /\ l.part = k
    BY <1>0, <2>3 DEF LoaderType
  <2>7. loader' = [loader EXCEPT ![s] = l]
    BY <1>0, <1>11 DEF ReplayBuffered
  <2>8. Len(parts) <= Len(parts')
    BY <1>0, <2>5, SourceSound
  <2> HIDE DEF l
  <2> QED
    BY <2>1, <2>4, <2>5, <2>6, <2>7, <2>8, MoveTyped, SameTyped
<1>12. CASE CatchUpFetch(s)
  <2> DEFINE k == loader[s].part
  <2>1. k \in 2..Len(parts)
    BY <1>12 DEF CatchUpFetch, Typed, Holds, Holding
  <2>2. Len(parts[k].hist) \in Nat
    <3>1. parts[k] \in Sound
      BY <1>0, <2>1 DEF DataTyped
    <3> QED
      BY <3>1 DEF Sound, Part
  <2> QED
    BY <1>12, <2>1, <2>2, FetchedTyped DEF CatchUpFetch
<1>13. CASE CatchUpRound(s)
  <2>1. UNCHANGED <<state, buffer, data, handler, operator, restarts>> /\ loader[s].pc = "caught"
    BY <1>13 DEF CatchUpRound
  <2>2. PICK pc \in {"catchup", "done"} : GoTo(s, pc)
    BY <1>13 DEF CatchUpRound
  <2>3. pc \in PCs.loader
    BY DEF PCs
  <2>4. loader[s].part \in 2..Len(parts) /\ parts' = parts
    BY <2>1 DEF Typed, Holds, Holding, data
  <2> QED
    BY <2>1, <2>2, <2>3, <2>4, GoToTyped, SameTyped
<1> QED
  BY <1>2, <1>3, <1>4, <1>5, <1>6, <1>7, <1>8, <1>9, <1>10, <1>11, <1>12, <1>13
     DEF LoaderStep, ApplyTail, CatchUpApply

\* ... a compaction ...
LEMMA CompactTyped ==
  ASSUME Typed, CompactSource \/ \E k \in 2..Len(parts) : CompactTarget(k)
  PROVE  Typed'
<1>0. DataTyped
  BY DEF Typed
<1>1. ASSUME NEW k \in 1..Len(parts), Compact(k)
      PROVE  /\ parts' \in Seq(Sound) /\ Len(parts') = Len(parts)
             /\ UNCHANGED <<state, buffer, cur, handler, loader, operator, restarts>>
             /\ parts[k].hist \in Seq(Ids)
  <2> DEFINE n == Len(parts[k].hist)
             q == [parts[k] EXCEPT !.base = n]
  <2>1. parts[k] \in Sound
    BY <1>0 DEF DataTyped
  <2>2. parts[k].hist \in Seq(Ids) /\ n \in Nat
    BY <2>1 DEF Sound, Part
  <2>3. q \in Sound
    BY <2>1, <2>2 DEF Sound, Part
  <2>4. parts' = [parts EXCEPT ![k] = q]
    BY <1>0, <1>1 DEF Compact, DataTyped
  <2>5. UNCHANGED <<state, buffer, cur, handler, loader, operator, restarts>>
    BY <1>1 DEF Compact
  <2> HIDE DEF q
  <2>6. parts' \in Seq(Sound) /\ Len(parts') = Len(parts)
    BY <1>0, <2>3, <2>4 DEF DataTyped
  <2> QED
    BY <2>2, <2>5, <2>6
<1>2. CASE CompactSource
  <2>1. 1 \in 1..Len(parts)
    BY <1>0, SourceSound
  <2> QED
    BY <1>0, <1>1, <1>2, <2>1
       DEF CompactSource, state, Typed, DataTyped, StatusTyped, ActorsTyped, Holds
<1>3. ASSUME NEW k \in 2..Len(parts), CompactTarget(k) PROVE Typed'
  <2>1. k \in 1..Len(parts)
    OBVIOUS
  <2>2. <<>> \in Seq(Ids) /\ disk.open \cup {k} \in SUBSET (2..Len(parts))
    BY <1>0 DEF DataTyped
  <2>3. Compact(k) /\ disk' = [snap |-> parts[k].hist, wal |-> <<>>, open |-> disk.open \cup {k}]
    BY <1>3 DEF CompactTarget
  <2>4. disk' \in [snap : Seq(Ids), wal : Seq(Ids), open : SUBSET (2..Len(parts))]
    BY <1>1, <2>1, <2>2, <2>3
  <2> QED
    BY <1>0, <1>1, <2>1, <2>3, <2>4
       DEF state, Typed, DataTyped, StatusTyped, ActorsTyped, Holds
<1> QED
  BY <1>2, <1>3

\* ... the end of a TTL ...
LEMMA ExpireTyped ==
  ASSUME Typed, NEW k \in 1..Len(parts), Expire(k)
  PROVE  Typed'
<1>0. DataTyped /\ parts[k] \in Sound
  BY DEF Typed, DataTyped
<1>1. PICK n \in (parts[k].forgot + 1)..Len(parts[k].hist) :
        parts' = [parts EXCEPT ![k].forgot = n]
  BY DEF Expire
<1> DEFINE q == [parts[k] EXCEPT !.forgot = n]
<1>2. q \in Sound
  <2>1. Len(parts[k].hist) \in Nat /\ parts[k].forgot \in Nat
    BY <1>0 DEF Sound, Part
  <2>2. n \in Nat /\ n <= Len(parts[k].hist)
    BY <2>1
  <2> QED
    BY <1>0, <2>2 DEF Sound, Part
<1>3. parts' = [parts EXCEPT ![k] = q]
  BY <1>0, <1>1 DEF DataTyped
<1> HIDE DEF q
<1>4. parts' \in Seq(Sound) /\ Len(parts') = Len(parts)
  BY <1>0, <1>2, <1>3 DEF DataTyped
<1> QED
  BY <1>0, <1>4 DEF Expire, state, Typed, DataTyped, StatusTyped, ActorsTyped, Holds

\* A restart makes the status normal and loses some of the requests.
LEMMA DiesTyped ==
  ASSUME Typed, NEW n \in Nodes, Dies(n)
  PROVE  /\ StatusTyped'
         /\ handler' \in [Writes -> [pc : PCs.handler, part : Nat]]
         /\ operator' \in [Sessions -> PCs.operator]
         /\ restarts' \in 0..MaxRestarts
         /\ \A w \in Writes : handler'[w].pc = "applying" =>
              handler'[w] = handler[w] /\ w[2] # n
<1>1. StatusTyped'
  BY DEF Dies, SetStatus, Typed, StatusTyped
<1>2. /\ handler' \in [Writes -> [pc : PCs.handler, part : Nat]]
      /\ \A w \in Writes : handler'[w].pc = "applying" =>
           handler'[w] = handler[w] /\ w[2] # n
  BY DEF Dies, Typed, ActorsTyped, PCs
<1>3. operator' \in [Sessions -> PCs.operator]
  BY DEF Dies, Typed, ActorsTyped
<1>4. restarts' \in 0..MaxRestarts
  <2>1. restarts \in 0..MaxRestarts /\ restarts < MaxRestarts /\ restarts' = restarts + 1
    BY DEF Dies, Typed, ActorsTyped
  <2>2. MaxRestarts \in Nat
    BY ReshardAssumption
  <2> QED
    BY <2>1, <2>2
<1> QED
  BY <1>1, <1>2, <1>3, <1>4

\* ... and a restart.
LEMMA RestartTyped ==
  ASSUME Typed, RestartSource \/ RestartTarget
  PROVE  Typed'
<1> USE NodesDiffer
<1>0. DataTyped /\ loader \in [Sessions -> LoaderType]
  BY DEF Typed, ActorsTyped
<1>1. CASE RestartSource
  <2> DEFINE f == IF parts[1].forgot < parts[1].base THEN parts[1].base ELSE parts[1].forgot
             q == [parts[1] EXCEPT !.forgot = f]
  <2>1. q \in Sound
    BY <1>0, SourceSound DEF Sound, Part
  <2>2. parts' = [parts EXCEPT ![1] = q]
    BY <1>0, <1>1, SourceSound DEF RestartSource, DataTyped
  <2> HIDE DEF q
  <2>3. parts' \in Seq(Sound) /\ Len(parts') = Len(parts)
    BY <1>0, <2>1, <2>2, SourceSound DEF DataTyped
  <2> QED
    BY <1>0, <1>1, <2>3, DiesTyped
       DEF RestartSource, Typed, DataTyped, ActorsTyped, Holds
<1>2. CASE RestartTarget
  <2>1. Opened(disk) \in Sound /\ parts[1] \in Sound
    BY <1>0, OpenedSound, SourceSound DEF DataTyped
  <2>2. parts' = <<parts[1], Opened(disk)>>
    BY <1>2 DEF RestartTarget
  <2>3. parts' \in Seq(Sound) /\ Len(parts') = 2
    BY <2>1, <2>2
  <2>4. cur' \in 2..Len(parts') /\ disk' \in [snap : Seq(Ids), wal : Seq(Ids), open : SUBSET (2..Len(parts'))]
    BY <1>0, <1>2, <2>3, SMTT(30) DEF RestartTarget, DataTyped
  <2>5. buffer' \in Seq(Ids)
    BY <1>2 DEF RestartTarget
  <2>6. \A pc \in {"failed", "killed"} : [IdleLoader EXCEPT !.pc = pc] \in LoaderType
                                         /\ [IdleLoader EXCEPT !.pc = pc].pc = pc
    <3>1. <<>> \in Seq(Ids)
      OBVIOUS
    <3> QED
      BY <3>1 DEF IdleLoader, LoaderType, PCs
  <2>7. /\ loader' \in [Sessions -> LoaderType]
        /\ \A s \in Sessions : loader'[s].pc \notin Holding
    BY <1>0, <1>2, <2>6 DEF RestartTarget, LoaderType, Holding
  <2>8. \A w \in Writes : handler'[w].pc = "applying" =>
          handler'[w].part \in IF w[2] = Source THEN {1} ELSE 2..Len(parts')
    <3>1. Dies(Target)
      BY <1>2 DEF RestartTarget
    <3>2. \A w \in Writes : w[2] \in Nodes
      BY ReshardAssumption
    <3> QED
      BY <3>1, <3>2, DiesTyped DEF Typed, Holds, Nodes
  <2>9. Dies(Target)
    BY <1>2 DEF RestartTarget
  <2> QED
    BY <2>3, <2>4, <2>5, <2>7, <2>8, <2>9, DiesTyped DEF Typed, DataTyped, ActorsTyped, Holds
<1> QED
  BY <1>1, <1>2

\* Typed is inductive.
LEMMA TypedStep == Typed /\ [Next]_vars => Typed'
<1> SUFFICES ASSUME Typed, [Next]_vars PROVE Typed'
  OBVIOUS
<1>1. CASE UNCHANGED vars
  BY <1>1 DEF vars, state, data, Typed, DataTyped, StatusTyped, ActorsTyped, Holds
<1> QED
  BY <1>1, HandlerTyped, OperatorTyped, LoaderStepTyped, LateTyped, OutsideTyped, CompactTyped,
     ExpireTyped, RestartTyped DEF Next

\* Typed holds in every state.
LEMMA TypedAlways == Spec => []Typed
<1>1. Init => Typed
  <2> SUFFICES ASSUME Init PROVE Typed
    OBVIOUS
  <2>1. NewPart(<<>>, 0) \in Sound
    BY DEF NewPart, Sound, Part
  <2>2. DataTyped
    <3>1. parts = <<NewPart(<<>>, 0), NewPart(<<>>, 0)>> /\ cur = 2 /\ disk = EmptyDisk
      BY DEF Init
    <3>2. parts \in Seq(Sound) /\ Len(parts) = 2
      BY <2>1, <3>1
    <3> QED
      BY <3>1, <3>2 DEF DataTyped, EmptyDisk
  <2>3. IdleLoader \in LoaderType /\ IdleLoader.pc = "idle"
    BY DEF IdleLoader, LoaderType, PCs
  <2>4. StatusTyped
    BY ReshardAssumption DEF Init, StatusTyped
  <2>5. buffer \in Seq(Ids) /\ restarts \in 0..MaxRestarts
    <3>1. buffer = <<>> /\ restarts = 0
      BY DEF Init
    <3>2. MaxRestarts \in Nat
      BY ReshardAssumption
    <3> QED
      BY <3>1, <3>2
  <2>9. handler \in [Writes -> [pc : PCs.handler, part : Nat]]
    BY DEF Init, PCs
  <2>10. operator \in [Sessions -> PCs.operator]
    BY DEF Init, PCs
  <2>7. loader \in [Sessions -> LoaderType] /\ \A s \in Sessions : loader[s].pc = "idle"
    BY <2>3 DEF Init
  <2>8. \A w \in Writes : handler[w].pc = "new"
    BY DEF Init
  <2> QED
    BY <2>2, <2>4, <2>5, <2>7, <2>8, <2>9, <2>10 DEF Typed, ActorsTyped, Holds, Holding
<1> QED
  BY <1>1, TypedStep, PTL DEF Spec

\* TypeOK in every state: a node is Loading or Frozen exactly while it has a
\* sessionID (reshard.State), and every partition, directory and actor has its
\* type, whatever is lost, aborted, compacted or restarted.
THEOREM TypeCorrect == Spec => []TypeOK
<1>1. Typed => TypeOK
  <2> SUFFICES ASSUME Typed PROVE TypeOK
    OBVIOUS
  <2>1. \A k \in DOMAIN parts : parts[k] \in Sound
    BY DEF Typed, DataTyped
  <2>2. \A k \in DOMAIN parts : /\ parts[k].hist \in Seq(Ids)
                                /\ parts[k].forgot <= Len(parts[k].hist)
                                /\ parts[k].base <= Len(parts[k].hist)
    BY <2>1 DEF Sound, Part
  <2>3. \A w \in Writes : handler[w].pc \in PCs.handler
    BY DEF Typed, ActorsTyped
  <2>4. \A s \in Sessions : loader[s].pc \in PCs.loader /\ operator[s] \in PCs.operator
    BY DEF Typed, ActorsTyped, LoaderType
  <2> QED
    BY <2>2, <2>3, <2>4 DEF Typed, DataTyped, StatusTyped, ActorsTyped, TypeOK
<1> QED
  BY <1>1, TypedAlways, PTL

-----------------------------------------------------------------------------
\* The little of the types that the next proofs need: what the actions update is
\* a function on nodes or sessions, and a loader has a pc.
Shape ==
    /\ DOMAIN status = Nodes
    /\ DOMAIN session = Nodes
    /\ DOMAIN operator = Sessions
    /\ DOMAIN loader = Sessions
    /\ \A s \in Sessions : "pc" \in DOMAIN loader[s]

\* Shape is a part of the types.
LEMMA TypedShape == Typed => Shape
<1> SUFFICES ASSUME Typed PROVE Shape
  OBVIOUS
<1>1. \A l \in LoaderType : "pc" \in DOMAIN l
  BY DEF LoaderType
<1> QED
  BY <1>1, Zenon DEF Typed, StatusTyped, ActorsTyped, Shape

\* Node n leaves its session.
Ends(n) ==
    /\ status' = [status EXCEPT ![n] = "normal"]
    /\ \E none : session' = [session EXCEPT ![n] = none]

\* So it does in FinishLoad, in Thaw, and when it dies.
LEMMA EndsWhen ==
  ASSUME NEW n
  PROVE  /\ FinishLoad(n) => Ends(n)
         /\ Thaw(n) => Ends(n)
         /\ Dies(n) => Ends(n) /\ UNCHANGED operator /\ (LoadRuns => CrashInLoad)
  BY Zenon DEF FinishLoad, Thaw, Dies, SetStatus, Ends

\* No session has begun at first.
LEMMA AtFirst ==
  ASSUME Init
  PROVE  /\ status[Source] = "normal" /\ status[Target] = "normal"
         /\ \A s \in Sessions : operator[s] = "new" /\ loader[s].pc = "idle"
<1>1. IdleLoader.pc = "idle"
  BY DEF IdleLoader
<1> QED
  BY <1>1, NodesDiffer, Zenon DEF Init

\* The steps that are neither a loader's nor the control plane's, restarts apart.
Background ==
    \/ \E w \in Writes : HandlerStep(w)
    \/ CompactSource
    \/ \E k \in 2..Len(parts) : CompactTarget(k)
    \/ \E k \in 1..Len(parts) : Expire(k)

\* They leave all of this alone.
LEMMA OthersKeep ==
  ASSUME Background
  PROVE  UNCHANGED <<status, session, loader, operator>>
  BY DEF Background, HandlerStep, CheckFrozen, CheckLoading, GetPartition, BufferWrite,
         ApplyWrite, CompactSource, CompactTarget, Compact, Expire, state

\* A process that dies is normal again; a loader dies only with the target.
LEMMA RestartEffect ==
  ASSUME Shape, RestartSource \/ RestartTarget
  PROVE  /\ UNCHANGED operator
         /\ \/ Ends(Source) /\ UNCHANGED loader
            \/ /\ Ends(Target)
               /\ \A s \in Sessions : /\ loader'[s].pc \notin LoadingPCs
                                      /\ loader[s].pc \notin LoadingPCs /\ Loaded(s) => Loaded(s)'
                                      /\ loader[s].pc = "idle" => loader'[s].pc = "idle"
         /\ ~CrashInLoad => ~LoadRuns
<1>1. CASE RestartSource
  BY <1>1, EndsWhen DEF RestartSource
<1>2. CASE RestartTarget
  <2>1. \A pc : [IdleLoader EXCEPT !.pc = pc].pc = pc
    BY DEF IdleLoader
  <2>2. \A s \in Sessions :
          loader'[s].pc = IF loader[s].pc \in {"idle", "called", "failed"} THEN loader[s].pc
                          ELSE IF loader[s].pc \in LoadingPCs THEN "failed" ELSE "killed"
    BY <1>2, <2>1 DEF RestartTarget
  <2>3. \A s \in Sessions : /\ loader'[s].pc \notin LoadingPCs
                            /\ loader[s].pc \notin LoadingPCs /\ Loaded(s) => Loaded(s)'
                            /\ loader[s].pc = "idle" => loader'[s].pc = "idle"
    BY <2>2 DEF LoadingPCs, Loaded
  <2>4. Dies(Target)
    BY <1>2 DEF RestartTarget
  <2> QED
    BY <2>3, <2>4, EndsWhen
<1> QED
  BY <1>1, <1>2

\* A loader that has called FinishLoad.
After == {"current", "catchup", "caught", "done"}

\* What one step of a session's loader does to status, session and pc.
LEMMA LoaderEffect ==
  ASSUME Shape, NEW s \in Sessions, LoaderStep(s)
  PROVE  /\ UNCHANGED operator
         /\ \A t \in Sessions \ {s} : loader'[t] = loader[t]
         /\ \/ /\ UNCHANGED <<status, session>>
               /\ loader[s].pc \in LoadingPCs /\ loader'[s].pc \in LoadingPCs
            \/ /\ UNCHANGED <<status, session>>
               /\ loader[s].pc \in After /\ loader'[s].pc \in After
            \/ Ends(Target) /\ loader[s].pc = "finish" /\ loader'[s].pc = "current"
            \/ /\ Ends(Target) /\ LoadFails
               /\ loader[s].pc = "tail" /\ loader'[s].pc = "failed"
<1> USE DEF Shape, state, LoadingPCs, After
<1>1. CASE FetchSnapshot(s)
  BY <1>1 DEF FetchSnapshot
<1>2. CASE RemoveWal(s) \/ RemoveSnapshot(s) \/ InstallSnapshot(s)
  BY <1>2 DEF RemoveWal, RemoveSnapshot, InstallSnapshot, GoTo
<1>3. CASE LoadTail(s)
  BY <1>3 DEF LoadTail, Fetched
<1>4. CASE LoadFail(s)
  BY <1>4, EndsWhen DEF LoadFail, GoTo
<1>5. CASE OpenPartition(s)
  BY <1>5 DEF OpenPartition
<1>6. CASE ApplyTail(s) \/ CatchUpApply(s)
  BY <1>6 DEF ApplyTail, CatchUpApply, ApplyFetched
<1>7. CASE SetPartition(s)
  BY <1>7 DEF SetPartition, GoTo
<1>8. CASE DrainBuffer(s)
  BY <1>8 DEF DrainBuffer
<1>9. CASE FinishLoading(s)
  BY <1>9, EndsWhen DEF FinishLoading, GoTo
<1>10. CASE TakePartition(s)
  BY <1>10 DEF TakePartition
<1>11. CASE ReplayBuffered(s)
  BY <1>11 DEF ReplayBuffered
<1>12. CASE CatchUpFetch(s)
  BY <1>12 DEF CatchUpFetch, Fetched
<1>13. CASE CatchUpRound(s)
  BY <1>13 DEF CatchUpRound, GoTo
<1> QED
  BY <1>1, <1>2, <1>3, <1>4, <1>5, <1>6, <1>7, <1>8, <1>9, <1>10, <1>11, <1>12, <1>13
     DEF LoaderStep

\* A session whose load was not asked for yet has no loader.
StartsOnce == \A s \in Sessions : operator[s] \in {"new", "load"} => loader[s].pc = "idle"

\* A loader starts when the target is normal, or a call to it is under way.
LEMMA Started ==
  ASSUME Shape, StartsOnce, NEW s \in Sessions, BeginLoad(s) \/ LateLoad(s)
  PROVE  /\ \A t \in Sessions \ {s} : loader'[t] = loader[t] /\ operator'[t] = operator[t]
         /\ loader[s].pc \in {"idle", "called"}
         /\ \/ /\ status[Target] = "normal" /\ SetStatus(Target, "loading", s)
               /\ loader'[s].pc = "snapshot"
            \/ UNCHANGED <<status, session>> /\ loader'[s].pc \in {"idle", "called"}
<1> USE DEF Shape, state, GoTo, StartLoad
<1>1. CASE BeginLoad(s)
  <2>1. loader[s].pc = "idle"
    BY <1>1 DEF BeginLoad, StartsOnce
  <2> QED
    BY <1>1, <2>1 DEF BeginLoad, Step
<1>2. CASE LateLoad(s)
  BY <1>2 DEF LateLoad
<1> QED
  BY <1>1, <1>2

\* The other steps of the control plane leave the loaders alone, and the target
\* but for an abort.
LEMMA ControlEffect ==
  ASSUME Shape, NEW s \in Sessions, OperatorStep(s), ~BeginLoad(s)
  PROVE  /\ UNCHANGED loader
         /\ \A t \in Sessions \ {s} : operator'[t] = operator[t]
         /\ operator'[s] \in {"new", "load"} => operator[s] \in {"new", "load"}
         /\ \/ SetStatus(Source, "frozen", s) \/ Ends(Source)
            \/ UNCHANGED <<status, session>>
            \/ TimesOut /\ Ends(Target)
<1> USE DEF Step, Shape
<1>1. CASE BeginFreeze(s)
  BY <1>1 DEF BeginFreeze, Freeze
<1>2. CASE PollNormal(s)
  BY <1>2 DEF PollNormal, state
<1>3. CASE PollTimeout(s)
  BY <1>3, EndsWhen DEF PollTimeout
<1>4. CASE ThawSource(s)
  BY <1>4, EndsWhen DEF ThawSource
<1> QED
  BY <1>1, <1>2, <1>3, <1>4 DEF OperatorStep

\* StartsOnce in every state.
LEMMA StartsOnceAlways == Spec => []StartsOnce
<1>1. Init => StartsOnce
  BY AtFirst DEF StartsOnce
<1>2. Shape /\ StartsOnce /\ [Next]_vars => StartsOnce'
  <2> SUFFICES ASSUME Shape, StartsOnce, [Next]_vars PROVE StartsOnce'
    OBVIOUS
  <2>1. ASSUME NEW s \in Sessions, LoaderStep(s) PROVE StartsOnce'
    <3>1. loader[s].pc # "idle"
      BY <2>1, LoaderEffect DEF LoadingPCs, After
    <3> QED
      BY <2>1, <3>1, LoaderEffect DEF StartsOnce
  <2>2. ASSUME NEW s \in Sessions, BeginLoad(s) PROVE StartsOnce'
    <3>1. operator'[s] \notin {"new", "load"}
      BY <2>2 DEF BeginLoad, Step, Shape
    <3> QED
      BY <2>2, <3>1, Started DEF StartsOnce
  <2>3. ASSUME NEW s \in Sessions, LateLoad(s) PROVE StartsOnce'
    <3>1. loader[s].pc = "called" /\ operator' = operator
      BY <2>3 DEF LateLoad
    <3> QED
      BY <2>3, <3>1, Started DEF StartsOnce
  <2>4. ASSUME NEW s \in Sessions, OperatorStep(s), ~BeginLoad(s) PROVE StartsOnce'
    BY <2>4, ControlEffect DEF StartsOnce
  <2>5. CASE Background
    BY <2>5, OthersKeep DEF StartsOnce
  <2>6. CASE AbortByHand \/ UNCHANGED vars
    BY <2>6 DEF AbortByHand, vars, StartsOnce
  <2>7. CASE ControlPlaneDies
    BY <2>7 DEF ControlPlaneDies, StartsOnce
  <2>8. CASE RestartSource \/ RestartTarget
    BY <2>8, RestartEffect DEF StartsOnce
  <2> QED
    BY <2>1, <2>2, <2>3, <2>4, <2>5, <2>6, <2>7, <2>8 DEF Next, Background
<1> QED
  BY <1>1, <1>2, TypedShape, TypedAlways, PTL DEF Spec

-----------------------------------------------------------------------------
\* LoadingHasLoader in every state: a target that buffers has a loader goroutine
\* that will call FinishLoad (handleReshardLoad), whatever was aborted, failed,
\* arrived late or started again.
THEOREM LoaderIsThere == Spec => []LoadingHasLoader
<1>1. Init => LoadingHasLoader
  BY AtFirst DEF LoadingHasLoader
<1>2. Shape /\ StartsOnce /\ LoadingHasLoader /\ [Next]_vars => LoadingHasLoader'
  <2> SUFFICES ASSUME Shape, StartsOnce, LoadingHasLoader, [Next]_vars,
                      status'[Target] = "loading"
               PROVE  \E s \in Sessions : loader'[s].pc \in LoadingPCs
    BY DEF LoadingHasLoader
  <2> USE NodesDiffer
  <2>1. ASSUME NEW s \in Sessions, LoaderStep(s)
        PROVE  \E t \in Sessions : loader'[t].pc \in LoadingPCs
    <3>1. ~Ends(Target)
      BY DEF Ends, Shape
    <3>2. PICK t \in Sessions : loader[t].pc \in LoadingPCs
      BY <2>1, <3>1, LoaderEffect DEF LoadingHasLoader
    <3>3. loader[s].pc \in LoadingPCs => loader'[s].pc \in LoadingPCs
      BY <2>1, <3>1, LoaderEffect DEF LoadingPCs, After
    <3>4. loader'[t].pc \in LoadingPCs
      BY <2>1, <3>2, <3>3, LoaderEffect
    <3> QED
      BY <3>4
  <2>2. ASSUME NEW s \in Sessions, BeginLoad(s) \/ LateLoad(s)
        PROVE  \E t \in Sessions : loader'[t].pc \in LoadingPCs
    <3>1. CASE loader'[s].pc = "snapshot"
      BY <3>1 DEF LoadingPCs
    <3>2. CASE UNCHANGED <<status, session>>
      <4>1. PICK t \in Sessions : loader[t].pc \in LoadingPCs
        BY <3>2 DEF LoadingHasLoader
      <4>2. t # s
        BY <2>2, <4>1, Started DEF LoadingPCs
      <4>3. loader'[t] = loader[t]
        BY <2>2, <4>2, Started
      <4> QED
        BY <4>1, <4>3
    <3> QED
      BY <2>2, <3>1, <3>2, Started
  <2>3. ASSUME NEW s \in Sessions, OperatorStep(s), ~BeginLoad(s)
        PROVE  \E t \in Sessions : loader'[t].pc \in LoadingPCs
    <3>1. status[Target] = "loading"
      BY <2>3, ControlEffect DEF Ends, SetStatus, Shape
    <3> QED
      BY <2>3, <3>1, ControlEffect DEF LoadingHasLoader
  <2>4. CASE Background
    BY <2>4, OthersKeep DEF LoadingHasLoader
  <2>5. CASE ControlPlaneDies \/ UNCHANGED vars
    BY <2>5 DEF ControlPlaneDies, vars, state, LoadingHasLoader
  <2>6. CASE AbortByHand
    BY <2>6, EndsWhen DEF AbortByHand, Ends, Shape
  <2>7. CASE RestartSource \/ RestartTarget
    <3>1. CASE Ends(Source) /\ UNCHANGED loader
      BY <3>1 DEF Ends, Shape, LoadingHasLoader
    <3>2. CASE Ends(Target)
      BY <3>2 DEF Ends, Shape
    <3> QED
      BY <2>7, <3>1, <3>2, RestartEffect
  <2> QED
    BY <2>1, <2>2, <2>3, <2>4, <2>5, <2>6, <2>7 DEF Next, Background
<1> QED
  BY <1>1, <1>2, TypedShape, TypedAlways, StartsOnceAlways, PTL DEF Spec

-----------------------------------------------------------------------------
\* FrozenHasOwner in every state, provided that no freeze or thaw call is lost:
\* the session in the source's State is one whose /reshard handler is on its way
\* to the thaw, or was when the control plane died.  ReshardLostThaw.cfg shows
\* that the assumption is needed.
THEOREM OwnerThaws == ASSUME ~LossyCalls PROVE Spec => []FrozenHasOwner
<1> DEFINE Inv == FrozenHasOwner /\ (status[Source] = "frozen" => ~Live)
<1>1. Init => Inv
  BY AtFirst DEF FrozenHasOwner
<1>2. Shape /\ Inv /\ [Next]_vars => Inv'
  <2> SUFFICES ASSUME Shape, Inv, [Next]_vars PROVE Inv'
    OBVIOUS
  <2> USE NodesDiffer DEF FrozenHasOwner, Shape, InProgress, Ends
  <2>1. ASSUME NEW s \in Sessions, LoaderStep(s) PROVE Inv'
    <3>1. UNCHANGED operator /\ status'[Source] = status[Source]
                             /\ session'[Source] = session[Source]
      BY <2>1, LoaderEffect
    <3> QED
      BY <3>1
  <2>2. ASSUME NEW s \in Sessions, OperatorStep(s) PROVE Inv'
    <3>1. CASE BeginFreeze(s)
      BY <3>1 DEF BeginFreeze, Freeze, SetStatus, Step
    <3>2. CASE BeginLoad(s)
      BY <3>2 DEF BeginLoad, state, StartLoad, SetStatus, Step
    <3>3. CASE PollNormal(s)
      BY <3>3 DEF PollNormal, state, Step
    <3>4. CASE PollTimeout(s)
      BY <3>4, EndsWhen DEF PollTimeout, Step
    <3>5. CASE ThawSource(s)
      BY <3>5, EndsWhen DEF ThawSource, Step
    <3> QED
      BY <2>2, <3>1, <3>2, <3>3, <3>4, <3>5 DEF OperatorStep
  <2>3. ASSUME NEW s \in Sessions, LateLoad(s) PROVE Inv'
    BY <2>3 DEF LateLoad, state, StartLoad, SetStatus
  <2>4. CASE Background
    BY <2>4, OthersKeep
  <2>5. CASE UNCHANGED vars
    BY <2>5 DEF vars, state
  <2>6. CASE AbortByHand
    BY <2>6, EndsWhen DEF AbortByHand
  <2>7. CASE ControlPlaneDies
    BY <2>7 DEF ControlPlaneDies, state
  <2>8. CASE RestartSource \/ RestartTarget
    BY <2>8, RestartEffect
  <2> QED
    BY <2>1, <2>2, <2>3, <2>4, <2>5, <2>6, <2>7, <2>8 DEF Next, Background
<1> QED
  BY <1>1, <1>2, TypedShape, TypedAlways, PTL DEF Spec

-----------------------------------------------------------------------------
\* A load that runs is that of the session in the target's State.
Alone == \A s \in Sessions : loader[s].pc \in LoadingPCs =>
           status[Target] = "loading" /\ session[Target] = s

\* So it is in every state when nobody aborts a load: there is one at a time.
LEMMA AloneStep ==
  ASSUME ~TimesOut, Shape, StartsOnce, Alone, [Next]_vars
  PROVE  Alone'
<1> USE NodesDiffer DEF Alone, SetStatus, Shape, Ends
<1>1. ASSUME NEW s \in Sessions, LoaderStep(s) PROVE Alone'
  <2>1. CASE UNCHANGED <<status, session>>
    <3>1. loader'[s].pc \in LoadingPCs => loader[s].pc \in LoadingPCs
      BY <1>1, <2>1, LoaderEffect DEF LoadingPCs, After
    <3> QED
      BY <1>1, <2>1, <3>1, LoaderEffect
  <2>2. CASE loader[s].pc \in {"tail", "finish"} /\ loader'[s].pc \in {"current", "failed"}
    <3>1. \A t \in Sessions \ {s} : loader[t].pc \notin LoadingPCs
      BY <2>2 DEF LoadingPCs
    <3>2. loader'[s].pc \notin LoadingPCs
      BY <2>2 DEF LoadingPCs
    <3> QED
      BY <1>1, <3>1, <3>2, LoaderEffect
  <2> QED
    BY <1>1, <2>1, <2>2, LoaderEffect
<1>2. ASSUME NEW s \in Sessions, BeginLoad(s) \/ LateLoad(s) PROVE Alone'
  BY <1>2, Started DEF LoadingPCs
<1>3. ASSUME NEW s \in Sessions, OperatorStep(s), ~BeginLoad(s) PROVE Alone'
  BY <1>3, ControlEffect
<1>4. CASE Background
  BY <1>4, OthersKeep
<1>5. CASE AbortByHand \/ ControlPlaneDies \/ UNCHANGED vars
  BY <1>5 DEF AbortByHand, ControlPlaneDies, vars, state
<1>6. CASE RestartSource \/ RestartTarget
  BY <1>6, RestartEffect
<1> QED
  BY <1>1, <1>2, <1>3, <1>4, <1>5, <1>6 DEF Next, Background

LEMMA AloneAlways == ASSUME ~TimesOut PROVE Spec => []Alone
<1>1. Init => Alone
  BY AtFirst DEF Alone, LoadingPCs
<1>2. Shape /\ StartsOnce /\ Alone /\ [Next]_vars => Alone'
  BY AloneStep
<1> QED
  BY <1>1, <1>2, TypedShape, TypedAlways, StartsOnceAlways, PTL DEF Spec

\* CompleteMeansLoaded in every state, for any number of sessions, writes,
\* compactions, restarts between loads, lost calls and deaths of the control
\* plane, provided that no GET of a loader fails, no load is aborted and no node
\* dies during one: "normal" then means that the polled session's own loader has
\* set the partition.
THEOREM CompleteIsLoaded ==
  ASSUME ~LoadFails, ~TimesOut, ~CrashInLoad
  PROVE  Spec => []CompleteMeansLoaded
<1> DEFINE Polled == \A s \in Sessions : operator[s] = "poll" =>
                       Loaded(s) \/ loader[s].pc \in LoadingPCs
           Inv == Polled /\ CompleteMeansLoaded
<1>1. Init => Inv
  BY AtFirst DEF CompleteMeansLoaded
<1>2. Shape /\ StartsOnce /\ Alone /\ Inv /\ [Next]_vars => Inv'
  <2> SUFFICES ASSUME Shape, StartsOnce, Alone, Inv, [Next]_vars PROVE Inv'
    OBVIOUS
  <2> USE DEF CompleteMeansLoaded, Shape
  <2>1. ASSUME NEW s \in Sessions, LoaderStep(s) PROVE Inv'
    <3>1. /\ loader[s].pc \in LoadingPCs => Loaded(s)' \/ loader'[s].pc \in LoadingPCs
          /\ Loaded(s) => Loaded(s)'
      BY <2>1, LoaderEffect DEF LoadingPCs, After, Loaded
    <3>2. UNCHANGED operator /\ \A t \in Sessions \ {s} : loader'[t] = loader[t]
      BY <2>1, LoaderEffect
    <3>3. \A t \in Sessions \ {s} : (Loaded(t) => Loaded(t)')
                                    /\ (loader[t].pc \in LoadingPCs => loader'[t].pc \in LoadingPCs)
      BY <3>2 DEF Loaded
    <3> QED
      BY <3>1, <3>2, <3>3
  <2>2. ASSUME NEW s \in Sessions, BeginLoad(s) PROVE Inv'
    <3>1. \A t \in Sessions \ {s} : loader'[t] = loader[t] /\ operator'[t] = operator[t]
      BY <2>2, Started
    <3>2. \/ operator'[s] \in {"error", "thaw-error"}
          \/ operator'[s] = "poll" /\ loader'[s].pc = "snapshot"
      BY <2>2 DEF BeginLoad, Step, GoTo
    <3>3. \A t \in Sessions \ {s} : (Loaded(t) => Loaded(t)')
                                    /\ (loader[t].pc \in LoadingPCs => loader'[t].pc \in LoadingPCs)
      BY <3>1 DEF Loaded
    <3> QED
      BY <3>1, <3>2, <3>3 DEF LoadingPCs
  <2>3. ASSUME NEW s \in Sessions, LateLoad(s) PROVE Inv'
    <3>1. ~Loaded(s) /\ loader[s].pc \notin LoadingPCs /\ UNCHANGED operator
      BY <2>3 DEF LateLoad, Loaded, LoadingPCs
    <3>2. \A t \in Sessions \ {s} : loader'[t] = loader[t]
      BY <2>3, Started
    <3>3. \A t \in Sessions \ {s} : (Loaded(t) => Loaded(t)')
                                    /\ (loader[t].pc \in LoadingPCs => loader'[t].pc \in LoadingPCs)
      BY <3>2 DEF Loaded
    <3> QED
      BY <3>1, <3>3
  <2>4. ASSUME NEW s \in Sessions, OperatorStep(s), ~BeginLoad(s) PROVE Inv'
    <3>1. UNCHANGED loader
      BY <2>4, ControlEffect
    <3>2. \A t \in Sessions : Loaded(t)' <=> Loaded(t)
      BY <3>1 DEF Loaded
    <3>3. CASE BeginFreeze(s)
      BY <3>1, <3>2, <3>3 DEF BeginFreeze, Step
    <3>4. CASE PollNormal(s)
      <4>1. Loaded(s)
        <5>1. status[Target] # "loading" /\ operator[s] = "poll"
          BY <3>4 DEF PollNormal
        <5> QED
          BY <5>1 DEF Alone
      <4> QED
        BY <3>1, <3>2, <3>4, <4>1 DEF PollNormal, Step
    <3>5. CASE PollTimeout(s)
      BY <3>5 DEF PollTimeout
    <3>6. CASE ThawSource(s)
      BY <3>1, <3>2, <3>6 DEF ThawSource, Step
    <3> QED
      BY <2>4, <3>3, <3>4, <3>5, <3>6 DEF OperatorStep
  <2>5. CASE Background
    BY <2>5, OthersKeep DEF Loaded
  <2>6. CASE AbortByHand \/ UNCHANGED vars
    BY <2>6 DEF AbortByHand, vars, Loaded
  <2>7. CASE ControlPlaneDies
    BY <2>7 DEF ControlPlaneDies, Loaded
  <2>8. CASE RestartSource \/ RestartTarget
    <3>1. ~LoadRuns /\ UNCHANGED operator
      BY <2>8, RestartEffect
    <3>2. \A s \in Sessions : Loaded(s) => Loaded(s)'
      BY <2>8, <3>1, RestartEffect DEF LoadRuns, Loaded
    <3>3. \A s \in Sessions : loader[s].pc \notin LoadingPCs
      BY <3>1 DEF LoadRuns
    <3> QED
      BY <3>1, <3>2, <3>3
  <2> QED
    BY <2>1, <2>2, <2>3, <2>4, <2>5, <2>6, <2>7, <2>8 DEF Next, Background
<1> QED
  BY <1>1, <1>2, TypedShape, TypedAlways, StartsOnceAlways, AloneAlways, PTL DEF Spec

-----------------------------------------------------------------------------
\* h is a prefix of S; q is what S holds behind offset from; no id twice.
PrefixOf(h, S) == Len(h) <= Len(S) /\ \A i \in 1..Len(h) : h[i] = S[i]
SliceOf(q, S, from) ==
    from + Len(q) <= Len(S) /\ \A i \in 1..Len(q) : q[i] = S[from + i]
Distinct(S) == \A i, j \in 1..Len(S) : S[i] = S[j] => i = j

\* An id is in the source's log once, on behalf of the write that was answered.
SourceOnce ==
    /\ Distinct(SourceLog)
    /\ \A i \in 1..Len(SourceLog) :
         /\ <<SourceLog[i], Source>> \in Writes
         /\ handler[<<SourceLog[i], Source>>].pc = "applied"

\* Nobody writes to the target, so it buffers nothing.
NothingBuffered ==
    /\ status[Source] # "loading"
    /\ \A w \in Writes : handler[w].pc # "buffering"
    /\ buffer = <<>>
    /\ \A s \in Sessions : loader[s].drained = <<>>

\* Every partition that the target ever opened is a prefix of the source's.
Copies == \A k \in 2..Len(parts) : PrefixOf(parts[k].hist, SourceLog)

\* The steps of a load that has replaced the directory, or is about to, and has
\* not opened it yet.
Bare == {"unsnap", "rename", "tail", "remove", "open"}

\* So is the directory, and whoever writes to it is at its end: the current
\* partition, but while a load is at it.
Mirrored ==
    /\ PrefixOf(disk.snap, SourceLog)
    /\ SliceOf(disk.wal, SourceLog, Len(disk.snap))
    /\ Len(disk.snap) <= parts[1].base
    /\ \A k \in disk.open : /\ disk.open = {k}
                            /\ Len(parts[k].hist) = Len(disk.snap) + Len(disk.wal)
    /\ disk.open = {cur} \/ \E s \in Sessions : loader[s].pc \in Bare \cup {"fill"}

\* Where in the source's log the entries that a loader holds begin.
From(l) == l.asOf - Len(l.fetched)

\* A loader holds a stretch of the source's log.
Stretch(l, S) == Len(l.fetched) <= l.asOf /\ SliceOf(l.fetched, S, From(l))

\* What a loader knows of offsets, of the partitions ps, of which c is the
\* current one, and of the directory d: the snapshot and what comes behind it ...
KnowsBase(l, ps) ==
    /\ l.pc \in {"clear", "unsnap", "rename", "tail", "remove", "open"} => l.base = ps[1].base
    /\ l.pc \in {"clear", "unsnap", "rename"} =>
         PrefixOf(l.fetched, ps[1].hist) /\ Len(l.fetched) = ps[1].base
    /\ l.pc \in {"remove", "open"} => Stretch(l, ps[1].hist) /\ From(l) = ps[1].base

\* ... the directory ...
KnowsDisk(l, ps, d) ==
    /\ l.pc \in {"unsnap", "rename", "open"} => d.wal = <<>> /\ d.open = {}
    /\ l.pc \in {"tail", "remove", "open"} => Len(d.snap) = ps[1].base
    /\ l.pc = "fill" => d.open = {l.part}

\* ... and the partition.
KnowsPart(l, ps, c) ==
    /\ l.pc \in {"drain", "finish", "current"} => ps[1].base <= Len(ps[c].hist)
    /\ l.pc \in {"fill", "catchup", "caught"} => ps[1].base <= Len(ps[l.part].hist)
    /\ l.pc \in {"fill", "caught"} =>
         /\ Stretch(l, ps[1].hist)
         /\ ps[l.part].forgot <= From(l) /\ From(l) <= Len(ps[l.part].hist)
    /\ l.pc = "done" => l.asOf <= Len(ps[l.part].hist)

PlacedIn(l, ps, c, d) == KnowsBase(l, ps) /\ KnowsDisk(l, ps, d) /\ KnowsPart(l, ps, c)

Placed == \A s \in Sessions : PlacedIn(loader[s], parts, cur, disk)

\* The inductive invariant behind TransferExact.
Exact == SourceOnce /\ NothingBuffered /\ Copies /\ Mirrored /\ Placed

\* Applying the entry of the source's log behind offset `at` to a prefix of that
\* log that reaches it: what is there is skipped, what comes next is appended.
\* This is where the idempotency index and offsets from Head meet.
LEMMA ApplyNext ==
  ASSUME NEW S \in Seq(Ids), Distinct(S), NEW p \in Part, PrefixOf(p.hist, S),
         NEW at \in Nat, at + 1 <= Len(S), p.forgot <= at, at <= Len(p.hist)
  PROVE  /\ PrefixOf(ApplyTo(p, S[at + 1]).hist, S)
         /\ \/ /\ at < Len(p.hist)
               /\ Indexed(p, S[at + 1]) /\ ApplyTo(p, S[at + 1]) = p
            \/ /\ at = Len(p.hist)
               /\ ~Indexed(p, S[at + 1])
               /\ ApplyTo(p, S[at + 1]).hist = Append(p.hist, S[at + 1])
               /\ Len(ApplyTo(p, S[at + 1]).hist) = at + 1
<1> DEFINE e == S[at + 1]
<1>0. /\ p.hist \in Seq(Ids) /\ Len(p.hist) \in Nat /\ Len(S) \in Nat /\ p.forgot \in Nat
      /\ at + 1 \in 1..Len(S) /\ e \in Ids
  BY DEF Part
<1>1. e = S[at + 1]
  OBVIOUS
<1> HIDE DEF e
<1>2. CASE at < Len(p.hist)
  <2>1. at + 1 \in (p.forgot + 1)..Len(p.hist) /\ at + 1 \in 1..Len(p.hist)
    BY <1>0, <1>2
  <2>2. p.hist[at + 1] = e
    BY <1>1, <2>1 DEF PrefixOf
  <2>3. Indexed(p, e)
    BY <2>1, <2>2 DEF Indexed
  <2>4. ApplyTo(p, e) = p
    BY <1>0, <2>3, ApplyToExtends
  <2> QED
    BY <1>1, <1>2, <2>3, <2>4
<1>3. CASE ~(at < Len(p.hist))
  <2>1. Len(p.hist) = at
    BY <1>0, <1>3
  <2>2. ~Indexed(p, e)
    <3> SUFFICES ASSUME NEW i \in (p.forgot + 1)..Len(p.hist), p.hist[i] = e PROVE FALSE
      BY DEF Indexed
    <3>1. i \in 1..Len(p.hist) /\ i \in 1..Len(S) /\ i # at + 1
      BY <1>0, <2>1
    <3>2. S[i] = S[at + 1]
      BY <1>1, <3>1 DEF PrefixOf
    <3> QED
      BY <1>0, <3>1, <3>2 DEF Distinct
  <2>3. ApplyTo(p, e).hist = Append(p.hist, e)
    BY <1>0, <2>2, ApplyToExtends
  <2>4. /\ Len(Append(p.hist, e)) = at + 1
        /\ Append(p.hist, e)[at + 1] = e
        /\ \A i \in 1..at : Append(p.hist, e)[i] = p.hist[i]
    <3>1. /\ Len(Append(p.hist, e)) = Len(p.hist) + 1
          /\ Append(p.hist, e)[Len(p.hist) + 1] = e
          /\ \A i \in 1..Len(p.hist) : Append(p.hist, e)[i] = p.hist[i]
      BY <1>0
    <3> QED
      BY <2>1, <3>1
  <2>5. PrefixOf(Append(p.hist, e), S)
    <3>1. \A i \in 1..(at + 1) : i \in 1..at \/ i = at + 1
      OBVIOUS
    <3> QED
      BY <1>0, <1>1, <2>1, <2>4, <3>1 DEF PrefixOf
  <2> QED
    BY <1>1, <2>1, <2>2, <2>3, <2>4, <2>5
<1> QED
  BY <1>2, <1>3

\* The same of a stretch of the source's log, as partition.Open replays it.
LEMMA ApplySlice ==
  ASSUME NEW S \in Seq(Ids), Distinct(S), NEW p \in Part, PrefixOf(p.hist, S),
         NEW ids \in Seq(Ids), NEW from \in Nat, SliceOf(ids, S, from),
         p.forgot <= from, from <= Len(p.hist)
  PROVE  /\ PrefixOf(ApplyAll(p, ids).hist, S)
         /\ Len(ApplyAll(p, ids).hist) = IF from + Len(ids) > Len(p.hist)
                                           THEN from + Len(ids) ELSE Len(p.hist)
<1> DEFINE Upto(k) == Applying!Fold(p, SubSeq(ids, 1, k))
           Most(k) == IF from + k > Len(p.hist) THEN from + k ELSE Len(p.hist)
           T == {k \in Nat : k <= Len(ids) =>
                   /\ Upto(k) \in Extensions(p)
                   /\ PrefixOf(Upto(k).hist, S)
                   /\ Len(Upto(k).hist) = Most(k)}
<1>0. p.hist \in Seq(Ids) /\ Len(p.hist) \in Nat /\ Len(S) \in Nat /\ Len(ids) \in Nat
      /\ p.forgot \in Nat
  BY DEF Part
<1>1. 0 \in T
  <2>1. Upto(0) = p
    BY Applying!FoldPrefix
  <2>2. p \in Extensions(p) /\ Len(p.hist) = Most(0)
    BY <1>0 DEF Extensions
  <2> QED
    BY <2>1, <2>2
<1>2. ASSUME NEW k \in Nat, k \in T PROVE k + 1 \in T
  <2> SUFFICES ASSUME k + 1 <= Len(ids)
               PROVE  /\ Upto(k + 1) \in Extensions(p)
                      /\ PrefixOf(Upto(k + 1).hist, S)
                      /\ Len(Upto(k + 1).hist) = Most(k + 1)
    OBVIOUS
  <2> DEFINE q == Upto(k)
             e == ids[k + 1]
  <2>1. k < Len(ids) /\ e \in Ids
    BY <1>0
  <2>2. q \in Extensions(p) /\ PrefixOf(q.hist, S) /\ Len(q.hist) = Most(k)
    BY <1>2, <2>1
  <2>3. Upto(k + 1) = ApplyTo(q, e)
    BY <2>1, Applying!FoldPrefix, ZenonT(30)
  <2>4. e = S[from + k + 1] /\ from + k + 1 <= Len(S)
    BY <1>0, <2>1 DEF SliceOf
  <2> HIDE DEF q, e, Upto
  <2>5. q \in Part /\ q.hist \in Seq(Ids) /\ Len(q.hist) \in Nat /\ q.forgot = p.forgot
        /\ Len(p.hist) <= Len(q.hist)
    BY <2>2 DEF Extensions, Part
  <2>6. ApplyTo(q, e) \in Extensions(p)
    <3>1. ApplyTo(q, e) \in Extensions(q)
      BY <2>1, <2>5, ApplyToExtends
    <3>2. Len(ApplyTo(q, e).hist) \in Nat
      BY <3>1 DEF Extensions, Part
    <3> QED
      BY <1>0, <2>2, <2>5, <3>1, <3>2 DEF Extensions
  <2>7. q.forgot <= from + k /\ from + k <= Len(q.hist) /\ from + k \in Nat
    BY <1>0, <2>2, <2>5
  <2>8. PrefixOf(ApplyTo(q, e).hist, S)
        /\ Len(ApplyTo(q, e).hist) = IF from + k < Len(q.hist) THEN Len(q.hist) ELSE from + k + 1
    BY <2>2, <2>4, <2>5, <2>7, ApplyNext
  <2> QED
    BY <1>0, <2>2, <2>3, <2>5, <2>6, <2>8
<1> HIDE DEF T
<1>3. Len(ids) \in T
  BY <1>0, <1>1, <1>2, Applying!Induction
<1>4. Upto(Len(ids)) = ApplyAll(p, ids)
  BY ApplyAllIsFold, Applying!FoldPrefix
<1> QED
  BY <1>0, <1>3, <1>4 DEF T

\* The conditions under which the transfer is exact: clients write to the source
\* alone, no GET of the loader fails and no load is aborted, the source does not
\* compact while a loader runs and the target never does, and no id leaves an
\* idempotency index.  Each of them is needed (README, section 3).
Undisturbed ==
    /\ \A w \in Writes : w[2] = Source
    /\ ~LoadFails /\ ~TimesOut /\ ~CompactsInLoad /\ ~TargetCompacts /\ ~Forgets

\* Prefixes and slices of a log stay so when it grows.
LEMMA PrefixGrows ==
  ASSUME NEW S \in Seq(Ids), NEW S2 \in Seq(Ids), PrefixOf(S, S2),
         NEW h \in Seq(Ids), PrefixOf(h, S)
  PROVE  PrefixOf(h, S2)
<1>1. Len(h) \in Nat /\ Len(S) \in Nat /\ Len(S2) \in Nat
  OBVIOUS
<1>2. \A i \in 1..Len(h) : i \in 1..Len(S)
  BY <1>1 DEF PrefixOf
<1> QED
  BY <1>1, <1>2 DEF PrefixOf

\* The same of a slice.
LEMMA SliceGrows ==
  ASSUME NEW S \in Seq(Ids), NEW S2 \in Seq(Ids), PrefixOf(S, S2),
         NEW q \in Seq(Ids), NEW from \in Nat, SliceOf(q, S, from)
  PROVE  SliceOf(q, S2, from)
<1>1. Len(q) \in Nat /\ Len(S) \in Nat /\ Len(S2) \in Nat
  OBVIOUS
<1>2. \A i \in 1..Len(q) : from + i \in 1..Len(S)
  BY <1>1 DEF SliceOf
<1> QED
  BY <1>1, <1>2 DEF PrefixOf, SliceOf

\* The numbers that the proofs below calculate with.
Numeric ==
    /\ SourceLog \in Seq(Ids) /\ Len(SourceLog) \in Nat
    /\ Len(parts) \in Nat /\ Len(parts) >= 2 /\ cur \in 2..Len(parts)
    /\ \A k \in 1..Len(parts) :
         /\ parts[k] \in Part /\ parts[k].hist \in Seq(Ids) /\ Len(parts[k].hist) \in Nat
         /\ parts[k].base \in Nat /\ parts[k].forgot \in Nat
         /\ parts[k].forgot <= Len(parts[k].hist) /\ parts[k].base <= Len(parts[k].hist)
    /\ disk.snap \in Seq(Ids) /\ Len(disk.snap) \in Nat
    /\ disk.wal \in Seq(Ids) /\ Len(disk.wal) \in Nat

\* They follow from the types ...
LEMMA NumericNow == DataTyped => Numeric
<1> SUFFICES ASSUME DataTyped PROVE Numeric
  OBVIOUS
<1>1. \A k \in 1..Len(parts) : parts[k] \in Sound
  BY DEF DataTyped
<1>2. \A k \in 1..Len(parts) :
         /\ parts[k] \in Part /\ parts[k].hist \in Seq(Ids) /\ Len(parts[k].hist) \in Nat
         /\ parts[k].base \in Nat /\ parts[k].forgot \in Nat
         /\ parts[k].forgot <= Len(parts[k].hist) /\ parts[k].base <= Len(parts[k].hist)
  BY <1>1 DEF Sound, Part
<1>3. /\ disk.snap \in Seq(Ids) /\ Len(disk.snap) \in Nat
      /\ disk.wal \in Seq(Ids) /\ Len(disk.wal) \in Nat
  BY DEF DataTyped
<1> QED
  BY <1>2, <1>3, SourceSound DEF DataTyped, Numeric

\* ... also in the next state.
LEMMA NumericNext == DataTyped' => Numeric'
  BY NumericNow, PTL

\* What every step does to the data, but a compaction and a restart of the target.
Advances ==
    /\ parts[1].base = parts'[1].base
    /\ PrefixOf(SourceLog, SourceLog')
    /\ Len(parts) <= Len(parts')
    /\ \A k \in 2..Len(parts) : /\ Len(parts[k].hist) <= Len(parts'[k].hist)
                                /\ parts[k].forgot = parts'[k].forgot
    /\ parts[1].base <= Len(parts[cur].hist) => parts[1].base <= Len(parts'[cur'].hist)

\* What it does to the directory, unless the load replaces it.
KeepsDisk ==
    /\ disk'.snap = disk.snap /\ disk'.open = disk.open
    /\ disk.open = {} => disk'.wal = disk.wal

\* A stretch of the log stays one.
LEMMA StretchStays ==
  ASSUME NEW l \in LoaderType, NEW S \in Seq(Ids), NEW S2 \in Seq(Ids), PrefixOf(S, S2),
         Stretch(l, S)
  PROVE  Stretch(l, S2)
<1>1. l.fetched \in Seq(Ids) /\ l.asOf \in Nat
  BY DEF LoaderType
<1>2. From(l) \in Nat
  BY <1>1 DEF From, Stretch
<1> QED
  BY <1>1, <1>2, SliceGrows DEF Stretch

\* A loader that does not move keeps knowing its offsets.
LEMMA PlacedStays ==
  ASSUME DataTyped, DataTyped', Advances, NEW l \in LoaderType,
         l.pc \in Holding => l.part \in 2..Len(parts),
         l.pc \in LoadingPCs => KeepsDisk, PlacedIn(l, parts, cur, disk)
  PROVE  PlacedIn(l, parts', cur', disk')
<1>0. /\ l.base \in Nat /\ l.asOf \in Nat /\ l.fetched \in Seq(Ids) /\ Len(l.fetched) \in Nat
      /\ SourceLog \in Seq(Ids) /\ SourceLog' \in Seq(Ids) /\ PrefixOf(SourceLog, SourceLog')
      /\ parts'[1].base = parts[1].base /\ Numeric /\ Numeric'
  BY NumericNow, NumericNext DEF Advances, Numeric, LoaderType
<1>1. KnowsBase(l, parts')
  <2>1. PrefixOf(l.fetched, SourceLog) => PrefixOf(l.fetched, SourceLog')
    BY <1>0, PrefixGrows
  <2>2. Stretch(l, SourceLog) => Stretch(l, SourceLog')
    BY <1>0, StretchStays
  <2> QED
    BY <1>0, <2>1, <2>2 DEF PlacedIn, KnowsBase, SourceLog
<1>2. KnowsDisk(l, parts', disk')
  BY <1>0 DEF PlacedIn, KnowsDisk, KeepsDisk, LoadingPCs
<1>3. KnowsPart(l, parts', cur')
  <2>1. l.pc \in {"drain", "finish", "current"} => parts'[1].base <= Len(parts'[cur'].hist)
    BY DEF PlacedIn, KnowsPart, Advances
  <2>2. ASSUME l.pc \in Holding
        PROVE  /\ Len(parts[l.part].hist) <= Len(parts'[l.part].hist)
               /\ parts[l.part].forgot = parts'[l.part].forgot
               /\ Len(parts[l.part].hist) \in Nat /\ Len(parts'[l.part].hist) \in Nat
               /\ parts[1].base \in Nat
    <3>1. l.part \in 2..Len(parts) /\ l.part \in 1..Len(parts) /\ l.part \in 1..Len(parts')
          /\ 1 \in 1..Len(parts)
      <4>1. Len(parts) \in Nat /\ Len(parts') \in Nat /\ Len(parts) >= 2 /\ Len(parts) <= Len(parts')
        BY <1>0 DEF Advances, Numeric
      <4>2. l.part \in 2..Len(parts)
        BY <2>2
      <4> QED
        BY <4>1, <4>2
    <3> QED
      BY <1>0, <3>1 DEF Advances, Numeric
  <2>6. \A a, b, c \in Nat : a <= b /\ b <= c => a <= c
    OBVIOUS
  <2>3. ASSUME l.pc \in {"fill", "catchup", "caught"}
        PROVE  parts'[1].base <= Len(parts'[l.part].hist)
    <3>1. parts[1].base <= Len(parts[l.part].hist) /\ l.pc \in Holding
      BY <2>3 DEF PlacedIn, KnowsPart, Holding
    <3> QED
      BY <1>0, <2>2, <2>6, <3>1
  <2>4. ASSUME l.pc = "done" PROVE l.asOf <= Len(parts'[l.part].hist)
    <3>1. l.asOf <= Len(parts[l.part].hist) /\ l.pc \in Holding
      BY <2>4 DEF PlacedIn, KnowsPart, Holding
    <3> QED
      BY <1>0, <2>2, <2>6, <3>1
  <2>5. ASSUME l.pc \in {"fill", "caught"}
        PROVE  /\ Stretch(l, SourceLog')
               /\ parts'[l.part].forgot <= From(l) /\ From(l) <= Len(parts'[l.part].hist)
    <3>1. Stretch(l, SourceLog) /\ parts[l.part].forgot <= From(l) /\ From(l) <= Len(parts[l.part].hist)
      BY <2>5 DEF PlacedIn, KnowsPart, SourceLog
    <3>2. From(l) \in Nat
      BY <1>0, <3>1 DEF From, Stretch
    <3>3. l.pc \in Holding
      BY <2>5 DEF Holding
    <3>4. Stretch(l, SourceLog')
      BY <1>0, <3>1, StretchStays
    <3>5. From(l) <= Len(parts'[l.part].hist)
      BY <2>2, <2>6, <3>1, <3>2, <3>3
    <3> QED
      BY <2>2, <3>1, <3>3, <3>4, <3>5
  <2> QED
    BY <2>1, <2>3, <2>4, <2>5 DEF KnowsPart, SourceLog
<1> QED
  BY <1>1, <1>2, <1>3 DEF PlacedIn

\* So does every loader but the one that moves, when that one is loading: there is
\* no other (Alone), or leaves the directory open as it is.
LEMMA MoveExact ==
  ASSUME Undisturbed, Typed, Typed', Alone, Exact, NEW s \in Sessions, NEW l \in LoaderType,
         loader' = [loader EXCEPT ![s] = l], l.drained = <<>>,
         UNCHANGED handler, status'[Source] = status[Source], buffer' = <<>>,
         SourceLog' = SourceLog, Advances, Copies', Mirrored',
         loader[s].pc \in LoadingPCs \/ KeepsDisk,
         PlacedIn(l, parts', cur', disk')
  PROVE  Exact'
<1>0. DataTyped /\ DataTyped' /\ loader \in [Sessions -> LoaderType]
  BY DEF Typed, ActorsTyped
<1>1. loader'[s] = l /\ \A t \in Sessions : t # s => loader'[t] = loader[t]
  BY <1>0
<1>2. SourceOnce'
  BY DEF Exact, SourceOnce
<1>3. NothingBuffered'
  BY <1>1 DEF Exact, NothingBuffered
<1>4. Placed'
  <2> SUFFICES ASSUME NEW t \in Sessions, t # s PROVE PlacedIn(loader[t], parts', cur', disk')
    BY <1>1 DEF Placed
  <2>1. loader[t].pc \in LoadingPCs => KeepsDisk
    BY DEF Alone
  <2>2. /\ loader[t] \in LoaderType /\ PlacedIn(loader[t], parts, cur, disk)
        /\ loader[t].pc \in Holding => loader[t].part \in 2..Len(parts)
    BY <1>0 DEF Exact, Placed, Typed, Holds
  <2> QED
    BY <1>0, <2>1, <2>2, PlacedStays
<1> QED
  BY <1>2, <1>3, <1>4 DEF Exact

\* The steps that leave data and directory alone.
LEMMA SameData ==
  ASSUME DataTyped, Exact, UNCHANGED data
  PROVE  /\ SourceLog' = SourceLog /\ Copies' /\ Advances /\ KeepsDisk
         /\ \A l : PlacedIn(l, parts, cur, disk) => PlacedIn(l, parts', cur', disk')
         /\ ((\E t \in Sessions : loader[t].pc \in Bare \cup {"fill"}) =>
               (\E t \in Sessions : loader'[t].pc \in Bare \cup {"fill"})) => Mirrored'
<1> USE DEF data, SourceLog
<1>1. Numeric
  BY NumericNow
<1>2. Copies'
  BY DEF Exact, Copies, PrefixOf
<1>3. Advances /\ KeepsDisk
  <2>1. PrefixOf(SourceLog, SourceLog')
    BY <1>1 DEF PrefixOf, Numeric
  <2>2. \A k \in 2..Len(parts) : Len(parts[k].hist) <= Len(parts'[k].hist)
    <3>1. \A k \in 2..Len(parts) : k \in 1..Len(parts)
      BY <1>1 DEF Numeric
    <3> QED
      BY <1>1, <3>1 DEF Numeric
  <2> QED
    BY <1>1, <2>1, <2>2 DEF Advances, KeepsDisk, Numeric
<1>4. ASSUME (\E t \in Sessions : loader[t].pc \in Bare \cup {"fill"}) =>
               (\E t \in Sessions : loader'[t].pc \in Bare \cup {"fill"})
      PROVE  Mirrored'
  BY <1>4 DEF Exact, Mirrored, PrefixOf, SliceOf
<1> QED
  BY <1>2, <1>3, <1>4

\* A write handler, all of whose writes go to the source, keeps the copies exact.
LEMMA HandlerExact ==
  ASSUME Undisturbed, Typed, Typed', Exact, NEW w \in Writes, HandlerStep(w)
  PROVE  Exact'
<1>0. DataTyped /\ DataTyped' /\ Numeric /\ Numeric' /\ handler \in [Writes -> [pc : PCs.handler, part : Nat]]
      /\ loader \in [Sessions -> LoaderType]
  BY NumericNow, NumericNext DEF Typed, ActorsTyped
<1>1. CASE CheckFrozen(w) \/ CheckLoading(w) \/ GetPartition(w)
  <2>1. UNCHANGED <<state, buffer, data, loader, operator, restarts>>
    BY <1>1 DEF CheckFrozen, CheckLoading, GetPartition
  <2>2. \A v \in Writes : /\ handler[v].pc = "applied" => handler'[v].pc = "applied"
                          /\ handler'[v].pc # "buffering"
    <3>1. CASE CheckFrozen(w)
      BY <1>0, <3>1 DEF CheckFrozen, Exact, NothingBuffered
    <3>2. CASE CheckLoading(w)
      <4>1. status[w[2]] # "loading"
        BY DEF Undisturbed, Exact, NothingBuffered
      <4> QED
        BY <1>0, <3>2, <4>1 DEF CheckLoading, Exact, NothingBuffered
    <3>3. CASE GetPartition(w)
      BY <1>0, <3>3 DEF GetPartition, Exact, NothingBuffered
    <3> QED
      BY <1>1, <3>1, <3>2, <3>3
  <2>3. /\ SourceLog' = SourceLog /\ Copies' /\ Mirrored'
        /\ \A l : PlacedIn(l, parts, cur, disk) => PlacedIn(l, parts', cur', disk')
    BY <1>0, <2>1, SameData
  <2>4. SourceOnce' /\ Placed'
    BY <2>1, <2>2, <2>3 DEF Exact, SourceOnce, Placed
  <2>5. NothingBuffered'
    BY <2>1, <2>2 DEF state, Exact, NothingBuffered
  <2> QED
    BY <2>3, <2>4, <2>5 DEF Exact
<1>2. CASE BufferWrite(w)
  BY <1>2 DEF BufferWrite, Exact, NothingBuffered
<1>3. CASE ApplyWrite(w)
  <2> DEFINE id == w[1]
             S == SourceLog
             p == parts[1]
  <2>1. /\ handler[w].pc = "applying" /\ handler' = [handler EXCEPT ![w].pc = "applied"]
        /\ ApplyIn(handler[w].part, id)
        /\ UNCHANGED <<state, buffer, cur, loader, operator, restarts>>
    BY <1>3 DEF ApplyWrite
  <2>2. w = <<id, Source>> /\ id \in Ids
    <3>1. Writes \subseteq Ids \X Nodes
      BY ReshardAssumption, Zenon
    <3>2. w[2] = Source
      BY DEF Undisturbed
    <3> QED
      BY <3>1, <3>2
  <2>3. handler[w].part = 1
    BY <2>1, <2>2 DEF Typed, Holds
  <2>4. 1 \in 1..Len(parts) /\ p \in Part
    BY <1>0, <2>2, SMTT(30) DEF Numeric
  <2>5. /\ Len(parts') = Len(parts) /\ parts'[1] = ApplyTo(p, id)
        /\ \A k \in 2..Len(parts) : parts'[k] = parts[k]
        /\ parts'[1] \in Extensions(p)
        /\ disk' = disk
    <3>1. ApplyIn(1, id)
      BY <2>1, <2>3
    <3>2. \A k \in 2..Len(parts) : k \in 1..Len(parts) /\ k # 1
      BY <1>0 DEF Numeric
    <3>3. 1 \notin disk.open
      BY <1>0 DEF DataTyped
    <3> HIDE DEF id, p
    <3>4. /\ Len(parts') = Len(parts) /\ parts'[1] = ApplyTo(parts[1], id)
          /\ \A j \in 1..Len(parts) : j # 1 => parts'[j] = parts[j]
          /\ parts'[1] \in Extensions(parts[1])
          /\ disk' = disk
      BY <1>0, <2>2, <2>4, <3>1, <3>3, ApplyInEffect
    <3> QED
      BY <3>2, <3>4 DEF p
  <2>8. \A i \in 1..Len(S) : S[i] # id
    BY <2>1, <2>2 DEF Exact, SourceOnce
  <2>9. ~Indexed(p, id)
    <3>1. \A i \in (p.forgot + 1)..Len(p.hist) : i \in 1..Len(S)
      BY <1>0, <2>4 DEF Numeric, SourceLog
    <3> QED
      BY <2>8, <3>1 DEF Indexed, SourceLog
  <2>10. SourceLog' = Append(S, id)
    BY <2>2, <2>4, <2>5, <2>9, ApplyToExtends DEF SourceLog
  <2>11. /\ Len(SourceLog') = Len(S) + 1 /\ SourceLog'[Len(S) + 1] = id
         /\ \A i \in 1..Len(S) : SourceLog'[i] = S[i]
    BY <1>0, <2>2, <2>10 DEF Numeric
  <2> HIDE DEF S, p
  <2>12. \A i \in 1..Len(SourceLog') : i \in 1..Len(S) \/ i = Len(S) + 1
    BY <1>0, <2>11 DEF Numeric, S
  <2>13. Distinct(SourceLog')
    BY <2>8, <2>11, <2>12 DEF Distinct, Exact, SourceOnce, S
  <2>14. \A i \in 1..Len(SourceLog') :
           /\ <<SourceLog'[i], Source>> \in Writes
           /\ handler'[<<SourceLog'[i], Source>>].pc = "applied"
    <3>1. \A v \in Writes : handler[v].pc = "applied" => handler'[v].pc = "applied"
      BY <1>0, <2>1
    <3>2. handler'[w].pc = "applied"
      BY <1>0, <2>1
    <3> QED
      BY <2>2, <2>11, <2>12, <3>1, <3>2 DEF Exact, SourceOnce, S
  <2>15. SourceOnce'
    BY <2>13, <2>14 DEF SourceOnce
  <2>16. PrefixOf(SourceLog, SourceLog')
    BY <1>0, <2>11 DEF PrefixOf, Numeric, S
  <2>17. Copies'
    <3> SUFFICES ASSUME NEW k \in 2..Len(parts') PROVE PrefixOf(parts'[k].hist, SourceLog')
      BY DEF Copies
    <3>1. k \in 2..Len(parts) /\ k \in 1..Len(parts) /\ parts'[k] = parts[k]
      BY <1>0, <2>5 DEF Numeric
    <3> QED
      BY <1>0, <2>16, <3>1, PrefixGrows DEF Exact, Copies, Numeric
  <2>18. parts'[1].base = parts[1].base /\ parts'[cur'] = parts[cur]
    BY <1>0, <2>1, <2>5 DEF Extensions, Numeric, p
  <2>19. Mirrored'
    <3>1. PrefixOf(disk.snap, SourceLog') /\ SliceOf(disk.wal, SourceLog', Len(disk.snap))
      BY <1>0, <2>16, PrefixGrows, SliceGrows DEF Exact, Mirrored, Numeric
    <3>2. \A k \in disk.open : parts'[k] = parts[k]
      BY <1>0, <2>5 DEF DataTyped
    <3> QED
      BY <2>1, <2>5, <2>18, <3>1, <3>2 DEF Exact, Mirrored
  <2>20. Advances /\ KeepsDisk
    <3>1. \A k \in 2..Len(parts) : Len(parts[k].hist) <= Len(parts'[k].hist)
      <4> TAKE k \in 2..Len(parts)
      <4>1. k \in 1..Len(parts)
        BY <1>0 DEF Numeric
      <4> QED
        BY <1>0, <2>5, <4>1 DEF Numeric
    <3> QED
      BY <1>0, <2>5, <2>16, <2>18, <3>1 DEF Advances, Numeric, KeepsDisk
  <2>21. Placed'
    BY <1>0, <2>1, <2>20, PlacedStays DEF Placed, Exact, Typed, Holds
  <2>22. NothingBuffered'
    BY <1>0, <2>1 DEF state, Exact, NothingBuffered
  <2> QED
    BY <2>15, <2>17, <2>19, <2>21, <2>22 DEF Exact
<1> QED
  BY <1>1, <1>2, <1>3 DEF HandlerStep

\* A loader that starts, or a call for it, has no part in the data yet.
LEMMA StartExact ==
  ASSUME Typed, Exact, UNCHANGED <<data, handler>>, buffer' \in {<<>>, buffer},
         status'[Source] # "loading", NEW s \in Sessions,
         \/ UNCHANGED loader
         \/ /\ loader[s].pc \in {"idle", "called"}
            /\ \E pc \in {"idle", "called", "snapshot"} : GoTo(s, pc)
  PROVE  Exact'
<1>0. DataTyped /\ loader \in [Sessions -> LoaderType]
  BY DEF Typed, ActorsTyped
<1>1. /\ SourceLog' = SourceLog /\ Copies'
      /\ \A l : PlacedIn(l, parts, cur, disk) => PlacedIn(l, parts', cur', disk')
  BY <1>0, SameData
<1>2. SourceOnce'
  BY <1>1 DEF Exact, SourceOnce
<1>3. CASE UNCHANGED loader
  <2>1. Mirrored' /\ Placed'
    BY <1>0, <1>1, <1>3, SameData DEF Exact, Placed
  <2>2. NothingBuffered'
    BY <1>3 DEF Exact, NothingBuffered
  <2> QED
    BY <1>1, <1>2, <2>1, <2>2 DEF Exact
<1>4. ASSUME NEW pc \in {"idle", "called", "snapshot"}, GoTo(s, pc),
             loader[s].pc \in {"idle", "called"}
      PROVE  Exact'
  <2>1. /\ loader'[s].pc = pc /\ loader'[s].drained = loader[s].drained
        /\ \A t \in Sessions : t # s => loader'[t] = loader[t]
    BY <1>0, <1>4 DEF GoTo, LoaderType
  <2>2. Mirrored'
    <3>1. \A t \in Sessions : loader[t].pc \in Bare \cup {"fill"} => loader'[t] = loader[t]
      BY <1>4, <2>1 DEF Bare
    <3> QED
      BY <1>0, <3>1, SameData
  <2>3. Placed'
    <3>1. PlacedIn(loader'[s], parts', cur', disk')
      BY <2>1 DEF PlacedIn, KnowsBase, KnowsDisk, KnowsPart
    <3> QED
      BY <1>1, <2>1, <3>1 DEF Exact, Placed
  <2>4. NothingBuffered'
    BY <2>1 DEF Exact, NothingBuffered
  <2> QED
    BY <1>1, <1>2, <2>2, <2>3, <2>4 DEF Exact
<1> QED
  BY <1>3, <1>4

\* Nor has the control plane.
LEMMA ControlExact ==
  ASSUME Undisturbed, Typed, StartsOnce, Exact,
         \/ \E s \in Sessions : OperatorStep(s) \/ LateLoad(s)
         \/ AbortByHand \/ ControlPlaneDies
  PROVE  Exact'
<1> USE NodesDiffer
<1>0. Shape
  BY TypedShape
<1>1. ASSUME NEW s \in Sessions, BeginLoad(s) \/ LateLoad(s) PROVE Exact'
  <2>1. UNCHANGED <<data, handler>> /\ buffer' \in {<<>>, buffer}
    BY <1>1 DEF BeginLoad, LateLoad, StartLoad
  <2>2. status'[Source] # "loading"
    BY <1>0, <1>1, Started DEF SetStatus, Shape, Exact, NothingBuffered
  <2>3. loader[s].pc \in {"idle", "called"}
    BY <1>0, <1>1, Started
  <2>4. UNCHANGED loader \/ \E pc \in {"idle", "called", "snapshot"} : GoTo(s, pc)
    BY <1>1 DEF BeginLoad, LateLoad
  <2> QED
    BY <2>1, <2>2, <2>3, <2>4, StartExact
<1>2. ASSUME NEW s \in Sessions, OperatorStep(s), ~BeginLoad(s) PROVE Exact'
  <2>1. UNCHANGED <<data, handler, buffer>>
    BY <1>2 DEF OperatorStep, BeginFreeze, PollNormal, PollTimeout, ThawSource
  <2>2. status'[Source] # "loading"
    BY <1>0, <1>2, ControlEffect DEF SetStatus, Ends, Shape, Exact, NothingBuffered
  <2>3. UNCHANGED loader
    BY <1>0, <1>2, ControlEffect
  <2> QED
    BY <2>1, <2>2, <2>3, StartExact
<1>3. ~AbortByHand
  BY DEF AbortByHand, Undisturbed
<1>4. CASE ControlPlaneDies
  <2>1. UNCHANGED <<state, data, handler, buffer, loader>> /\ \E s \in Sessions : TRUE
    BY <1>4 DEF ControlPlaneDies
  <2> QED
    BY <2>1, StartExact DEF state, Exact, NothingBuffered
<1> QED
  BY <1>1, <1>2, <1>3, <1>4

\* What is behind offset k of a log.
LEMMA TailIsSlice ==
  ASSUME NEW S \in Seq(Ids), NEW k \in Nat, k <= Len(S)
  PROVE  /\ Len(SubSeq(S, k + 1, Len(S))) = Len(S) - k
         /\ SliceOf(SubSeq(S, k + 1, Len(S)), S, k)
<1> DEFINE q == SubSeq(S, k + 1, Len(S))
<1>0. Len(S) \in Nat
  OBVIOUS
<1>1. Len(q) = Len(S) - k
  BY <1>0
<1>2. \A i \in 1..(Len(S) - k) : q[i] = S[k + i]
  <2> TAKE i \in 1..(Len(S) - k)
  <2>1. q[i] = S[k + 1 + i - 1] /\ k + 1 + i - 1 = k + i
    BY <1>0
  <2> QED
    BY <2>1
<1> HIDE DEF q
<1>3. SliceOf(q, S, k)
  BY <1>0, <1>1, <1>2 DEF SliceOf
<1> QED
  BY <1>1, <1>3 DEF q

\* Log.Since of the source, from its base on, is what it holds behind an offset.
LEMMA SinceIsStretch ==
  ASSUME Numeric, NEW n \in Nat, parts[1].base <= n, n <= Len(SourceLog), NEW l \in LoaderType,
         l.fetched = Since(parts[1], n), l.asOf = Len(SourceLog)
  PROVE  Stretch(l, SourceLog) /\ From(l) = n
<1>0. SourceLog \in Seq(Ids) /\ Len(SourceLog) \in Nat /\ parts[1].base \in Nat
  BY DEF Numeric
<1>1. l.fetched = SubSeq(SourceLog, n + 1, Len(SourceLog))
  <2>1. ~(n < parts[1].base)
    BY <1>0
  <2> QED
    BY <2>1 DEF Since, SourceLog
<1>2. Len(l.fetched) = Len(SourceLog) - n /\ SliceOf(l.fetched, SourceLog, n)
  BY <1>0, <1>1, TailIsSlice
<1>3. Len(l.fetched) <= l.asOf /\ From(l) = n
  BY <1>0, <1>2 DEF From
<1> QED
  BY <1>2, <1>3 DEF Stretch

\* What an invariant says of one loader.
LEMMA LoaderNow ==
  ASSUME Typed, Exact, NEW s \in Sessions
  PROVE  /\ DataTyped /\ Numeric /\ loader \in [Sessions -> LoaderType] /\ loader[s] \in LoaderType
         /\ 1 \in 1..Len(parts) /\ loader[s].drained = <<>> /\ buffer = <<>>
         /\ PlacedIn(loader[s], parts, cur, disk)
<1>1. DataTyped /\ loader \in [Sessions -> LoaderType] /\ loader[s] \in LoaderType
  BY DEF Typed, ActorsTyped
<1>2. Numeric
  BY <1>1, NumericNow
<1>3. 1 \in 1..Len(parts)
  BY <1>2 DEF Numeric
<1>4. loader[s].drained = <<>> /\ buffer = <<>> /\ PlacedIn(loader[s], parts, cur, disk)
  BY DEF Exact, NothingBuffered, Placed
<1> QED
  BY <1>1, <1>2, <1>3, <1>4

\* A step of a loader that leaves data and directory alone.
LEMMA QuietMove ==
  ASSUME Undisturbed, Typed, Typed', Alone, Exact, NEW s \in Sessions, NEW l \in LoaderType,
         loader' = [loader EXCEPT ![s] = l], l.drained = <<>>,
         UNCHANGED <<data, handler>>, status'[Source] = status[Source], buffer' = <<>>,
         loader[s].pc \in Bare \cup {"fill"} => l.pc \in Bare \cup {"fill"},
         PlacedIn(l, parts, cur, disk)
  PROVE  Exact'
<1>1. DataTyped /\ loader \in [Sessions -> LoaderType]
  BY DEF Typed, ActorsTyped
<1>2. loader'[s] = l /\ \A t \in Sessions : t # s => loader'[t] = loader[t]
  BY <1>1
<1>3. (\E t \in Sessions : loader[t].pc \in Bare \cup {"fill"}) =>
        (\E t \in Sessions : loader'[t].pc \in Bare \cup {"fill"})
  BY <1>2
<1>4. SourceLog' = SourceLog /\ Copies' /\ Advances /\ KeepsDisk /\ Mirrored'
      /\ PlacedIn(l, parts', cur', disk')
  BY <1>1, <1>3, SameData
<1> QED
  BY <1>4, MoveExact

\* The requests to the source: what is fetched continues what the target has.
LEMMA FetchExact ==
  ASSUME Undisturbed, Typed, Typed', Alone, Exact, NEW s \in Sessions,
         FetchSnapshot(s) \/ LoadTail(s) \/ CatchUpFetch(s)
  PROVE  Exact'
<1> DEFINE b == parts[1].base
           S == SourceLog
<1>0. /\ DataTyped /\ Numeric /\ loader \in [Sessions -> LoaderType] /\ loader[s] \in LoaderType
      /\ loader[s].drained = <<>> /\ buffer = <<>> /\ PlacedIn(loader[s], parts, cur, disk)
      /\ b \in Nat /\ b <= Len(S) /\ S \in Seq(Ids) /\ Len(S) \in Nat
  BY LoaderNow DEF Numeric, SourceLog
<1>1. UNCHANGED <<data, handler>> /\ status'[Source] = status[Source] /\ buffer' = <<>>
  BY <1>0 DEF FetchSnapshot, LoadTail, CatchUpFetch, state
<1>2. ASSUME loader[s].pc = "snapshot", b > 0,
             loader' = [loader EXCEPT ![s].base = b, ![s].fetched = SubSeq(S, 1, b),
                                      ![s].pc = "clear"]
      PROVE  Exact'
  <2> DEFINE l == [loader[s] EXCEPT !.base = b, !.fetched = SubSeq(S, 1, b), !.pc = "clear"]
  <2>1. /\ SubSeq(S, 1, b) \in Seq(Ids) /\ Len(SubSeq(S, 1, b)) = b
        /\ \A i \in 1..b : SubSeq(S, 1, b)[i] = S[i]
    BY <1>0
  <2>2. PrefixOf(SubSeq(S, 1, b), S)
    BY <1>0, <2>1 DEF PrefixOf
  <2>3. /\ l \in LoaderType /\ l.pc = "clear" /\ l.base = b /\ l.drained = loader[s].drained
        /\ l.fetched = SubSeq(S, 1, b)
    BY <1>0, <2>1 DEF LoaderType, PCs
  <2>4. loader' = [loader EXCEPT ![s] = l]
    BY <1>0, <1>2
  <2> HIDE DEF l, b
  <2>5. PlacedIn(l, parts, cur, disk)
    BY <2>1, <2>2, <2>3 DEF PlacedIn, KnowsBase, KnowsDisk, KnowsPart, SourceLog, b
  <2>6. loader[s].pc \notin Bare \cup {"fill"}
    BY <1>2 DEF Bare
  <2> QED
    BY <1>0, <1>1, <2>3, <2>4, <2>5, <2>6, QuietMove
<1>3. ASSUME loader[s].pc = "snapshot", b = 0,
             loader' = [loader EXCEPT ![s].base = 0, ![s].pc = "tail"]
      PROVE  Exact'
  <2> DEFINE l == [loader[s] EXCEPT !.base = 0, !.pc = "tail"]
  <2>1. l \in LoaderType /\ l.pc = "tail" /\ l.base = 0 /\ l.drained = loader[s].drained
    BY <1>0 DEF LoaderType, PCs
  <2>2. loader' = [loader EXCEPT ![s] = l]
    BY <1>0, <1>3
  <2>3. Len(disk.snap) = 0
    BY <1>0, <1>3 DEF Exact, Mirrored, Numeric
  <2> HIDE DEF l, b
  <2>4. PlacedIn(l, parts, cur, disk)
    BY <1>3, <2>1, <2>3 DEF PlacedIn, KnowsBase, KnowsDisk, KnowsPart, b
  <2>5. loader[s].pc \notin Bare \cup {"fill"}
    BY <1>3 DEF Bare
  <2> QED
    BY <1>0, <1>1, <2>1, <2>2, <2>4, <2>5, QuietMove
<1>4. ASSUME NEW n \in Nat, b <= n, n <= Len(S), NEW pc \in {"remove", "caught"},
             Fetched(s, n, pc)
      PROVE  \E l \in LoaderType :
               /\ loader' = [loader EXCEPT ![s] = l]
               /\ l.pc = pc /\ l.base = loader[s].base /\ l.part = loader[s].part /\ l.drained = <<>>
               /\ Stretch(l, S) /\ From(l) = n
  <2> DEFINE l == [loader[s] EXCEPT !.fetched = Since(parts[1], n), !.asOf = Len(S), !.pc = pc]
  <2>1. Since(parts[1], n) \in Seq(Ids)
    <3>1. parts[1] \in Part
      BY <1>0, LoaderNow DEF Numeric
    <3> QED
      BY <3>1, SinceTyped
  <2>2. /\ l \in LoaderType /\ l.pc = pc /\ l.base = loader[s].base /\ l.part = loader[s].part
        /\ l.drained = <<>> /\ l.fetched = Since(parts[1], n) /\ l.asOf = Len(S)
    BY <1>0, <2>1 DEF LoaderType, PCs
  <2>3. loader' = [loader EXCEPT ![s] = l]
    BY <1>0, <1>4 DEF Fetched
  <2> HIDE DEF l
  <2>4. Stretch(l, S) /\ From(l) = n
    BY <1>0, <1>4, <2>2, SinceIsStretch
  <2> QED
    BY <2>2, <2>3, <2>4
<1>5. CASE LoadTail(s)
  <2>1. loader[s].pc = "tail" /\ Fetched(s, loader[s].base, "remove")
    BY <1>5 DEF LoadTail
  <2>2. loader[s].base = b /\ Len(disk.snap) = b
    BY <1>0, <2>1 DEF PlacedIn, KnowsBase, KnowsDisk
  <2>3. PICK l \in LoaderType :
               /\ loader' = [loader EXCEPT ![s] = l]
               /\ l.pc = "remove" /\ l.base = loader[s].base /\ l.drained = <<>>
               /\ Stretch(l, S) /\ From(l) = b
    BY <1>0, <1>4, <2>1, <2>2
  <2> HIDE DEF b
  <2>4. PlacedIn(l, parts, cur, disk)
    BY <2>2, <2>3 DEF PlacedIn, KnowsBase, KnowsDisk, KnowsPart, SourceLog, b
  <2>5. l.pc \in Bare
    BY <2>3 DEF Bare
  <2> QED
    BY <1>0, <1>1, <2>3, <2>4, <2>5, QuietMove
<1>6. CASE CatchUpFetch(s)
  <2> DEFINE k == loader[s].part
             n == Len(parts[k].hist)
  <2>1. loader[s].pc = "catchup" /\ Fetched(s, n, "caught")
    BY <1>6 DEF CatchUpFetch
  <2>2. k \in 2..Len(parts) /\ k \in 1..Len(parts)
    <3>1. k \in 2..Len(parts)
      BY <2>1 DEF Typed, Holds, Holding
    <3> QED
      BY <1>0, <3>1 DEF Numeric
  <2>3. n \in Nat /\ b <= n /\ n <= Len(S) /\ parts[k].forgot <= n
    <3>1. b <= n
      BY <1>0, <2>1 DEF PlacedIn, KnowsPart
    <3> QED
      BY <1>0, <2>2, <3>1 DEF Exact, Copies, PrefixOf, Numeric
  <2>4. PICK l \in LoaderType :
               /\ loader' = [loader EXCEPT ![s] = l]
               /\ l.pc = "caught" /\ l.part = k /\ l.drained = <<>>
               /\ Stretch(l, S) /\ From(l) = n
    BY <1>4, <2>1, <2>3
  <2>5. n <= n
    BY <2>3
  <2> HIDE DEF b
  <2>6. PlacedIn(l, parts, cur, disk)
    BY <2>3, <2>4, <2>5 DEF PlacedIn, KnowsBase, KnowsDisk, KnowsPart, SourceLog, b
  <2>7. loader[s].pc \notin Bare \cup {"fill"}
    BY <2>1 DEF Bare
  <2> QED
    BY <1>0, <1>1, <2>4, <2>6, <2>7, QuietMove
<1>7. CASE FetchSnapshot(s)
  BY <1>2, <1>3, <1>7 DEF FetchSnapshot, Undisturbed
<1> QED
  BY <1>5, <1>6, <1>7

\* The steps that only move on: the drained buffer is empty.
LEMMA WalkExact ==
  ASSUME Undisturbed, Typed, Typed', Alone, Exact, NEW s \in Sessions,
         DrainBuffer(s) \/ FinishLoading(s) \/ TakePartition(s) \/ CatchUpRound(s)
  PROVE  Exact'
<1>0. /\ DataTyped /\ Numeric /\ loader \in [Sessions -> LoaderType] /\ loader[s] \in LoaderType
      /\ loader[s].drained = <<>> /\ buffer = <<>> /\ PlacedIn(loader[s], parts, cur, disk)
  BY LoaderNow
<1>1. UNCHANGED <<data, handler>> /\ buffer' = <<>>
  BY <1>0 DEF DrainBuffer, FinishLoading, TakePartition, CatchUpRound
<1>2. status'[Source] = status[Source]
  <2>1. CASE FinishLoading(s)
    BY <2>1, EndsWhen, NodesDiffer, TypedShape DEF FinishLoading, Ends, Shape
  <2> QED
    BY <2>1 DEF DrainBuffer, TakePartition, CatchUpRound, state
<1>3. /\ loader[s].pc \in {"drain", "finish", "current", "caught"}
      /\ loader[s].pc \notin Bare \cup {"fill"}
  BY DEF DrainBuffer, FinishLoading, TakePartition, CatchUpRound, Bare
<1>4. CASE DrainBuffer(s) \/ FinishLoading(s)
  <2>1. PICK pc \in {"finish", "current"} :
          loader' = [loader EXCEPT ![s] = [loader[s] EXCEPT !.drained = <<>>, !.pc = pc]]
    <3>1. CASE DrainBuffer(s)
      BY <1>0, <3>1 DEF DrainBuffer
    <3>2. CASE FinishLoading(s)
      <4>1. [loader[s] EXCEPT !.drained = <<>>, !.pc = "current"] = [loader[s] EXCEPT !.pc = "current"]
        BY <1>0 DEF LoaderType
      <4> QED
        BY <1>0, <3>2, <4>1 DEF FinishLoading, GoTo
    <3> QED
      BY <1>4, <3>1, <3>2
  <2> DEFINE l == [loader[s] EXCEPT !.drained = <<>>, !.pc = pc]
  <2>2. l \in LoaderType /\ l.pc = pc /\ l.drained = <<>>
    <3>1. <<>> \in Seq(Ids)
      OBVIOUS
    <3> QED
      BY <1>0, <3>1 DEF LoaderType, PCs
  <2>3. loader' = [loader EXCEPT ![s] = l]
    BY <2>1
  <2> HIDE DEF l
  <2>4. parts[1].base <= Len(parts[cur].hist)
    <3>1. loader[s].pc \in {"drain", "finish"}
      BY <1>4 DEF DrainBuffer, FinishLoading
    <3> QED
      BY <1>0, <3>1 DEF PlacedIn, KnowsPart
  <2>5. PlacedIn(l, parts, cur, disk)
    BY <2>2, <2>4 DEF PlacedIn, KnowsBase, KnowsDisk, KnowsPart
  <2> QED
    BY <1>1, <1>2, <1>3, <2>2, <2>3, <2>5, QuietMove
<1>5. CASE TakePartition(s)
  <2> DEFINE l == [loader[s] EXCEPT !.part = cur, !.pc = "catchup"]
  <2>1. l \in LoaderType /\ l.pc = "catchup" /\ l.part = cur /\ l.drained = <<>>
    <3>1. cur \in Nat
      BY <1>0 DEF Numeric
    <3> QED
      BY <1>0, <3>1 DEF LoaderType, PCs
  <2>2. loader' = [loader EXCEPT ![s] = l]
    BY <1>0, <1>5 DEF TakePartition
  <2> HIDE DEF l
  <2>3. parts[1].base <= Len(parts[cur].hist)
    BY <1>0, <1>5 DEF TakePartition, PlacedIn, KnowsPart
  <2>4. PlacedIn(l, parts, cur, disk)
    BY <2>1, <2>3 DEF PlacedIn, KnowsBase, KnowsDisk, KnowsPart
  <2> QED
    BY <1>1, <1>2, <1>3, <2>1, <2>2, <2>4, QuietMove
<1>6. CASE CatchUpRound(s)
  <2>1. loader[s].pc = "caught" /\ loader[s].fetched = <<>>
    BY <1>6 DEF CatchUpRound
  <2>2. PICK pc \in {"catchup", "done"} : GoTo(s, pc)
    BY <1>6 DEF CatchUpRound
  <2> DEFINE l == [loader[s] EXCEPT !.pc = pc]
  <2>3. /\ l \in LoaderType /\ l.pc = pc /\ l.part = loader[s].part /\ l.asOf = loader[s].asOf
        /\ l.drained = <<>>
    BY <1>0 DEF LoaderType, PCs
  <2>4. loader' = [loader EXCEPT ![s] = l]
    BY <1>0, <2>2 DEF GoTo
  <2> HIDE DEF l
  <2>5. /\ parts[1].base <= Len(parts[loader[s].part].hist)
        /\ From(loader[s]) <= Len(parts[loader[s].part].hist)
    BY <1>0, <2>1 DEF PlacedIn, KnowsPart
  <2>6. From(loader[s]) = loader[s].asOf
    <3>1. loader[s].asOf \in Nat
      BY <1>0 DEF LoaderType
    <3> QED
      BY <2>1, <3>1 DEF From
  <2>7. PlacedIn(l, parts, cur, disk)
    BY <2>3, <2>5, <2>6 DEF PlacedIn, KnowsBase, KnowsDisk, KnowsPart
  <2> QED
    BY <1>1, <1>2, <1>3, <2>3, <2>4, <2>7, QuietMove
<1> QED
  BY <1>4, <1>5, <1>6

\* The steps that replace the directory, before it is opened.
LEMMA DirectoryExact ==
  ASSUME Undisturbed, Typed, Typed', Alone, Exact, NEW s \in Sessions,
         RemoveWal(s) \/ RemoveSnapshot(s) \/ InstallSnapshot(s)
  PROVE  Exact'
<1> DEFINE b == parts[1].base
<1>0. /\ DataTyped /\ Numeric /\ loader \in [Sessions -> LoaderType] /\ loader[s] \in LoaderType
      /\ loader[s].drained = <<>> /\ buffer = <<>> /\ PlacedIn(loader[s], parts, cur, disk)
      /\ b \in Nat /\ b <= Len(SourceLog)
  BY LoaderNow DEF Numeric, SourceLog
<1>1. UNCHANGED <<state, buffer, parts, cur, handler>>
  BY DEF RemoveWal, RemoveSnapshot, InstallSnapshot
<1>2. PICK pc \in {"unsnap", "rename", "tail", "open"} : GoTo(s, pc)
  BY DEF RemoveWal, RemoveSnapshot, InstallSnapshot
<1> DEFINE l == [loader[s] EXCEPT !.pc = pc]
<1>3. /\ l \in LoaderType /\ l.pc = pc /\ l.base = loader[s].base /\ l.fetched = loader[s].fetched
      /\ l.asOf = loader[s].asOf /\ l.drained = <<>>
  BY <1>0 DEF LoaderType, PCs
<1>4. loader' = [loader EXCEPT ![s] = l]
  BY <1>0, <1>2 DEF GoTo
<1>5. l.pc \in Bare /\ loader'[s] = l
  BY <1>0, <1>3, <1>4 DEF Bare
<1> HIDE DEF l
<1>6. /\ loader[s].pc \in LoadingPCs
      /\ disk'.wal = <<>> /\ disk'.open = {}
      /\ PrefixOf(disk'.snap, SourceLog) /\ Len(disk'.snap) <= b
      /\ PlacedIn(l, parts, cur, disk')
  <2>1. CASE RemoveWal(s) /\ loader[s].pc = "clear"
    <3>1. disk' = [disk EXCEPT !.wal = <<>>, !.open = {}] /\ pc = "unsnap"
      <4>1. GoTo(s, "unsnap") /\ disk' = [disk EXCEPT !.wal = <<>>, !.open = {}]
        BY <2>1 DEF RemoveWal
      <4> QED
        BY <1>0, <1>3, <1>4, <4>1 DEF GoTo, LoaderType
    <3>2. disk'.wal = <<>> /\ disk'.open = {} /\ disk'.snap = disk.snap
      BY <1>0, <3>1 DEF DataTyped
    <3>3. PlacedIn(l, parts, cur, disk')
      BY <1>0, <1>3, <2>1, <3>1, <3>2 DEF PlacedIn, KnowsBase, KnowsDisk, KnowsPart
    <3> QED
      BY <2>1, <3>2, <3>3 DEF Exact, Mirrored, LoadingPCs
  <2>2. CASE RemoveWal(s) /\ loader[s].pc = "remove"
    <3>1. disk' = [disk EXCEPT !.wal = <<>>, !.open = {}] /\ pc = "open"
      <4>1. GoTo(s, "open") /\ disk' = [disk EXCEPT !.wal = <<>>, !.open = {}]
        BY <2>2 DEF RemoveWal
      <4> QED
        BY <1>0, <1>3, <1>4, <4>1 DEF GoTo, LoaderType
    <3>2. disk'.wal = <<>> /\ disk'.open = {} /\ disk'.snap = disk.snap
      BY <1>0, <3>1 DEF DataTyped
    <3>3. Stretch(l, SourceLog) <=> Stretch(loader[s], SourceLog)
      BY <1>3 DEF Stretch, From
    <3>4. From(l) = From(loader[s])
      BY <1>3 DEF From
    <3>5. PlacedIn(l, parts, cur, disk')
      BY <1>0, <1>3, <2>2, <3>1, <3>2, <3>3, <3>4
         DEF PlacedIn, KnowsBase, KnowsDisk, KnowsPart, SourceLog
    <3> QED
      BY <2>2, <3>2, <3>5 DEF Exact, Mirrored, LoadingPCs
  <2>3. CASE RemoveSnapshot(s)
    <3>1. disk' = [disk EXCEPT !.snap = <<>>] /\ pc = "rename" /\ loader[s].pc = "unsnap"
      <4>1. GoTo(s, "rename") /\ disk' = [disk EXCEPT !.snap = <<>>] /\ loader[s].pc = "unsnap"
        BY <2>3 DEF RemoveSnapshot
      <4> QED
        BY <1>0, <1>3, <1>4, <4>1 DEF GoTo, LoaderType
    <3>2. /\ disk'.snap = <<>> /\ disk'.wal = <<>> /\ disk'.open = {}
      BY <1>0, <3>1 DEF DataTyped, PlacedIn, KnowsDisk
    <3>3. PlacedIn(l, parts, cur, disk')
      BY <1>0, <1>3, <3>1, <3>2 DEF PlacedIn, KnowsBase, KnowsDisk, KnowsPart
    <3>4. Len(disk'.snap) = 0 /\ 0 <= b /\ PrefixOf(disk'.snap, SourceLog)
      BY <1>0, <3>2 DEF PrefixOf, Numeric
    <3> QED
      BY <3>1, <3>2, <3>3, <3>4 DEF LoadingPCs
  <2>4. CASE InstallSnapshot(s)
    <3>1. disk' = [disk EXCEPT !.snap = loader[s].fetched] /\ pc = "tail" /\ loader[s].pc = "rename"
      <4>1. /\ GoTo(s, "tail") /\ disk' = [disk EXCEPT !.snap = loader[s].fetched]
            /\ loader[s].pc = "rename"
        BY <2>4 DEF InstallSnapshot
      <4> QED
        BY <1>0, <1>3, <1>4, <4>1 DEF GoTo, LoaderType
    <3>2. /\ disk'.snap = loader[s].fetched /\ disk'.wal = <<>> /\ disk'.open = {}
      BY <1>0, <3>1 DEF DataTyped, PlacedIn, KnowsDisk
    <3>3. PrefixOf(loader[s].fetched, SourceLog) /\ Len(loader[s].fetched) = b /\ b <= b
      BY <1>0, <3>1 DEF PlacedIn, KnowsBase, SourceLog
    <3>4. PlacedIn(l, parts, cur, disk')
      BY <1>0, <1>3, <3>1, <3>2, <3>3 DEF PlacedIn, KnowsBase, KnowsDisk, KnowsPart
    <3> QED
      BY <3>1, <3>2, <3>3, <3>4 DEF LoadingPCs
  <2>5. RemoveWal(s) => loader[s].pc \in {"clear", "remove"}
    BY DEF RemoveWal
  <2> QED
    BY <2>1, <2>2, <2>3, <2>4, <2>5
<1>7. SourceLog' = SourceLog /\ Copies' /\ PlacedIn(l, parts', cur', disk')
  BY <1>1, <1>6 DEF SourceLog, Exact, Copies
<1>8. Mirrored'
  <2>1. SliceOf(disk'.wal, SourceLog, Len(disk'.snap))
    <3>1. Len(disk'.wal) = 0
      BY <1>6
    <3>2. Len(disk'.snap) <= Len(SourceLog) /\ Len(disk'.snap) \in Nat
      <4>1. Numeric'
        BY NumericNext DEF Typed
      <4> QED
        BY <1>6, <4>1 DEF PrefixOf, Numeric
    <3> QED
      BY <3>1, <3>2 DEF SliceOf
  <2> QED
    BY <1>1, <1>5, <1>6, <1>7, <2>1 DEF Mirrored
<1>9. Advances
  <2>1. PrefixOf(SourceLog, SourceLog')
    BY <1>0, <1>7 DEF PrefixOf, Numeric
  <2>2. \A k \in 2..Len(parts) : Len(parts[k].hist) <= Len(parts'[k].hist)
    <3>1. \A k \in 2..Len(parts) : k \in 1..Len(parts)
      BY <1>0 DEF Numeric
    <3> QED
      BY <1>0, <1>1, <3>1 DEF Numeric
  <2> QED
    BY <1>0, <1>1, <2>1, <2>2 DEF Advances, Numeric
<1> QED
  BY <1>0, <1>1, <1>3, <1>4, <1>6, <1>7, <1>8, <1>9, MoveExact DEF state

\* partition.Open between the two: the snapshot alone.
LEMMA OpenExact ==
  ASSUME Undisturbed, Typed, Typed', Alone, Exact, NEW s \in Sessions, OpenPartition(s)
  PROVE  Exact'
<1> DEFINE o == NewPart(disk.snap, Len(disk.snap))
           n == Len(parts)
           l == [loader[s] EXCEPT !.part = n + 1, !.pc = "fill"]
<1>0. /\ DataTyped /\ Numeric /\ loader \in [Sessions -> LoaderType] /\ loader[s] \in LoaderType
      /\ loader[s].drained = <<>> /\ buffer = <<>> /\ PlacedIn(loader[s], parts, cur, disk)
      /\ n \in Nat /\ n >= 2 /\ SourceLog \in Seq(Ids) /\ parts[1].base \in Nat
      /\ Len(disk.snap) \in Nat
  BY LoaderNow DEF Numeric
<1>1. /\ parts' = Append(parts, Opened(disk)) /\ disk' = OpenWal /\ loader[s].pc = "open"
      /\ loader' = [loader EXCEPT ![s].part = n + 1, ![s].pc = "fill"]
      /\ UNCHANGED <<state, buffer, cur, handler>>
  BY DEF OpenPartition
<1>2. /\ disk.wal = <<>> /\ disk.open = {} /\ Len(disk.snap) = parts[1].base
      /\ Stretch(loader[s], SourceLog) /\ From(loader[s]) = parts[1].base
  BY <1>0, <1>1 DEF PlacedIn, KnowsBase, KnowsDisk, SourceLog
<1>3. Opened(disk) = o
  <2>1. FoldLeft(ApplyTo, o, <<>>) = Applying!Fold(o, <<>>)
    BY ApplyAllIsFold DEF ApplyAll
  <2> QED
    BY <1>2, <2>1, Applying!FoldEmpty DEF Opened
<1>4. /\ o \in Sound /\ o.hist = disk.snap /\ o.forgot = Len(disk.snap)
  BY <1>0, OpenedSound DEF NewPart, DataTyped
<1> HIDE DEF o
<1>5. /\ Len(parts') = n + 1 /\ parts'[n + 1] = o /\ \A k \in 1..n : parts'[k] = parts[k]
  BY <1>0, <1>1, <1>3, <1>4 DEF DataTyped
<1>6. disk'.snap = disk.snap /\ disk'.wal = <<>> /\ disk'.open = {n + 1}
  <2>1. disk' = [disk EXCEPT !.open = @ \cup {n + 1}]
    BY <1>1 DEF OpenWal
  <2> QED
    BY <1>0, <1>2, <2>1 DEF DataTyped
<1>7. /\ l \in LoaderType /\ l.pc = "fill" /\ l.part = n + 1 /\ l.drained = <<>>
      /\ l.fetched = loader[s].fetched /\ l.asOf = loader[s].asOf
  <2> DEFINE Filling(m) == [loader[s] EXCEPT !.part = m, !.pc = "fill"]
  <2>1. \A m \in Nat :
          /\ Filling(m) \in LoaderType /\ Filling(m).pc = "fill" /\ Filling(m).part = m
          /\ Filling(m).drained = loader[s].drained
          /\ Filling(m).fetched = loader[s].fetched /\ Filling(m).asOf = loader[s].asOf
    BY <1>0 DEF LoaderType, PCs
  <2>2. n + 1 \in Nat
    BY <1>0
  <2>3. l = Filling(n + 1)
    OBVIOUS
  <2> HIDE DEF n, l, Filling
  <2> QED
    BY <1>0, <2>1, <2>2, <2>3
<1>8. loader' = [loader EXCEPT ![s] = l] /\ loader'[s] = l
  BY <1>0, <1>1
<1> HIDE DEF l
<1>9. SourceLog' = SourceLog /\ parts'[1] = parts[1]
  BY <1>0, <1>5 DEF SourceLog
<1>10. Copies'
  <2> SUFFICES ASSUME NEW k \in 2..Len(parts') PROVE PrefixOf(parts'[k].hist, SourceLog')
    BY DEF Copies
  <2>1. k \in 2..n \/ k = n + 1
    BY <1>0, <1>5
  <2>2. \A j \in 2..n : j \in 1..n
    BY <1>0
  <2> QED
    BY <1>4, <1>5, <1>9, <2>1, <2>2 DEF Exact, Copies, Mirrored
<1>11. Mirrored'
  <2>1. SliceOf(disk'.wal, SourceLog', Len(disk'.snap))
    BY <1>2, <1>6, <1>9 DEF Exact, Mirrored
  <2>2. Len(parts'[n + 1].hist) = Len(disk'.snap) + Len(disk'.wal)
    BY <1>0, <1>4, <1>5, <1>6
  <2> QED
    BY <1>6, <1>7, <1>8, <1>9, <2>1, <2>2 DEF Exact, Mirrored
<1>12. Advances
  <2>1. \A k \in 2..n : k \in 1..n
    BY <1>0
  <2>2. \A k \in 2..n : Len(parts[k].hist) <= Len(parts'[k].hist) /\ parts[k].forgot = parts'[k].forgot
    BY <1>0, <1>5, <2>1 DEF Numeric
  <2>3. PrefixOf(SourceLog, SourceLog')
    BY <1>0, <1>9 DEF PrefixOf
  <2>4. cur \in 1..n
    BY <1>0 DEF Numeric
  <2> QED
    BY <1>0, <1>1, <1>5, <1>9, <2>2, <2>3, <2>4 DEF Advances
<1>13. PlacedIn(l, parts', cur', disk')
  <2>1. Stretch(l, SourceLog) /\ From(l) = parts[1].base
    BY <1>2, <1>7 DEF Stretch, From
  <2>2. parts'[l.part] = o /\ parts[1].base <= parts[1].base
    BY <1>0, <1>5, <1>7
  <2> QED
    BY <1>2, <1>4, <1>6, <1>7, <1>9, <2>1, <2>2
       DEF PlacedIn, KnowsBase, KnowsDisk, KnowsPart, SourceLog
<1> QED
  BY <1>0, <1>1, <1>7, <1>8, <1>9, <1>10, <1>11, <1>12, <1>13, MoveExact DEF state, LoadingPCs

\* The loader's partition becomes the current one, and is the one that writes.
LEMMA SetExact ==
  ASSUME Undisturbed, Typed, Typed', Alone, Exact, NEW s \in Sessions, SetPartition(s)
  PROVE  Exact'
<1> DEFINE l == [loader[s] EXCEPT !.pc = "drain"]
<1>0. /\ DataTyped /\ Numeric /\ loader \in [Sessions -> LoaderType] /\ loader[s] \in LoaderType
      /\ loader[s].drained = <<>> /\ buffer = <<>> /\ PlacedIn(loader[s], parts, cur, disk)
  BY LoaderNow
<1>1. /\ loader[s].pc = "fill" /\ cur' = loader[s].part /\ GoTo(s, "drain")
      /\ UNCHANGED <<state, buffer, parts, disk, handler>>
  BY DEF SetPartition
<1>2. l \in LoaderType /\ l.pc = "drain" /\ l.drained = <<>> /\ loader' = [loader EXCEPT ![s] = l]
  BY <1>0, <1>1 DEF LoaderType, PCs, GoTo
<1> HIDE DEF l
<1>3. disk.open = {cur'} /\ parts[1].base <= Len(parts[cur'].hist)
  BY <1>0, <1>1 DEF PlacedIn, KnowsDisk, KnowsPart
<1>4. SourceLog' = SourceLog /\ Copies' /\ Mirrored'
  BY <1>1, <1>3 DEF SourceLog, Exact, Copies, Mirrored
<1>5. Advances
  <2>1. PrefixOf(SourceLog, SourceLog')
    BY <1>0, <1>4 DEF PrefixOf, Numeric
  <2>2. \A k \in 2..Len(parts) : Len(parts[k].hist) <= Len(parts'[k].hist)
    <3>1. \A k \in 2..Len(parts) : k \in 1..Len(parts)
      BY <1>0 DEF Numeric
    <3> QED
      BY <1>0, <1>1, <3>1 DEF Numeric
  <2> QED
    BY <1>0, <1>1, <1>3, <2>1, <2>2 DEF Advances, Numeric
<1>6. PlacedIn(l, parts', cur', disk')
  BY <1>1, <1>2, <1>3 DEF PlacedIn, KnowsBase, KnowsDisk, KnowsPart
<1> QED
  BY <1>0, <1>1, <1>2, <1>4, <1>5, <1>6, MoveExact DEF state, LoadingPCs

\* Apply of one entry fetched: the next of the source's log, or one that is there.
LEMMA ApplyFetchedExact ==
  ASSUME Undisturbed, Typed, Typed', Alone, Exact, NEW s \in Sessions,
         NEW pc \in {"fill", "caught"}, ApplyFetched(s, pc)
  PROVE  Exact'
<1> DEFINE k == loader[s].part
           f == loader[s].fetched
           e == Head(f)
           at == From(loader[s])
           p == parts[k]
           q == parts'[k]
           S == SourceLog
           l == [loader[s] EXCEPT !.fetched = Tail(@)]
<1>0. /\ DataTyped /\ DataTyped' /\ Numeric /\ Numeric' /\ loader \in [Sessions -> LoaderType]
      /\ loader[s] \in LoaderType /\ loader[s].drained = <<>> /\ buffer = <<>>
      /\ PlacedIn(loader[s], parts, cur, disk)
      /\ S \in Seq(Ids) /\ Len(S) \in Nat /\ parts[1].base \in Nat
  BY LoaderNow, NumericNext DEF Numeric, Typed
<1>1. /\ loader[s].pc = pc /\ f # <<>> /\ ApplyIn(k, e)
      /\ loader' = [loader EXCEPT ![s].fetched = Tail(@)]
      /\ UNCHANGED <<state, buffer, cur, handler>>
  BY DEF ApplyFetched
<1>2. /\ f \in Seq(Ids) /\ Len(f) \in Nat /\ Len(f) > 0 /\ loader[s].asOf \in Nat
      /\ k \in 2..Len(parts) /\ k \in 1..Len(parts) /\ k # 1
  <2>1. f \in Seq(Ids) /\ loader[s].asOf \in Nat
    BY <1>0 DEF LoaderType
  <2>2. k \in 2..Len(parts)
    BY <1>1 DEF Typed, Holds, Holding
  <2>3. Len(f) \in Nat /\ Len(f) > 0
    BY <1>1, <2>1
  <2>4. \A j \in 2..Len(parts) : j \in 1..Len(parts) /\ j # 1
    BY <1>0 DEF Numeric
  <2> HIDE DEF k, f
  <2> QED
    BY <2>1, <2>2, <2>3, <2>4
<1>3. /\ Len(f) <= loader[s].asOf /\ SliceOf(f, S, at) /\ p.forgot <= at /\ at <= Len(p.hist)
      /\ parts[1].base <= Len(p.hist) /\ PrefixOf(p.hist, S) /\ Distinct(S)
      /\ p \in Part /\ p.hist \in Seq(Ids) /\ Len(p.hist) \in Nat
      /\ pc = "fill" => disk.open = {k}
  BY <1>0, <1>1, <1>2
     DEF PlacedIn, KnowsPart, KnowsDisk, Stretch, Exact, Copies, SourceOnce, Numeric, SourceLog
<1>4. at \in Nat /\ at + Len(f) = loader[s].asOf /\ at + 1 <= Len(S) /\ e = S[at + 1] /\ e \in Ids
  <2>1. at = loader[s].asOf - Len(f)
    BY DEF From
  <2>2. at \in Nat /\ at + Len(f) = loader[s].asOf
    <3>1. \A x, y \in Nat : y <= x => x - y \in Nat /\ (x - y) + y = x
      OBVIOUS
    <3> HIDE DEF at, f
    <3> QED
      BY <1>2, <1>3, <2>1, <3>1
  <2>3. e = f[1] /\ 1 \in 1..Len(f)
    BY <1>1, <1>2
  <2> HIDE DEF at, f, e, S
  <2>4. e = S[at + 1] /\ at + 1 <= Len(S)
    BY <1>0, <1>2, <1>3, <2>2, <2>3 DEF SliceOf
  <2> QED
    BY <1>0, <2>2, <2>4
<1>5. /\ Len(parts') = Len(parts) /\ q = ApplyTo(p, e) /\ q \in Extensions(p)
      /\ \A j \in 1..Len(parts) : j # k => parts'[j] = parts[j]
      /\ disk'.snap = disk.snap /\ disk'.open = disk.open
      /\ disk'.wal = IF k \in disk.open /\ ~Indexed(p, e) THEN Append(disk.wal, e) ELSE disk.wal
      /\ k \notin disk.open => disk' = disk
  BY <1>0, <1>1, <1>2, <1>4, ApplyInEffect
<1>6. /\ q.hist \in Seq(Ids) /\ Len(q.hist) \in Nat /\ Len(p.hist) <= Len(q.hist)
      /\ q.forgot = p.forgot
  BY <1>5 DEF Extensions, Part
<1>7. /\ Tail(f) \in Seq(Ids) /\ Len(Tail(f)) = Len(f) - 1
      /\ \A i \in 1..(Len(f) - 1) : Tail(f)[i] = f[i + 1]
  BY <1>1, <1>2
<1>8. /\ l \in LoaderType /\ l.pc = pc /\ l.part = k /\ l.fetched = Tail(f)
      /\ l.asOf = loader[s].asOf /\ l.drained = <<>>
      /\ loader' = [loader EXCEPT ![s] = l]
  <2>1. \A t \in Seq(Ids) : \A x : x = [loader[s] EXCEPT !.fetched = t] =>
          /\ x \in LoaderType /\ x.pc = loader[s].pc /\ x.part = k /\ x.fetched = t
          /\ x.asOf = loader[s].asOf /\ x.drained = loader[s].drained
    BY <1>0 DEF LoaderType
  <2>2. l = [loader[s] EXCEPT !.fetched = Tail(f)] /\ loader' = [loader EXCEPT ![s] = l]
    BY <1>0, <1>1 DEF LoaderType
  <2> HIDE DEF l, f
  <2> QED
    BY <1>0, <1>1, <1>7, <2>1, <2>2
<1>9. SourceLog' = S /\ parts'[1] = parts[1]
  BY <1>2, <1>5 DEF SourceLog
<1>10. loader'[s] = l
  BY <1>0, <1>8
<1> HIDE DEF k, f, e, at, p, q, S, l
<1>11. /\ PrefixOf(q.hist, S)
       /\ \/ Indexed(p, e) /\ q = p /\ at < Len(p.hist)
          \/ /\ ~Indexed(p, e) /\ at = Len(p.hist) /\ q.hist = Append(p.hist, e)
             /\ Len(q.hist) = at + 1
  BY <1>0, <1>3, <1>4, <1>5, ApplyNext
<1>12. From(l) = at + 1 /\ Stretch(l, S) /\ From(l) <= Len(q.hist)
  <2>1. From(l) = at + 1 /\ Len(l.fetched) <= l.asOf
    BY <1>2, <1>3, <1>4, <1>7, <1>8 DEF From
  <2>2. SliceOf(Tail(f), S, at + 1)
    <3>1. at + 1 + Len(Tail(f)) <= Len(S)
      BY <1>0, <1>2, <1>3, <1>4, <1>7 DEF SliceOf
    <3>2. \A i \in 1..Len(Tail(f)) : i + 1 \in 1..Len(f) /\ at + (i + 1) = at + 1 + i
      BY <1>2, <1>4, <1>7
    <3>3. \A i \in 1..Len(Tail(f)) : Tail(f)[i] = S[at + 1 + i]
      BY <1>3, <1>7, <3>2 DEF SliceOf
    <3> QED
      BY <3>1, <3>3 DEF SliceOf
  <2> QED
    BY <1>3, <1>4, <1>6, <1>8, <1>11, <2>1, <2>2 DEF Stretch
<1>13. Copies'
  <2> SUFFICES ASSUME NEW j \in 2..Len(parts') PROVE PrefixOf(parts'[j].hist, SourceLog')
    BY DEF Copies
  <2>1. j \in 2..Len(parts) /\ j \in 1..Len(parts)
    BY <1>2, <1>5
  <2> QED
    BY <1>5, <1>9, <1>11, <2>1 DEF Exact, Copies, S, q
<1>14. Mirrored'
  <2>1. \A j \in disk.open : disk.open = {j} /\ j \in 1..Len(parts)
    BY <1>0 DEF Exact, Mirrored, DataTyped
  <2>2. disk'.open = {cur'} \/ \E t \in Sessions : loader'[t].pc \in Bare \cup {"fill"}
    <3>1. \A t \in Sessions : loader'[t].pc = loader[t].pc
      BY <1>0, <1>1, <1>8, <1>10
    <3> QED
      BY <1>1, <1>5, <3>1 DEF Exact, Mirrored
  <2>3. CASE k \in disk.open /\ ~Indexed(p, e)
    <3> DEFINE d == Len(disk.snap)
               w == disk.wal
    <3>1. Len(p.hist) = d + Len(w) /\ at = Len(p.hist) /\ disk.open = {k}
      BY <1>11, <2>3 DEF Exact, Mirrored, p
    <3>2. w \in Seq(Ids) /\ Len(w) \in Nat /\ d \in Nat
      BY <1>0 DEF Numeric
    <3>3. /\ disk'.wal = Append(w, e) /\ Len(Append(w, e)) = Len(w) + 1
          /\ Append(w, e)[Len(w) + 1] = e
          /\ \A i \in 1..Len(w) : Append(w, e)[i] = w[i]
      BY <1>4, <1>5, <2>3, <3>2
    <3>4. \A i \in 1..(Len(w) + 1) : i \in 1..Len(w) \/ i = Len(w) + 1
      BY <3>2
    <3>5. SliceOf(w, S, d)
      BY DEF Exact, Mirrored, S
    <3> HIDE DEF d, w
    <3>6. d + Len(Append(w, e)) <= Len(S) /\ S[d + (Len(w) + 1)] = e
      <4>1. d + Len(w) = at
        BY <1>3, <3>1
      <4>2. d + (Len(w) + 1) = at + 1
        BY <1>4, <3>2, <4>1
      <4> QED
        BY <1>4, <3>3, <4>2
    <3>7. SliceOf(disk'.wal, S, d)
      BY <3>3, <3>4, <3>5, <3>6 DEF SliceOf
    <3>8. Len(q.hist) = d + Len(disk'.wal)
      BY <1>4, <1>11, <2>3, <3>1, <3>2, <3>3
    <3> QED
      BY <1>5, <1>9, <2>2, <3>1, <3>7, <3>8 DEF Exact, Mirrored, S, d, q
  <2>4. CASE ~(k \in disk.open /\ ~Indexed(p, e))
    <3>1. disk'.wal = disk.wal
      BY <1>5, <2>4
    <3>2. \A j \in disk.open : parts'[j] = parts[j]
      BY <1>5, <1>11, <2>1, <2>4 DEF p, q
    <3>3. disk'.snap = disk.snap /\ disk'.open = disk.open
      BY <1>5
    <3>4. SliceOf(disk'.wal, SourceLog', Len(disk'.snap))
      BY <1>9, <3>1, <3>3 DEF Exact, Mirrored, S
    <3>5. \A j \in disk'.open : disk'.open = {j}
            /\ Len(parts'[j].hist) = Len(disk'.snap) + Len(disk'.wal)
      BY <3>1, <3>2, <3>3 DEF Exact, Mirrored
    <3>6. PrefixOf(disk'.snap, SourceLog') /\ Len(disk'.snap) <= parts'[1].base
      BY <1>9, <3>3 DEF Exact, Mirrored, S
    <3> QED
      BY <2>2, <3>4, <3>5, <3>6 DEF Mirrored
  <2> QED
    BY <2>3, <2>4
<1>15. Advances
  <2>1. ASSUME NEW j \in 2..Len(parts)
        PROVE  Len(parts[j].hist) <= Len(parts'[j].hist) /\ parts[j].forgot = parts'[j].forgot
    <3>1. j \in 1..Len(parts)
      BY <1>2
    <3> QED
      BY <1>0, <1>5, <1>6, <3>1, SMTT(30) DEF Numeric, p, q
  <2>2. PrefixOf(SourceLog, SourceLog')
    BY <1>0, <1>9 DEF PrefixOf, S
  <2>3. Len(parts[cur].hist) <= Len(parts'[cur].hist) /\ Len(parts[cur].hist) \in Nat
        /\ Len(parts'[cur].hist) \in Nat /\ cur' = cur
    <3>1. cur \in 2..Len(parts) /\ cur \in 1..Len(parts) /\ cur \in 1..Len(parts')
      BY <1>0, <1>5 DEF Numeric
    <3> QED
      BY <1>0, <1>1, <2>1, <3>1 DEF Numeric
  <2>4. parts[1].base <= Len(parts[cur].hist) => parts[1].base <= Len(parts'[cur'].hist)
    BY <1>0, <2>3
  <2> QED
    BY <1>0, <1>5, <1>9, <2>1, <2>2, <2>4 DEF Advances, Numeric
<1>16. KeepsDisk
  BY <1>5 DEF KeepsDisk
<1>17. PlacedIn(l, parts', cur', disk')
  <2>1. parts'[1].base <= Len(parts'[l.part].hist) /\ parts'[l.part] = q
    BY <1>0, <1>3, <1>6, <1>8, <1>9 DEF q, p
  <2>2. q.forgot <= From(l)
    BY <1>3, <1>4, <1>6, <1>12 DEF Part
  <2>3. pc = "fill" => disk'.open = {l.part}
    BY <1>3, <1>5, <1>8
  <2> QED
    BY <1>8, <1>9, <1>12, <2>1, <2>2, <2>3
       DEF PlacedIn, KnowsBase, KnowsDisk, KnowsPart, SourceLog
<1>18. status'[Source] = status[Source] /\ buffer' = <<>>
  BY <1>0, <1>1 DEF state
<1> QED
  BY <1>1, <1>8, <1>9, <1>13, <1>14, <1>15, <1>16, <1>17, <1>18, MoveExact DEF S

\* The replay of an empty buffer is none.
LEMMA NothingReplayed ==
  ASSUME Exact, NEW s \in Sessions
  PROVE  ~ReplayBuffered(s)
  BY DEF Exact, NothingBuffered, ReplayBuffered


\* A compaction of the source while no loader runs.
LEMMA CompactExact ==
  ASSUME Undisturbed, Typed, Exact,
         CompactSource \/ \E k \in 2..Len(parts) : CompactTarget(k)
  PROVE  Exact'
<1>0. DataTyped /\ Numeric
  BY NumericNow DEF Typed
<1>1. /\ ~LoaderRuns
      /\ parts[1].base <= Len(parts[1].hist)
      /\ parts' = [parts EXCEPT ![1].base = Len(parts[1].hist)]
      /\ UNCHANGED <<state, buffer, cur, disk, handler, loader>>
  <2>1. CompactSource
    BY DEF CompactTarget, Undisturbed
  <2>2. 1 \in 1..Len(parts)
    BY <1>0 DEF Numeric
  <2> QED
    BY <1>0, <2>1, <2>2 DEF CompactSource, Compact, Undisturbed, Numeric
<1>2. \A s \in Sessions : loader[s].pc \in {"idle", "called", "done", "failed", "killed"}
  BY <1>1 DEF LoaderRuns
<1>3. /\ Len(parts') = Len(parts) /\ SourceLog' = SourceLog
      /\ parts'[1].base = Len(parts[1].hist)
      /\ \A k \in 2..Len(parts) : parts'[k] = parts[k]
  <2>1. 1 \in DOMAIN parts /\ parts[1] \in Part
        /\ \A k \in 2..Len(parts) : k \in DOMAIN parts /\ k # 1
    <3>1. parts \in Seq(Sound) /\ 1 \in 1..Len(parts) /\ \A k \in 2..Len(parts) : k \in 1..Len(parts)
      BY <1>0 DEF Numeric, DataTyped
    <3> QED
      BY <1>0, <3>1 DEF Numeric
  <2>2. parts \in Seq(Sound)
    BY <1>0 DEF DataTyped
  <2> QED
    BY <1>1, <2>1, <2>2 DEF SourceLog, Part
<1>4. SourceOnce' /\ Copies'
  BY <1>1, <1>3 DEF Exact, SourceOnce, Copies
<1>5. Mirrored'
  <2>1. cur \in 2..Len(parts) /\ 1 \in 1..Len(parts)
    BY <1>0 DEF Numeric
  <2>2. Len(disk.snap) <= Len(parts[1].hist)
    <3>1. Len(disk.snap) <= parts[1].base /\ Len(disk.snap) \in Nat /\ parts[1].base \in Nat
          /\ Len(parts[1].hist) \in Nat
      BY <1>0, <2>1 DEF Exact, Mirrored, Numeric
    <3> QED
      BY <1>1, <3>1
  <2>3. disk.open = {cur} /\ Len(parts[cur].hist) = Len(disk.snap) + Len(disk.wal)
    <3>1. \A s \in Sessions : loader[s].pc \notin Bare \cup {"fill"}
      BY <1>2 DEF Bare
    <3> QED
      BY <3>1 DEF Exact, Mirrored
  <2> QED
    BY <1>1, <1>3, <2>1, <2>2, <2>3 DEF Exact, Mirrored
<1>6. Placed'
  <2> SUFFICES ASSUME NEW s \in Sessions PROVE PlacedIn(loader[s], parts', cur, disk)
    BY <1>1 DEF Placed
  <2>1. PlacedIn(loader[s], parts, cur, disk)
    BY DEF Exact, Placed
  <2>2. loader[s].pc = "done" => loader[s].part \in 2..Len(parts)
    BY DEF Typed, Holds, Holding
  <2> QED
    BY <1>2, <1>3, <2>1, <2>2 DEF PlacedIn, KnowsBase, KnowsDisk, KnowsPart
<1>7. NothingBuffered'
  BY <1>1 DEF state, Exact, NothingBuffered
<1> QED
  BY <1>4, <1>5, <1>6, <1>7 DEF Exact

\* What a target that starts again opens: the directory's events.
LEMMA OpenedExact ==
  ASSUME DataTyped, Exact
  PROVE  /\ PrefixOf(Opened(disk).hist, SourceLog)
         /\ Len(Opened(disk).hist) = Len(disk.snap) + Len(disk.wal)
<1> DEFINE p == NewPart(disk.snap, Len(disk.snap))
<1>1. Numeric
  BY NumericNow
<1>2. /\ disk.snap \in Seq(Ids) /\ disk.wal \in Seq(Ids) /\ Len(disk.snap) \in Nat
      /\ Len(disk.wal) \in Nat /\ SourceLog \in Seq(Ids) /\ Distinct(SourceLog)
      /\ SliceOf(disk.wal, SourceLog, Len(disk.snap))
  BY <1>1 DEF Numeric, Exact, SourceOnce, Mirrored
<1>3. /\ p \in Part /\ p.hist = disk.snap /\ p.forgot = Len(disk.snap)
      /\ PrefixOf(p.hist, SourceLog)
  BY <1>2 DEF NewPart, Part, Exact, Mirrored
<1>4. Opened(disk) = ApplyAll(p, disk.wal)
  BY DEF Opened, ApplyAll
<1> HIDE DEF p
<1>5. p.forgot <= Len(disk.snap) /\ Len(disk.snap) <= Len(p.hist)
  BY <1>2, <1>3
<1>6. /\ PrefixOf(ApplyAll(p, disk.wal).hist, SourceLog)
      /\ Len(ApplyAll(p, disk.wal).hist) =
           IF Len(disk.snap) + Len(disk.wal) > Len(p.hist)
             THEN Len(disk.snap) + Len(disk.wal) ELSE Len(p.hist)
  BY <1>2, <1>3, <1>5, ApplySlice
<1>7. Len(p.hist) = Len(disk.snap)
  BY <1>3
<1>8. \A a, b, c \in Nat : c = a => (IF a + b > c THEN a + b ELSE c) = a + b
  OBVIOUS
<1> QED
  BY <1>2, <1>4, <1>6, <1>7, <1>8

\* Restarts: the target opens its directory and forgets its loaders.
LEMMA RestartExact ==
  ASSUME Typed, Exact, RestartSource \/ RestartTarget
  PROVE  Exact'
<1> USE NodesDiffer
<1>0. DataTyped /\ Numeric /\ Shape /\ 1 \in 1..Len(parts)
  BY NumericNow, TypedShape DEF Typed, Numeric
<1>1. /\ \A w \in Writes : /\ handler[w].pc = "applied" => handler'[w].pc = "applied"
                           /\ handler'[w].pc # "buffering"
      /\ status'[Source] # "loading"
  <2>1. PICK n \in Nodes : Dies(n)
    BY DEF RestartSource, RestartTarget
  <2>2. ASSUME NEW w \in Writes
        PROVE  \/ handler'[w] = handler[w]
               \/ handler'[w].pc = "lost" /\ handler[w].pc # "applied"
    <3>1. handler'[w] = IF w[2] = n /\ handler[w].pc \in {"checked", "admitted", "buffering", "applying"}
                          THEN [pc |-> "lost", part |-> 0] ELSE handler[w]
      BY <2>1, Zenon DEF Dies
    <3> QED
      BY <3>1
  <2>3. Ends(n)
    BY <2>1, EndsWhen
  <2>4. status'[Source] # "loading"
    BY <1>0, <2>3 DEF Ends, Shape, Exact, NothingBuffered
  <2> QED
    BY <2>2, <2>4 DEF Exact, NothingBuffered
<1>2. CASE RestartSource
  <2>1. /\ parts' = [parts EXCEPT ![1].forgot = IF @ < parts[1].base THEN parts[1].base ELSE @]
        /\ UNCHANGED <<buffer, cur, disk, loader>>
    BY <1>2 DEF RestartSource
  <2>2. /\ Len(parts') = Len(parts) /\ SourceLog' = SourceLog
        /\ parts'[1].base = parts[1].base /\ parts'[1].hist = parts[1].hist
        /\ \A k \in 2..Len(parts) : parts'[k] = parts[k]
    <3>1. 1 \in DOMAIN parts /\ parts[1] \in Part /\ parts \in Seq(Sound)
          /\ \A k \in 2..Len(parts) : k \in DOMAIN parts /\ k # 1
      <4>1. parts \in Seq(Sound) /\ \A k \in 2..Len(parts) : k \in 1..Len(parts)
        BY <1>0 DEF Numeric, DataTyped
      <4> QED
        BY <1>0, <4>1 DEF Numeric
    <3> QED
      BY <2>1, <3>1 DEF SourceLog, Part
  <2>3. SourceOnce' /\ Copies'
    BY <1>1, <2>2 DEF Exact, SourceOnce, Copies
  <2>4. Mirrored'
    <3>1. \A k \in disk.open : parts'[k] = parts[k]
      BY <1>0, <2>2 DEF DataTyped
    <3> QED
      BY <2>1, <2>2, <3>1 DEF Exact, Mirrored
  <2>5. Placed'
    <3> SUFFICES ASSUME NEW s \in Sessions PROVE PlacedIn(loader[s], parts', cur, disk)
      BY <2>1 DEF Placed
    <3>1. PlacedIn(loader[s], parts, cur, disk)
      BY DEF Exact, Placed
    <3>2. loader[s].pc \in Holding => parts'[loader[s].part] = parts[loader[s].part]
      BY <2>2 DEF Typed, Holds
    <3>3. cur \in 2..Len(parts)
      BY <1>0 DEF Numeric
    <3> QED
      BY <2>2, <3>1, <3>2, <3>3 DEF PlacedIn, KnowsBase, KnowsDisk, KnowsPart, Holding
  <2>6. NothingBuffered'
    BY <1>1, <2>1 DEF Exact, NothingBuffered
  <2> QED
    BY <2>3, <2>4, <2>5, <2>6 DEF Exact
<1>3. CASE RestartTarget
  <2>1. /\ buffer' = <<>> /\ parts' = <<parts[1], Opened(disk)>> /\ cur' = 2
        /\ disk' = [disk EXCEPT !.open = {2}]
    BY <1>3 DEF RestartTarget
  <2>2. /\ Len(parts') = 2 /\ parts'[1] = parts[1] /\ parts'[2] = Opened(disk)
        /\ SourceLog' = SourceLog
    BY <2>1 DEF SourceLog
  <2>3. disk'.snap = disk.snap /\ disk'.wal = disk.wal /\ disk'.open = {2}
    BY <1>0, <2>1 DEF DataTyped
  <2>4. \A s \in Sessions :
          /\ loader'[s].pc \in {"idle", "called", "failed", "killed"}
          /\ loader'[s].drained = <<>>
    <3>1. \A pc \in {"failed", "killed"} :
            /\ [IdleLoader EXCEPT !.pc = pc].pc = pc
            /\ [IdleLoader EXCEPT !.pc = pc].drained = <<>>
      BY DEF IdleLoader
    <3> QED
      BY <1>3, <3>1 DEF RestartTarget, Exact, NothingBuffered
  <2>5. SourceOnce'
    BY <1>1, <2>2 DEF Exact, SourceOnce
  <2>6. Copies'
    <3>1. \A k \in 2..2 : k = 2
      OBVIOUS
    <3> QED
      BY <1>0, <2>2, <3>1, OpenedExact DEF Copies
  <2>7. Mirrored'
    BY <1>0, <2>1, <2>2, <2>3, OpenedExact DEF Exact, Mirrored
  <2>8. Placed'
    BY <2>4 DEF Placed, PlacedIn, KnowsBase, KnowsDisk, KnowsPart
  <2>9. NothingBuffered'
    BY <1>1, <2>1, <2>4 DEF Exact, NothingBuffered
  <2> QED
    BY <2>5, <2>6, <2>7, <2>8, <2>9 DEF Exact
<1> QED
  BY <1>2, <1>3

\* Exact is inductive, given the types and one load at a time.
LEMMA ExactStep ==
  ASSUME Undisturbed, Typed, Typed', StartsOnce, Alone, Exact, [Next]_vars
  PROVE  Exact'
<1>1. CASE UNCHANGED vars
  BY <1>1 DEF vars, state, data, Exact, SourceOnce, NothingBuffered, Copies, Mirrored,
              Placed, SourceLog
<1>2. ASSUME NEW s \in Sessions, LoaderStep(s) PROVE Exact'
  <2>1. ~LoadFail(s)
    BY DEF LoadFail, Undisturbed
  <2>2. CASE FetchSnapshot(s) \/ LoadTail(s) \/ CatchUpFetch(s)
    BY <2>2, FetchExact
  <2>3. CASE RemoveWal(s) \/ RemoveSnapshot(s) \/ InstallSnapshot(s)
    BY <2>3, DirectoryExact
  <2>4. CASE OpenPartition(s)
    BY <2>4, OpenExact
  <2>5. CASE ApplyTail(s) \/ CatchUpApply(s)
    BY <2>5, ApplyFetchedExact DEF ApplyTail, CatchUpApply
  <2>6. CASE SetPartition(s)
    BY <2>6, SetExact
  <2>7. CASE DrainBuffer(s) \/ FinishLoading(s) \/ TakePartition(s) \/ CatchUpRound(s)
    BY <2>7, WalkExact
  <2>8. ~ReplayBuffered(s)
    BY NothingReplayed
  <2> QED
    BY <1>2, <2>1, <2>2, <2>3, <2>4, <2>5, <2>6, <2>7, <2>8 DEF LoaderStep
<1>3. \A k : ~Expire(k)
  BY DEF Expire, Undisturbed
<1>4. CASE \/ \E s \in Sessions : OperatorStep(s) \/ LateLoad(s)
           \/ AbortByHand \/ ControlPlaneDies
  BY <1>4, ControlExact
<1>5. CASE CompactSource \/ \E k \in 2..Len(parts) : CompactTarget(k)
  BY <1>5, CompactExact
<1>6. CASE RestartSource \/ RestartTarget
  BY <1>6, RestartExact
<1>7. ASSUME NEW w \in Writes, HandlerStep(w) PROVE Exact'
  BY <1>7, HandlerExact
<1> QED
  BY <1>1, <1>2, <1>3, <1>4, <1>5, <1>6, <1>7 DEF Next

\* Exact holds in every state.
LEMMA ExactAlways == ASSUME Undisturbed PROVE Spec => []Exact
<1>1. Init => Exact
  <2> SUFFICES ASSUME Init PROVE Exact
    OBVIOUS
  <2>1. /\ parts = <<NewPart(<<>>, 0), NewPart(<<>>, 0)>> /\ cur = 2 /\ disk = EmptyDisk
        /\ buffer = <<>> /\ loader = [s \in Sessions |-> IdleLoader]
        /\ handler = [w \in Writes |-> [pc |-> "new", part |-> 0]]
    BY Zenon DEF Init
  <2>2. /\ status[Source] # "loading"
        /\ \A w \in Writes : handler[w].pc = "new"
        /\ \A s \in Sessions : loader[s].pc = "idle" /\ loader[s].drained = <<>>
    BY <2>1, AtFirst DEF IdleLoader
  <2>3. /\ Len(parts) = 2 /\ SourceLog = <<>> /\ parts[1].base = 0
        /\ parts[2].hist = <<>>
    BY <2>1 DEF NewPart, SourceLog
  <2>4. SourceOnce
    BY <2>3 DEF SourceOnce, Distinct
  <2>5. Copies
    <3>1. \A k \in 2..2 : k = 2
      OBVIOUS
    <3> QED
      BY <2>3, <3>1 DEF Copies, PrefixOf
  <2>6. Mirrored
    BY <2>1, <2>3 DEF Mirrored, EmptyDisk, PrefixOf, SliceOf
  <2>7. Placed
    BY <2>2 DEF Placed, PlacedIn, KnowsBase, KnowsDisk, KnowsPart
  <2>8. NothingBuffered
    BY <2>1, <2>2 DEF NothingBuffered
  <2> QED
    BY <2>4, <2>5, <2>6, <2>7, <2>8 DEF Exact
<1>2. Undisturbed /\ Typed /\ Typed' /\ StartsOnce /\ Alone /\ Exact /\ [Next]_vars => Exact'
  BY ExactStep
<1>3. Undisturbed /\ (Spec => []Alone)
  BY AloneAlways DEF Undisturbed
<1> QED
  BY <1>1, <1>2, <1>3, TypedAlways, StartsOnceAlways, PTL DEF Spec

\* TransferExact in every state when nothing disturbs the transfer: the target's
\* log is a prefix of the source's, so that catchUpFromSource may start at its
\* Head, and a finished catch-up has all that the source held at its last request;
\* with any number of writes, sessions, lost calls, deaths of the control plane
\* and restarts of either node, also in the middle of a load.
THEOREM TransferIsExact == ASSUME Undisturbed PROVE Spec => []TransferExact
<1>1. Typed /\ Exact => TransferExact
  <2> SUFFICES ASSUME Typed, Exact PROVE TransferExact
    OBVIOUS
  <2>0. Numeric
    BY NumericNow DEF Typed
  <2>1. IsPrefix(parts[cur].hist, SourceLog)
    <3> DEFINE h == parts[cur].hist
               S == SourceLog
    <3>1. /\ h \in Seq(Ids) /\ S \in Seq(Ids) /\ Len(h) \in Nat /\ Len(S) \in Nat
          /\ Len(h) <= Len(S) /\ \A i \in 1..Len(h) : h[i] = S[i]
      <4>1. cur \in 2..Len(parts) /\ cur \in 1..Len(parts)
        BY <2>0 DEF Numeric
      <4> QED
        BY <2>0, <4>1 DEF Numeric, Exact, Copies, PrefixOf
    <3> HIDE DEF h, S
    <3>2. SubSeq(h, 1, Len(h)) = SubSeq(S, 1, Len(h))
      BY <3>1
    <3> QED
      BY <3>1, <3>2 DEF IsPrefix, h, S
  <2>2. CaughtUp
    <3> SUFFICES ASSUME NEW s \in Sessions, loader[s].pc = "done",
                        NEW e \in ToSet(SubSeq(SourceLog, 1, loader[s].asOf))
                 PROVE  e \in ToSet(parts[loader[s].part].hist)
      BY DEF CaughtUp
    <3> DEFINE h == parts[loader[s].part].hist
               n == loader[s].asOf
               S == SourceLog
    <3>1. /\ h \in Seq(Ids) /\ S \in Seq(Ids) /\ Len(h) \in Nat /\ Len(S) \in Nat
          /\ Len(h) <= Len(S) /\ \A i \in 1..Len(h) : h[i] = S[i]
          /\ n \in Nat /\ n <= Len(h)
      <4>1. loader[s].part \in 2..Len(parts)
        BY DEF Typed, Holds, Holding
      <4>2. loader[s].part \in 1..Len(parts)
        BY <2>0, <4>1 DEF Numeric
      <4>3. n \in Nat
        BY DEF Typed, ActorsTyped, LoaderType
      <4> QED
        BY <2>0, <4>1, <4>2, <4>3 DEF Numeric, Exact, Copies, PrefixOf, Placed, PlacedIn, KnowsPart
    <3> HIDE DEF h, S, n
    <3>2. PICK i \in DOMAIN SubSeq(S, 1, n) : e = SubSeq(S, 1, n)[i]
      BY DEF ToSet, S, n
    <3>3. i \in 1..n /\ e = S[i]
      BY <3>1, <3>2
    <3>4. i \in DOMAIN h /\ e = h[i]
      BY <3>1, <3>3
    <3> QED
      BY <3>4 DEF ToSet, h
  <2> QED
    BY <2>1, <2>2 DEF TransferExact, TargetIsPrefix
<1> QED
  BY <1>1, ExactAlways, TypedAlways, PTL

\* RestartKeepsPartition under the same conditions: a target that dies outside of
\* a load opens the partition it served, transfers included, because the WAL that
\* loadFromSource leaves continues the snapshot it installed.
THEOREM RestartKeepsTransfer == ASSUME Undisturbed PROVE Spec => RestartKeepsPartition
<1>1. Typed /\ Exact /\ [Next]_vars =>
        [RestartTarget /\ ~LoadRuns => parts'[cur'].hist = parts[cur].hist]_vars
  <2> SUFFICES ASSUME Typed, Exact, RestartTarget, ~LoadRuns
               PROVE  parts'[cur'].hist = parts[cur].hist
    OBVIOUS
  <2>0. Numeric /\ DataTyped
    BY NumericNow DEF Typed
  <2>1. parts' = <<parts[1], Opened(disk)>> /\ cur' = 2
    BY DEF RestartTarget
  <2> DEFINE g == Opened(disk).hist
             h == parts[cur].hist
  <2>2. g \in Seq(Ids)
    BY <2>0, OpenedSound DEF DataTyped, Sound, Part
  <2>3. cur \in 2..Len(parts) /\ cur \in 1..Len(parts)
    BY <2>0 DEF Numeric
  <2>4. h \in Seq(Ids)
    BY <2>0, <2>3 DEF Numeric
  <2>5. Len(g) = Len(h)
    <3>1. ~ \E s \in Sessions : loader[s].pc \in Bare \cup {"fill"}
      BY DEF LoadRuns, LoadingPCs, Bare
    <3>2. disk.open = {cur}
      BY <3>1 DEF Exact, Mirrored
    <3> QED
      BY <2>0, <3>2, OpenedExact DEF Exact, Mirrored
  <2>6. \A i \in 1..Len(h) : g[i] = h[i]
    <3>1. PrefixOf(g, SourceLog) /\ PrefixOf(h, SourceLog)
      BY <2>0, <2>3, OpenedExact DEF Exact, Copies
    <3> QED
      BY <2>5, <3>1 DEF PrefixOf
  <2> HIDE DEF g, h
  <2>7. g = h
    BY <2>2, <2>4, <2>5, <2>6
  <2> QED
    BY <2>1, <2>7 DEF g, h
<1> QED
  BY <1>1, ExactAlways, TypedAlways, PTL DEF Spec, RestartKeepsPartition
=============================================================================
