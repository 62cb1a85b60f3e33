-------------------------------- MODULE Ring --------------------------------
(***************************************************************************)
(* The consistent-hash ring (internal/ring/ring.go) as operators on its      *)
(* value.  A key is known by its hash; hash[n][i] is the hash of virtual     *)
(* node i of node n.  The node list of the code, sorted and without          *)
(* repetitions, is a set, and its order that of the node names, which are    *)
(* numbers.                                                                  *)
(***************************************************************************)
EXTENDS Integers, Sequences, FiniteSets, SequencesExt

PointsOf(hash, n) == [i \in DOMAIN hash[n] |-> [hash |-> hash[n][i], node |-> n]]

\* Where the points before a hash lie in a list.
Before(points, h) == {i \in DOMAIN points : points[i].hash < h}

\* sort.Slice by hash: the point at i has fewer than i points before it, and no more
\* than i - 1 others up to its hash.
Sorted(points) ==
    [i \in DOMAIN points |->
       CHOOSE p \in Range(points) : /\ Cardinality(Before(points, p.hash)) < i
                                    /\ i <= Cardinality(Before(points, p.hash + 1))]

\* New
Listed(hash, ns) == FoldSet(LAMBDA n, ps : ps \o PointsOf(hash, n), <<>>, ns)
NewRing(hash, ns) == [nodes |-> ns, points |-> Sorted(Listed(hash, ns))]

\* Add: the points of a new node go to the end of the list, which is sorted again.
AddUnsorted(hash, r, n) ==                 \* faulty: without the sort
    IF n \in r.nodes THEN r
    ELSE [nodes |-> r.nodes \cup {n}, points |-> r.points \o PointsOf(hash, n)]
AddNode(hash, r, n) ==
    IF n \in r.nodes THEN r
    ELSE [nodes |-> r.nodes \cup {n}, points |-> Sorted(r.points \o PointsOf(hash, n))]

\* Remove: the points that stay keep their order.
Stays(left, p) == IF p.node = left.gone THEN left ELSE [left EXCEPT !.points = Append(@, p)]
Without(points, n) == FoldLeft(Stays, [gone |-> n, points |-> <<>>], points).points
RemoveNode(r, n) == [nodes |-> r.nodes \ {n}, points |-> Without(r.points, n)]

\* sort.Search: how many points lie before the key, the index to start from.
Search(r, k) == Cardinality(Before(r.points, k))

\* The nodes met on a walk once around from the key.
Walk(r, k) ==
    [i \in DOMAIN r.points |->
       r.points[((Search(r, k) + i - 1) % Len(r.points)) + 1].node]

NoOwner == 0
OwnerUnwrapped(r, k) ==                    \* faulty: no wrap past the last point
    IF Search(r, k) = Len(r.points) THEN NoOwner ELSE r.points[Search(r, k) + 1].node
Owner(r, k) ==
    IF r.points = <<>> THEN NoOwner
    ELSE r.points[(Search(r, k) % Len(r.points)) + 1].node

\* Replicas: the first rf different nodes of the walk, all nodes if they are fewer.
Meet(met, n) == IF n \in Range(met) THEN met ELSE Append(met, n)
FirstMet(w) == FoldLeft(Meet, <<>>, w)
Replicas(r, k, rf) ==
    SubSeq(FirstMet(Walk(r, k)), 1,
           IF rf > Cardinality(r.nodes) THEN Cardinality(r.nodes) ELSE rf)
=============================================================================
