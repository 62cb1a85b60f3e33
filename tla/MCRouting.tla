------------------------------ MODULE MCRouting -----------------------------
(* Instances of Routing for model checking: every order in which the virtual
   nodes of three nodes can lie on the ring, and a key in every gap. *)
EXTENDS Routing

MCNodes == 1..3
MCVNodes == 2
MCPoints == 1..6

\* The virtual nodes of one node are alike: by increasing hash.
Placements == {p \in [1..MCVNodes -> MCPoints] : p[1] < p[2]}
\* Nodes differ by their names only: the first point is node 1's.
MCLayouts ==
    {h \in [MCNodes -> Placements] : /\ UNION {Range(h[n]) : n \in MCNodes} = MCPoints
                                     /\ h[1][1] = 1}
=============================================================================
