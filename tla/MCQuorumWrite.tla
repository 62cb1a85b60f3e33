--------------------------- MODULE MCQuorumWrite ----------------------------
(* Instances of QuorumWrite for model checking. *)
EXTENDS QuorumWrite
CONSTANTS n1, n2, n3, q1

\* The gateway fans out to nodes that run, and may refuse.
GatewayFansOut ==
    [primaryRepl |-> FALSE, idempotent |-> TRUE, refusals |-> {"conflict", "overloaded"},
     staleViews |-> FALSE, breakers |-> TRUE, nodesRun |-> TRUE]
\* The primary does, with wrong views of the membership; nodes may hang.
PrimaryFansOut ==
    [primaryRepl |-> TRUE, idempotent |-> FALSE, refusals |-> {"conflict", "unavailable"},
     staleViews |-> TRUE, breakers |-> TRUE, nodesRun |-> FALSE]
BothModes == {GatewayFansOut, PrimaryFansOut}

\* The gateway fans out and nodes are overloaded at times.
Overloaded == {[GatewayFansOut EXCEPT !.refusals = {"overloaded"}, !.breakers = FALSE]}
\* The primary fans out, by default with its idempotency index.
PrimaryDedups ==
    {[PrimaryFansOut EXCEPT !.idempotent = TRUE, !.refusals = {}, !.staleViews = FALSE,
                            !.breakers = FALSE]}
=============================================================================
