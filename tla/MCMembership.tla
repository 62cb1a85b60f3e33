---------------------------- MODULE MCMembership ----------------------------
(* Instances of Membership for model checking: a gateway and two nodes. *)
EXTENDS Membership
CONSTANTS g, a, b

\* The nodes list each other as seeds, the gateway both of them; b may crash.
MCSeeds == [m \in Members |-> {a, b} \ {m}]
MCCrashes == [m \in Members |-> IF m = b THEN 1 ELSE 0]

\* Where only a join tells g of b, which is a seed of a alone.
MCChain == [m \in Members |-> CASE m = g -> {a} [] m = a -> {b} [] OTHER -> {g}]

\* The gateway is started before b joins the cluster: its ring has a alone.
MCPeers == [m \in Members |-> Nodes \ {b}]

\* Who waits for one answer at a time, and where g waits for two.
MCOne == [m \in Members |-> IF m \in Probers THEN 1 ELSE 0]
MCTwo == [m \in Members |-> IF m = g THEN 2 ELSE IF m \in Probers THEN 1 ELSE 0]

\* Both g and a probe b, and a asks g to do so for it.
MCHelp == [m \in Members |-> CASE m = a -> {g, b} [] m = g -> {b} [] OTHER -> {}]
=============================================================================
