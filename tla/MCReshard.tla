------------------------------ MODULE MCReshard -----------------------------
(* Instances of Reshard for model checking. *)
EXTENDS Reshard

CONSTANTS a, b, c

\* Nothing tells sessions apart.
SameSessions == Permutations(Sessions)

\* Clients of the source only, as in a move to a fresh node.
QuietTarget == {<<a, Source>>, <<b, Source>>, <<c, Source>>}
\* One write to each.
OneEach     == {<<a, Source>>, <<b, Target>>}
\* One to the target, which it buffers or applies.
ToTarget    == {<<b, Target>>}
\* None: who waits for whom does not depend on the data.
NoWrites    == {}
=============================================================================
