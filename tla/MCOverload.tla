----------------------------- MODULE MCOverload -----------------------------
(* Instance of Overload for model checking: both requests carry one event. *)
EXTENDS Overload
CONSTANTS r1, r2, q1

MCCalls == Requests \X {1, 2}
MCIdOf == [c \in MCCalls |-> r1]
MCQueries == {q1}
=============================================================================
