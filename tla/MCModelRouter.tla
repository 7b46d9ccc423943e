---------------------------- MODULE MCModelRouter ----------------------------
(* Instances of ModelRouter for TLC.                                       *)
EXTENDS ModelRouter, TLC

CONSTANTS c1, c2, c3, i1, i2, y1

\* Two calls of one invocation, and a third of another one in the same cycle.
Twins == (c1 :> i1) @@ (c2 :> i1) @@ (c3 :> i2)
OneCycle == (i1 :> y1) @@ (i2 :> y1)
Costs == (i1 :> 2) @@ (i2 :> 1)
Months == [d \in Day |-> 0]

\* One call.
Single == (c1 :> i1)

Symmetry == Permutations({c1, c2})
=============================================================================
