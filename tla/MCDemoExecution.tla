--------------------------- MODULE MCDemoExecution ---------------------------
(* Instances of DemoExecution for TLC.                                     *)
EXTENDS DemoExecution, TLC

CONSTANTS p1, p2, i1, i2, a1, a2, s1, s2

\* Two intents sealed from one shadow decision under two policies.
OneSource == (i1 :> s1) @@ (i2 :> s1)

\* Two intents of two shadow decisions.
TwoSources == (i1 :> s1) @@ (i2 :> s2)

\* One intent.
OnlyIntent == (i1 :> s1)

OneApproval == (a1 :> i1)
TwoApprovals == (a1 :> i1) @@ (a2 :> i2)

Symmetry == Permutations(Process)
=============================================================================
