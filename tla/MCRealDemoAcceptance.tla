------------------------ MODULE MCRealDemoAcceptance ------------------------
(* Instances of RealDemoAcceptance for TLC.                                *)
EXTENDS RealDemoAcceptance, TLC

CONSTANTS p1, p2, i1, i2, a1, a2, s1, s2, g1, g2

\* Two intents of two shadow decisions, and the approval of each.
TwoSources == (i1 :> s1) @@ (i2 :> s2)
TwoApprovals == (a1 :> i1) @@ (a2 :> i2)

OnlyIntent == (i1 :> s1)
OneApproval == (a1 :> i1)

Symmetry == Permutations(Process) \cup Permutations(Generation)
=============================================================================
