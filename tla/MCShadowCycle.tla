---------------------------- MODULE MCShadowCycle ----------------------------
(* Instances of ShadowCycle for TLC.                                       *)
EXTENDS ShadowCycle, TLC

CONSTANTS r1, r2, y1

\* Calls of one cycle.
OneCycle == [r \in Runner |-> y1]
=============================================================================
