------------------------- MODULE MCShadowObservation -------------------------
(* Instances of ShadowObservation for TLC.                                  *)
EXTENDS ShadowObservation, TLC

CONSTANTS r1, r2, s1, n1, n2

\* Two runtimes of one symbol: each finds the other's candles.
OneSymbol == (r1 :> s1) @@ (r2 :> s1)

Symmetry == Permutations(SnapshotId)
=============================================================================
