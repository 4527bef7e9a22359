--------------------------- MODULE MCCostTracker ----------------------------
(* Three callers around a midnight. *)
EXTENDS CostTracker, TLC

CONSTANTS p1, p2, p3
ThreeProcs == {p1, p2, p3}
CheapOrDear == {1, 2}
Symmetry == Permutations(ThreeProcs)
=============================================================================
