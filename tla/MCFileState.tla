---------------------------- MODULE MCFileState ----------------------------
(* Two callers, two documents, a clock that passes one expiry. *)
EXTENDS FileState, TLC

CONSTANTS p1, p2, k1, k2
TwoProcs == {p1, p2}
TwoIds == {k1, k2}
TwoExpiries == {1, 2}
NoCall == [method |-> "none"]
Default == {"positive"}
ASSUME CallsAssumption == CallsAreFileCalls
Symmetry == Permutations(TwoProcs) \cup Permutations(TwoIds)
=============================================================================
