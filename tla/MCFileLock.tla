----------------------------- MODULE MCFileLock -----------------------------
(* Three callers of one lock file, every kind of timeout. *)
EXTENDS FileLock, TLC

CONSTANTS p1, p2, p3
AllProcs == {p1, p2, p3}
Symmetry == Permutations(AllProcs)
AllTimeouts == TimeoutKinds
=============================================================================
