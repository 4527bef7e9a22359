----------------------------- MODULE MCTextChat -----------------------------
(* Chats of one process, or of two, in one session. *)
EXTENDS TextChat, TLC

CONSTANTS p1, p2, s1
OneProc == {p1}
TwoProcs == {p1, p2}
OneSession == {s1}
SymmetricProcs == Permutations(TwoProcs)
=============================================================================
