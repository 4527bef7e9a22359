---------------------------- MODULE MCStoreState ---------------------------
(* Two callers; a store with two documents. *)
EXTENDS StoreState

CONSTANTS p1, p2, n1, d1, d2
TwoProcs == {p1, p2}
OneName == {n1}
TwoIds == {d1, d2}
OneStatus == {"active"}
NoCall == [method |-> "none"]
Default == {"positive"}
ASSUME CallsAssumption == CallsAreStoreCalls
=============================================================================
