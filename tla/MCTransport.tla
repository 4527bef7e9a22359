---------------------------- MODULE MCTransport -----------------------------
(* Statuses of each kind that the code tells apart. *)
EXTENDS Transport

SomeStatuses == {400, 401, 429, 500, 504}
=============================================================================
