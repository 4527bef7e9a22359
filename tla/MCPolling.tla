----------------------------- MODULE MCPolling ------------------------------
(* A wait that is zero, shorter than a sleep, and longer; an operation that *)
(* takes no time, some, and more than everybody waits.                      *)
EXTENDS Polling

SomeWaits == {-1, 0, 1, 4}
SomeIntervals == {-1, 0, 3}
SomeDurations == {0, 2, 3, 5, 100}
=============================================================================
