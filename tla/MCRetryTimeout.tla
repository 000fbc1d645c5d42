--------------------------- MODULE MCRetryTimeout ---------------------------
(* RetryTimeout on a small instance. *)
EXTENDS RetryTimeout

ThreeAttempts == 1..3
=============================================================================
