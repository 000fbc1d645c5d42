-------------------------- MODULE MCCircuitBreaker --------------------------
(* CircuitBreaker on a small instance. *)
EXTENDS CircuitBreaker

CONSTANTS c1, c2, admin

TwoCallers == {c1, c2}
OneAdmin == {admin}
=============================================================================
