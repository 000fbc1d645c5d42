--------------------------- MODULE MCRateLimiter ---------------------------
(* RateLimiter on a small instance. *)
EXTENDS RateLimiter

CONSTANTS c1, c2

TwoCallers == {c1, c2}
=============================================================================
