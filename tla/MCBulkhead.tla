----------------------------- MODULE MCBulkhead -----------------------------
(* Bulkhead on small instances. *)
EXTENDS Bulkhead

CONSTANTS r1, r2, r3, r4, r5

FourRequests == {r1, r2, r3, r4}
FiveRequests == {r1, r2, r3, r4, r5}
=============================================================================
