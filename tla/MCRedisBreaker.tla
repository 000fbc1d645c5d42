--------------------------- MODULE MCRedisBreaker ---------------------------
(* RedisBreaker on small instances. *)
EXTENDS RedisBreaker, TLC

CONSTANTS c1, c2, admin

OneClient == {c1}
TwoClients == {c1, c2}
OneAdmin == {admin}
NoAdmin == {}

\* Clients differ in nothing but their name.
Symmetry == Permutations(Clients)
=============================================================================
