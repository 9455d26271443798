------------------------- MODULE MCRedisPropagation -------------------------
(* Instance for TLC: two reservation calls and one commit call.            *)
EXTENDS RedisPropagation, TLC

Symm == Permutations(Reserves)
=============================================================================
