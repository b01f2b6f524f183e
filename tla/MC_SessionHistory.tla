------------------------- MODULE MC_SessionHistory --------------------------
(* TLC instance of SessionHistory, with the symmetry of MC_SessionCache.   *)
(* CHOOSE does not break it: it picks the one request that mints.          *)
EXTENDS SessionHistory, TLC

Symmetry == Permutations(Token) \cup Permutations(Device) \cup Permutations(Proc)
=============================================================================
