-------------------------- MODULE MC_SessionCache ---------------------------
(* TLC instance of SessionCache: tokens and requests are interchangeable,  *)
(* devices too, so the three sets are symmetry sets.                       *)
EXTENDS SessionCache, TLC

Symmetry == Permutations(Token) \cup Permutations(Device) \cup Permutations(Proc)
=============================================================================
