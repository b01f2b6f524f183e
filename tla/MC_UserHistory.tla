---------------------------- MODULE MC_UserHistory ---------------------------
(* TLC instance of UserHistory: the slots of requests are interchangeable.  *)
EXTENDS UserHistory, TLC

Symmetry == Permutations(Proc)
=============================================================================
