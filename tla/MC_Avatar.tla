------------------------------ MODULE MC_Avatar ------------------------------
(* TLC instance of Avatar: names and requests are interchangeable.         *)
EXTENDS Avatar, TLC

Symmetry == Permutations(Name) \cup Permutations(Proc)
=============================================================================
