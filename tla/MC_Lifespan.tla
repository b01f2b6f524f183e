----------------------------- MODULE MC_Lifespan -----------------------------
(* TLC instance of Lifespan: the buckets are interchangeable.              *)
EXTENDS Lifespan, TLC

Symmetry == Permutations(Bucket)
=============================================================================
