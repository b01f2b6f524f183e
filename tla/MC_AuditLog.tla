----------------------------- MODULE MC_AuditLog -----------------------------
(* TLC instance of AuditLog: what is of one kind is interchangeable.       *)
EXTENDS AuditLog, TLC

Symmetry == UNION {Permutations(S) : S \in {Token, Device, Slot}}
=============================================================================
