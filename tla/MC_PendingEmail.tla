--------------------------- MODULE MC_PendingEmail ---------------------------
(* TLC instance of PendingEmail: what is of one kind is interchangeable.   *)
EXTENDS PendingEmail, TLC

Symmetry ==
    UNION {Permutations(S) : S \in {Box, Spelling, Login, Code, Token, Proc}}
=============================================================================
