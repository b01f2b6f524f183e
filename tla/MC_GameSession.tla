--------------------------- MODULE MC_GameSession ---------------------------
(* TLC instance of GameSession: what is of one kind is interchangeable.    *)
EXTENDS GameSession, TLC

Symmetry == UNION {Permutations(S) : S \in {Session, Pair, Proc}}
=============================================================================
