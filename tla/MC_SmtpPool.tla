---------------------------- MODULE MC_SmtpPool -----------------------------
(* TLC instance of SmtpPool: clients and calls are interchangeable.        *)
EXTENDS SmtpPool, TLC

Symmetry == Permutations(Client) \cup Permutations(Sender)
=============================================================================
