----------------------------- MODULE UserHistory -----------------------------
(***************************************************************************)
(* UserLookup with what the order of cache commands and commits has been:  *)
(* which answers of PostgreSQL were overtaken by a commit on their way to  *)
(* the cache, which entries a lookup filled too early or too late, and who *)
(* has read one of them.  An invalidation can be raced in these two ways;  *)
(* the properties say that there is no third.                              *)
(***************************************************************************)
EXTENDS UserLookup

VARIABLES overtaken,  \* lookups whose SELECT came before a commit, their SET not yet
          raced,      \* entries filled by such a lookup, or between a DEL and its commit
          misled      \* requests that have read such an entry

hvars == <<vars, overtaken, raced, misled>>

HInit ==
    /\ Init
    /\ overtaken = {}
    /\ raced = {}
    /\ misled = {}

Fills(p, k) == LookupSet(p) /\ KeyOf(p) = k

(* Request q has invalidated k and is still to commit its row.             *)
Dropped(q, k) == At(q, "commit") \/ (At(q, "dropLogin") /\ k = "email")

HNext ==
    /\ Next
    /\ overtaken' = {p \in Proc : req'[p].pc = "set" /\
                                    (p \in overtaken \/ (At(p, "set") /\ row' # row))}
    /\ raced' = {k \in Key : cache'[k] # Miss /\
                               IF \E p \in Proc : Fills(p, k)
                               THEN \/ \E p \in overtaken : Fills(p, k)
                                    \/ \E q \in Proc : Dropped(q, k)
                               ELSE k \in raced}
    /\ misled' = {p \in Proc : req'[p].pc # "idle" /\
                                 (p \in misled \/ (LookupHit(p) /\ KeyOf(p) \in raced))}

HSpec == HInit /\ [][HNext]_hvars

HFairSpec ==
    /\ HSpec
    /\ \A p \in Proc : WF_vars(Step(p))
    /\ \A k \in Key : WF_vars(Expire(k))

-----------------------------------------------------------------------------
(* _invalidate_lookup_cache works: an entry agrees with the committed row, *)
(* unless the lookup that filled it read PostgreSQL before a commit and    *)
(* wrote after it, or wrote between an invalidation and its commit.        *)
StaleOnlyByRace ==
    \A k \in Key : cache[k] \in {row, Miss} \/ k \in raced

(* Nobody logs in, or goes on to change the password, with a password that *)
(* had been replaced by the committed one when he arrived, unless he has   *)
(* read an entry that a race left behind.                                  *)
OldPasswordOnlyByRace ==
    \A p \in Proc \ misled :
        \/ req[p].op = "login" /\ At(p, "accepted")
        \/ req[p].op = "change" /\ req[p].pc \in {"write", "update", "drop", "commit"}
        => req[p].pw >= req[p].floor
=============================================================================
