----------------------------- MODULE ReadThrough -----------------------------
(***************************************************************************)
(* What a lookup cache in front of PostgreSQL promises its callers, with   *)
(* no request, transaction or cache command: a cached answer is one that   *)
(* the database gave at some time, and when the database stops changing    *)
(* the cache ends up agreeing with it.  It does not promise a fresh one.   *)
(***************************************************************************)
CONSTANTS Key,      \* what is looked up
          Value,    \* the answers of the database
          Miss      \* no answer in the cache

VARIABLES current,  \* the answer of the committed rows
          past,     \* the answers they have given so far
          view      \* the cached answer

vars == <<current, past, view>>

Init ==
    /\ current \in [Key -> Value]
    /\ past = [k \in Key |-> {current[k]}]
    /\ view = [k \in Key |-> Miss]

(* A transaction commits, and with it the answers to any number of keys.   *)
Commit ==
    /\ current' \in [Key -> Value]
    /\ past' = [k \in Key |-> past[k] \cup {current'[k]}]
    /\ UNCHANGED view

(* Entries are filled, invalidated or reach their TTL.                     *)
Change ==
    /\ view' \in [Key -> Value \cup {Miss}]
    /\ \A k \in Key : view'[k] \in past[k] \cup {view[k], Miss}
    /\ UNCHANGED <<current, past>>

Next == Commit \/ Change

Fresh == \A k \in Key : view[k] \in {current[k], Miss}

Spec == Init /\ [][Next]_vars

(* The eventual agreement, for a system whose writes come to an end.       *)
Settles == <>[]Fresh
=============================================================================
