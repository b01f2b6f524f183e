------------------------------- MODULE Avatar -------------------------------
(***************************************************************************)
(* The avatar of one account: users.avatar_name in PostgreSQL, the cached  *)
(* user that requests take it from, and the objects in MinIO.              *)
(*                                                                         *)
(* A client gets a URL for a fresh name, PUTs an object to it as often as  *)
(* it likes, and asks for its completion.  Each call of the MinIO client   *)
(* is a step: the call blocks the server, but not a client that PUTs, nor  *)
(* commands sent before.  The transaction commits after the answer.  The   *)
(* account itself is never deleted.                                        *)
(***************************************************************************)
CONSTANTS Name,     \* names of avatars
          Proc,     \* slots for requests in flight
          Faults,   \* whether requests fail after stat_object
          None,     \* no avatar
          Miss      \* a key that the cache does not hold

ASSUME AvatarAssumption ==
    /\ Faults \in BOOLEAN
    /\ None \notin Name
    /\ Miss \notin Name \cup {None}

Content == {"none", "good", "bad"}   \* bad: unsupported type, or too large

VARIABLES recorded,  \* the committed users.avatar_name
          past,      \* history: the names recorded so far
          stored,    \* the objects in MinIO
          urls,      \* names that an upload URL was given for
          cache,     \* the avatar_name of the user in the lookup cache
          req        \* the requests in flight and their local variables

vars == <<recorded, past, stored, urls, cache, req>>

Request == [op   : {"none", "complete", "get"},
            pc   : {"idle", "reject", "get", "select", "set", "update", "drop", "remove",
                    "commit"},
            name : Name \cup {None},    \* file_name
            old  : Name \cup {None}]    \* old_avatar_name

Idle == [op |-> "none", pc |-> "idle", name |-> None, old |-> None]

TypeOK ==
    /\ recorded \in Name \cup {None}
    /\ past \in SUBSET (Name \cup {None})
    /\ stored \in [Name -> Content]
    /\ urls \in SUBSET Name
    /\ cache \in Name \cup {None, Miss}
    /\ req \in [Proc -> Request]

Init ==
    /\ recorded = None
    /\ past = {None}
    /\ stored = [n \in Name |-> "none"]
    /\ urls = {}
    /\ cache = Miss
    /\ req = [p \in Proc |-> Idle]

-----------------------------------------------------------------------------
Become(p, r) == req' = [req EXCEPT ![p] = r]

At(p, l) == req[p].pc = l

(* The UPDATE holds the lock of the row until the transaction ends.        *)
Locked == \E p \in Proc : req[p].pc \in {"drop", "remove", "commit"}

GetUploadUrl(n) ==
    /\ n \notin urls
    /\ urls' = urls \cup {n}
    /\ UNCHANGED <<recorded, past, stored, cache, req>>

Put(n, c) ==
    /\ n \in urls
    /\ c # "none"
    /\ stored' = [stored EXCEPT ![n] = c]
    /\ UNCHANGED <<recorded, past, urls, cache, req>>

GetAvatar(p) ==
    /\ At(p, "idle")
    /\ Become(p, [Idle EXCEPT !.op = "get", !.pc = "get"])
    /\ UNCHANGED <<recorded, past, stored, urls, cache>>

(* avatar_complete: stat_object.                                           *)
CheckObject(p, n) ==
    /\ At(p, "idle")
    /\ stored[n] # "none"
    /\ Become(p, [Idle EXCEPT !.op = "complete", !.name = n,
                              !.pc = IF stored[n] = "bad" THEN "reject" ELSE "get"])
    /\ UNCHANGED <<recorded, past, stored, urls, cache>>

(* remove_object takes what is stored by now, or raises.                   *)
Reject(p) ==
    /\ At(p, "reject")
    /\ \/ stored' = [stored EXCEPT ![req[p].name] = "none"]
       \/ Faults /\ UNCHANGED stored
    /\ Become(p, Idle)
    /\ UNCHANGED <<recorded, past, urls, cache>>

(* get_user_by_login, taken apart in UserLookup.                           *)
Learn(p, a) ==
    Become(p, IF req[p].op = "get" THEN Idle ELSE [req[p] EXCEPT !.pc = "update", !.old = a])

LookupGet(p) ==
    /\ At(p, "get")
    /\ IF cache = Miss THEN Become(p, [req[p] EXCEPT !.pc = "select"]) ELSE Learn(p, cache)
    /\ UNCHANGED <<recorded, past, stored, urls, cache>>

LookupSelect(p) ==
    /\ At(p, "select")
    /\ Become(p, [req[p] EXCEPT !.pc = "set", !.old = recorded])
    /\ UNCHANGED <<recorded, past, stored, urls, cache>>

LookupSet(p) ==
    /\ At(p, "set")
    /\ cache' = req[p].old
    /\ Learn(p, req[p].old)
    /\ UNCHANGED <<recorded, past, stored, urls>>

(* update_avatar_url: UPDATE, then the invalidation.  It always finds its  *)
(* row: the account is there.                                              *)
Update(p) ==
    /\ At(p, "update")
    /\ ~Locked
    /\ Become(p, [req[p] EXCEPT !.pc = "drop"])
    /\ UNCHANGED <<recorded, past, stored, urls, cache>>

Drop(p) ==
    /\ At(p, "drop")
    /\ cache' = Miss
    /\ Become(p, [req[p] EXCEPT !.pc = "remove"])
    /\ UNCHANGED <<recorded, past, stored, urls>>

(* Definitions whose names end in _Bug are mutations of the definition that *)
(* follows, for the checks of the properties.                              *)

(* The name of the new avatar is taken for that of the old one.            *)
RemoveOld_Bug(p) ==
    /\ At(p, "remove")
    /\ \/ stored' = [n \in Name |-> IF n = req[p].name THEN "none" ELSE stored[n]]
       \/ Faults /\ UNCHANGED stored
    /\ Become(p, [req[p] EXCEPT !.pc = "commit"])
    /\ UNCHANGED <<recorded, past, urls, cache>>

(* The old avatar is what the lookup said, be it the one just completed;   *)
(* an S3 error is logged.                                                  *)
RemoveOld(p) ==
    /\ At(p, "remove")
    /\ \/ stored' = [n \in Name |-> IF n = req[p].old THEN "none" ELSE stored[n]]
       \/ Faults /\ UNCHANGED stored
    /\ Become(p, [req[p] EXCEPT !.pc = "commit"])
    /\ UNCHANGED <<recorded, past, urls, cache>>

(* The commit forgets the name.                                            *)
Commit_Bug(p) ==
    /\ At(p, "commit")
    /\ recorded' = Miss
    /\ past' = past \cup {req[p].name}
    /\ Become(p, Idle)
    /\ UNCHANGED <<stored, urls, cache>>

Commit(p) ==
    /\ At(p, "commit")
    /\ recorded' = req[p].name
    /\ past' = past \cup {req[p].name}
    /\ Become(p, Idle)
    /\ UNCHANGED <<stored, urls, cache>>

(* A command or the commit fails, or the server restarts.                  *)
Fail(p) ==
    /\ Faults
    /\ ~At(p, "idle")
    /\ Become(p, Idle)
    /\ UNCHANGED <<recorded, past, stored, urls, cache>>

(* ttl="15m"                                                               *)
Expire ==
    /\ cache # Miss
    /\ cache' = Miss
    /\ UNCHANGED <<recorded, past, stored, urls, req>>

Next ==
    \/ \E n \in Name : GetUploadUrl(n) \/ \E c \in Content : Put(n, c)
    \/ \E p \in Proc :
          \/ GetAvatar(p)
          \/ \E n \in Name : CheckObject(p, n)
          \/ Reject(p)
          \/ LookupGet(p)
          \/ LookupSelect(p)
          \/ LookupSet(p)
          \/ Update(p)
          \/ Drop(p)
          \/ RemoveOld(p)
          \/ Commit(p)
          \/ Fail(p)
    \/ Expire

Spec == Init /\ [][Next]_vars

-----------------------------------------------------------------------------
(* A good object is removed only if it was the avatar once, or by a        *)
(* completion of its name that has found a bad one there: the removal of   *)
(* the old avatar, whose name may come from a stale entry of the cache,    *)
(* does not hit an upload that waits for its completion, and neither does  *)
(* a completion that fails.                                                *)
RemovalsAreOwed ==
    [][\A n \in Name :
          stored[n] = "good" /\ stored'[n] = "none" =>
             \/ n \in past
             \/ \E p \in Proc : At(p, "reject") /\ req[p].name = n /\ req'[p] = Idle]_vars

-----------------------------------------------------------------------------
(* TLC refutes what follows; no run lists it.                              *)

(* avatar_complete: what is removed for its type or its size is what was   *)
(* looked at, and no good upload that was never the avatar.                *)
OnlyBadRejected ==
    [][\A n \in Name : stored[n] = "good" /\ stored'[n] = "none" => n \in past]_vars

(* avatar_complete: "Avatar upload completed successfully".  When no       *)
(* request is under way, the object of the recorded avatar is there.       *)
CompletedAvatarStored ==
    (\A p \in Proc : At(p, "idle")) /\ recorded # None => stored[recorded] # "none"
=============================================================================
