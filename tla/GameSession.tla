----------------------------- MODULE GameSession -----------------------------
(***************************************************************************)
(* The sessions of the game API: the rows of "game_sessions" of one        *)
(* account, the lookup cache of GameSessionRepository in front of them,    *)
(* and the requests of minecraft_auth and minecraft_session.               *)
(*                                                                         *)
(* The access and the refresh token of a session are made and replaced     *)
(* together and are named by one pair.  A lookup by token may name the     *)
(* client token or not: the two keys are filled by the same rows and are   *)
(* always dropped by one command, and are one key here.  A token that has  *)
(* reached its expiry is refused before any lookup and is left out.        *)
(*                                                                         *)
(* PostgreSQL reads committed rows.  An UPDATE takes the rows that match   *)
(* when it starts, waits for their locks and tests each again; the locks   *)
(* are held until the transaction ends, which is after the answer.  The    *)
(* session of SQLAlchemy keeps one object per row: a second SELECT does    *)
(* not refresh it, and an UPDATE writes its values to the objects of the   *)
(* rows that it changed.                                                   *)
(***************************************************************************)
CONSTANTS Session,   \* ids of game sessions
          Pair,      \* pairs of an access and a refresh token
          Proc,      \* slots for requests in flight
          Ops,       \* the requests that clients make: a subset of Operations
          Faults,    \* whether requests fail and cache entries reach their TTL
          None,      \* no session, no pair
          Miss       \* a key that the cache does not hold

Operations == {"authenticate", "refresh", "validate", "join",
               "invalidateAccess", "invalidateRefresh", "signout"}

Row == [pair : Pair, revoked : BOOLEAN, joined : BOOLEAN]

ASSUME GameAssumption ==
    /\ Ops \subseteq Operations
    /\ Faults \in BOOLEAN
    /\ None \notin Session \cup Pair \cup Row
    /\ Miss \notin Session \cup {None}

Kind == {"access", "refresh"}

Key == Kind \X Pair

KeysOf(Q) == Kind \X Q

VARIABLES rows,      \* the committed rows
          past,      \* history: the answers that the rows gave to each lookup
          cache,     \* access:{hash}:{client} and refresh:{hash}:{client}
          minted,    \* pairs signed so far
          given,     \* pairs that an answer has carried
          ended,     \* history: sessions that a revocation was committed for
          req        \* the requests in flight and their local variables

vars == <<rows, past, cache, minted, given, ended, req>>

Request == [op     : Operations \cup {"none"},
            pc     : {"idle", "get", "select", "set", "read", "update", "lock",
                      "drop", "answer", "commit"},
            key    : Key \cup {None},       \* the token of the request
            new    : Pair \cup {None},      \* the pair that it signed
            sess   : Session \cup {None},   \* game_session
            loaded : BOOLEAN,               \* it is an object of this transaction
            seen   : SUBSET Pair,           \* pairs of the objects SELECTed
            hit    : SUBSET Session,        \* rows that the UPDATE matched
            mine   : [Session -> Row \cup {None}],  \* rows written, not committed
            todo   : SUBSET Key,            \* keys to drop
            floor  : SUBSET Session]        \* history: live sessions on arrival

Nothing == [s \in Session |-> None]

Idle == [op |-> "none", pc |-> "idle", key |-> None, new |-> None, sess |-> None,
         loaded |-> FALSE, seen |-> {}, hit |-> {}, mine |-> Nothing, todo |-> {},
         floor |-> {}]

TypeOK ==
    /\ rows \in [Session -> Row \cup {None}]
    /\ past \in [Key -> SUBSET (Session \cup {None})]
    /\ cache \in [Key -> Session \cup {None, Miss}]
    /\ minted \in SUBSET Pair
    /\ given \in SUBSET minted
    /\ ended \in SUBSET Session
    /\ req \in [Proc -> Request]

Init ==
    /\ rows = Nothing
    /\ past = [k \in Key |-> {None}]
    /\ cache = [k \in Key |-> Miss]
    /\ minted = {}
    /\ given = {}
    /\ ended = {}
    /\ req = [p \in Proc |-> Idle]

-----------------------------------------------------------------------------
Become(p, r) == req' = [req EXCEPT ![p] = r]

At(p, l) == req[p].pc = l

Live(r) == r # None /\ ~r.revoked

LiveSessions == {s \in Session : Live(rows[s])}

(* What the SELECT of a lookup by token returns for the rows t.            *)
Found(t, k) ==
    IF \E s \in Session : Live(t[s]) /\ t[s].pair = k[2]
    THEN CHOOSE s \in Session : Live(t[s]) /\ t[s].pair = k[2]
    ELSE None

Locked(s, p) == \E q \in Proc \ {p} : req[q].mine[s] # None

(* Definitions whose names end in _Bug are mutations of the definition that *)
(* follows, for the checks of the properties.                              *)

Opened(op, pc) ==
    [Idle EXCEPT !.op = op, !.pc = pc,
                 !.floor = IF op = "signout" THEN LiveSessions ELSE {}]

(* A request with a token that an answer has carried, or with the password *)
Start(p, op, pc, k) ==
    /\ At(p, "idle")
    /\ op \in Ops
    /\ Become(p, [Opened(op, pc) EXCEPT !.key = k])
    /\ UNCHANGED <<rows, past, cache, minted, given, ended>>

StartAny(p) ==
    \/ \E q \in given :
          \/ \E op \in {"validate", "join"} : Start(p, op, "get", <<"access", q>>)
          \/ \E d \in Kind : Start(p, "refresh", "get", <<d, q>>)
          \/ Start(p, "invalidateAccess", "read", <<"access", q>>)
          \/ Start(p, "invalidateRefresh", "get", <<"refresh", q>>)
    \/ Start(p, "signout", "read", None)

(* create_session adds a row to the transaction.                           *)
NewRow(q) == [pair |-> q, revoked |-> FALSE, joined |-> FALSE]

(* minecraft_authenticate, once the password is verified.                  *)
Authenticate(p, s, q) ==
    /\ At(p, "idle")
    /\ "authenticate" \in Ops
    /\ rows[s] = None /\ ~Locked(s, p)
    /\ q \notin minted
    /\ minted' = minted \cup {q}
    /\ Become(p, [Opened("authenticate", "drop") EXCEPT
                     !.new = q,
                     !.mine[s] = NewRow(q),
                     !.todo = KeysOf({q})])
    /\ UNCHANGED <<rows, past, cache, given, ended>>

-----------------------------------------------------------------------------
(* get_valid_by_access_token and get_valid_by_refresh_token.               *)

Learn(p, s, loaded) ==
    Become(p, IF s = None \/ req[p].op = "validate" THEN Idle
              ELSE [req[p] EXCEPT !.sess = s, !.loaded = loaded, !.pc = "read"])

LookupHit(p) ==
    /\ At(p, "get")
    /\ cache[req[p].key] # Miss
    /\ Learn(p, cache[req[p].key], FALSE)
    /\ UNCHANGED <<rows, past, cache, minted, given, ended>>

LookupMiss(p) ==
    /\ At(p, "get")
    /\ cache[req[p].key] = Miss
    /\ Become(p, [req[p] EXCEPT !.pc = "select"])
    /\ UNCHANGED <<rows, past, cache, minted, given, ended>>

(* What is not found is a miss of the cache, not an answer.                *)
LookupSelect_Bug(p) ==
    /\ At(p, "select")
    /\ Become(p, [req[p] EXCEPT !.pc = "set",
                     !.sess = IF Found(rows, req[p].key) = None THEN Miss
                              ELSE Found(rows, req[p].key)])
    /\ UNCHANGED <<rows, past, cache, minted, given, ended>>

LookupSelect(p) ==
    /\ At(p, "select")
    /\ Become(p, [req[p] EXCEPT !.pc = "set", !.sess = Found(rows, req[p].key)])
    /\ UNCHANGED <<rows, past, cache, minted, given, ended>>

LookupSet(p) ==
    /\ At(p, "set")
    /\ cache' = [cache EXCEPT ![req[p].key] = req[p].sess]
    /\ Learn(p, req[p].sess, TRUE)
    /\ UNCHANGED <<rows, past, minted, given, ended>>

-----------------------------------------------------------------------------
(* rotate_tokens and mark_join return without an error when the session    *)
(* has been revoked, and the request is answered all the same.             *)

Gone(p) == req[p].op \in {"refresh", "join"} /\ ~Live(rows[req[p].sess])

(* The pairs of the objects that the SELECT of the repository returns.     *)
Selected(p) ==
    CASE req[p].op = "signout" -> {rows[s].pair : s \in LiveSessions}
      [] req[p].op = "invalidateAccess" ->
            {q \in {req[p].key[2]} : \E s \in Session : rows[s] # None /\ rows[s].pair = q}
      [] OTHER -> {IF req[p].loaded THEN req[p].key[2] ELSE rows[req[p].sess].pair}

Read(p) ==
    /\ At(p, "read")
    /\ LET r == IF Gone(p) THEN [req[p] EXCEPT !.pc = "answer"]
                ELSE [req[p] EXCEPT !.pc = "update", !.seen = Selected(p)]
       IN  IF req[p].op = "refresh"
           THEN \E q \in Pair \ minted :
                   Become(p, [r EXCEPT !.new = q]) /\ minted' = minted \cup {q}
           ELSE Become(p, r) /\ UNCHANGED minted
    /\ UNCHANGED <<rows, past, cache, given, ended>>

(* The UPDATE of a rotation does not name the session.                     *)
Matches_Bug(p, s) ==
    /\ rows[s] # None
    /\ CASE req[p].op = "join" -> s = req[p].sess /\ ~rows[s].revoked
         [] req[p].op = "invalidateRefresh" -> s = req[p].sess
         [] req[p].op = "invalidateAccess" -> rows[s].pair = req[p].key[2]
         [] OTHER -> ~rows[s].revoked

(* The WHERE of the UPDATE.                                                *)
Matches(p, s) ==
    /\ rows[s] # None
    /\ CASE req[p].op \in {"refresh", "join"} -> s = req[p].sess /\ ~rows[s].revoked
         [] req[p].op = "invalidateRefresh" -> s = req[p].sess
         [] req[p].op = "invalidateAccess" -> rows[s].pair = req[p].key[2]
         [] OTHER -> ~rows[s].revoked

Written(p, r) ==
    CASE req[p].op = "refresh" -> [r EXCEPT !.pair = req[p].new]
      [] req[p].op = "join" -> [r EXCEPT !.joined = TRUE]
      [] OTHER -> [r EXCEPT !.revoked = TRUE]

Update(p) ==
    /\ At(p, "update")
    /\ Become(p, [req[p] EXCEPT !.pc = "lock", !.hit = {s \in Session : Matches(p, s)}])
    /\ UNCHANGED <<rows, past, cache, minted, given, ended>>

(* What is invalidated: the pairs of the objects.  The one of a rotated    *)
(* row has the new pair by then; the replaced pair is not among them.      *)
Stale(p, changed) ==
    CASE req[p].op = "refresh" ->
            KeysOf({req[p].new} \cup IF changed = {} THEN req[p].seen ELSE {})
      [] req[p].op = "invalidateAccess" -> KeysOf(req[p].seen) \cup {req[p].key}
      [] OTHER -> KeysOf(req[p].seen)

Changes(p, changed) ==
    LET drop == Stale(p, changed)
    IN  [req[p] EXCEPT
            !.mine = [s \in Session |-> IF s \in changed THEN Written(p, rows[s]) ELSE None],
            !.seen = {},
            !.hit = {},
            !.todo = drop,
            !.pc = IF drop = {} THEN "answer" ELSE "drop"]

(* The rows that it matched are not tested again.                          *)
Apply_Bug(p) ==
    /\ At(p, "lock")
    /\ \A s \in req[p].hit : ~Locked(s, p)
    /\ Become(p, Changes(p, req[p].hit))
    /\ UNCHANGED <<rows, past, cache, minted, given, ended>>

(* Rows that are locked are skipped.                                       *)
Apply_BugSkip(p) ==
    /\ At(p, "lock")
    /\ Become(p, Changes(p, {s \in req[p].hit : Matches(p, s) /\ ~Locked(s, p)}))
    /\ UNCHANGED <<rows, past, cache, minted, given, ended>>

(* The locks of the rows are taken, and each row is tested again.          *)
Apply(p) ==
    /\ At(p, "lock")
    /\ \A s \in req[p].hit : ~Locked(s, p)
    /\ Become(p, Changes(p, {s \in req[p].hit : Matches(p, s)}))
    /\ UNCHANGED <<rows, past, cache, minted, given, ended>>

(* The entries are written through, before the commit.                     *)
Drop_Bug(p) ==
    /\ At(p, "drop")
    /\ \E q \in Pair :
          LET left == req[p].todo \ KeysOf({q})
          IN  /\ left # req[p].todo
              /\ cache' = [k \in Key |-> IF k \in req[p].todo \ left
                                         THEN req[p].sess ELSE cache[k]]
              /\ Become(p, [req[p] EXCEPT !.todo = left,
                                          !.pc = IF left = {} THEN "answer" ELSE "drop"])
    /\ UNCHANGED <<rows, past, minted, given, ended>>

(* _invalidate_lookup_cache: one DEL per session.                          *)
Drop(p) ==
    /\ At(p, "drop")
    /\ \E q \in Pair :
          LET left == req[p].todo \ KeysOf({q})
          IN  /\ left # req[p].todo
              /\ cache' = [k \in Key |-> IF k \in req[p].todo \ left THEN Miss ELSE cache[k]]
              /\ Become(p, [req[p] EXCEPT !.todo = left,
                                          !.pc = IF left = {} THEN "answer" ELSE "drop"])
    /\ UNCHANGED <<rows, past, minted, given, ended>>

Answer(p) ==
    /\ At(p, "answer")
    /\ given' = given \cup ({req[p].new} \ {None})
    /\ Become(p, [req[p] EXCEPT !.pc = "commit"])
    /\ UNCHANGED <<rows, past, cache, minted, ended>>

(* Which sessions a committed request was to end.                          *)
Aim(p) ==
    CASE req[p].op = "signout" -> req[p].floor
      [] req[p].op = "invalidateRefresh" -> {req[p].sess}
      [] OTHER -> {}

Merged(p) == [s \in Session |-> IF req[p].mine[s] # None THEN req[p].mine[s] ELSE rows[s]]

(* get_session commits when the answer has been sent.                      *)
Commit(p) ==
    /\ At(p, "commit")
    /\ rows' = Merged(p)
    /\ past' = [k \in Key |-> past[k] \cup {Found(Merged(p), k)}]
    /\ ended' = ended \cup Aim(p)
    /\ Become(p, Idle)
    /\ UNCHANGED <<cache, minted, given>>

(* The user is gone, a command raises or the server restarts: the          *)
(* transaction is rolled back.                                             *)
Fail(p) ==
    /\ Faults
    /\ ~At(p, "idle")
    /\ Become(p, Idle)
    /\ UNCHANGED <<rows, past, cache, minted, given, ended>>

(* ttl="5m"                                                                *)
Expire(k) ==
    /\ Faults
    /\ cache[k] # Miss
    /\ cache' = [cache EXCEPT ![k] = Miss]
    /\ UNCHANGED <<rows, past, minted, given, ended, req>>

Step(p) ==
    \/ LookupHit(p)
    \/ LookupMiss(p)
    \/ LookupSelect(p)
    \/ LookupSet(p)
    \/ Read(p)
    \/ Update(p)
    \/ Apply(p)
    \/ Drop(p)
    \/ Answer(p)
    \/ Commit(p)

Next ==
    \/ \E p \in Proc :
          \/ StartAny(p)
          \/ \E s \in Session, q \in Pair : Authenticate(p, s, q)
          \/ Step(p)
          \/ Fail(p)
    \/ \E k \in Key : Expire(k)

Spec == Init /\ [][Next]_vars

-----------------------------------------------------------------------------
(* No step brings a revoked session back or writes to it: rotate_tokens,   *)
(* mark_join and the revocations of other requests that looked it up while *)
(* it was live, and write after it was revoked, leave its row alone.       *)
RevokedForever ==
    [][\A s \in Session :
          rows[s] # None /\ rows[s].revoked => rows'[s] = rows[s]]_vars

(* Once a signout or an invalidation by refresh token is committed, the    *)
(* sessions it was for are revoked, whatever rotated or joined meanwhile.  *)
EndedAreRevoked ==
    \A s \in ended : rows[s] # None /\ rows[s].revoked

(* A token pair stands for one session in the table, also while requests   *)
(* that were sent with the same pair rotate, and no request is let in for  *)
(* a session that was never found by its token.                            *)
OnlyOwnSession ==
    /\ \A s, t \in Session :
          rows[s] # None /\ rows[t] # None /\ rows[s].pair = rows[t].pair => s = t
    /\ \A k \in Key : cache[k] # Miss => cache[k] \in past[k]
    /\ \A p \in Proc :
          req[p].key # None /\ req[p].sess # None => req[p].sess \in past[req[p].key]

Promise == INSTANCE ReadThrough
    WITH Value <- Session \cup {None},
         current <- [k \in Key |-> Found(rows, k)],
         view <- cache

(* The cache keeps the promise of a read-through cache.                    *)
ReadThroughRefined == Promise!Spec
=============================================================================
