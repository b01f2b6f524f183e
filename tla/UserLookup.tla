----------------------------- MODULE UserLookup -----------------------------
(***************************************************************************)
(* The row of one account in "users", the cache of UserRepository in front *)
(* of it, and the requests that look the account up or write it.           *)
(*                                                                         *)
(* A lookup is three commands: a GET, on a miss a SELECT, then a SET.  A   *)
(* handler that writes drops the cached entries before its transaction     *)
(* ends: get_session commits after the answer, and rolls back when the     *)
(* handler raises.  PostgreSQL reads committed rows, or a transaction's    *)
(* own.  cashews may let a lookup wait for another one of the same key and *)
(* take its result: that lookup has its GET right after the other's SET.   *)
(*                                                                         *)
(* A password is named by the version of the row that it came with, and    *)
(* time by the number of instants told apart so far: the beginnings of the *)
(* transactions that write (CURRENT_TIMESTAMP) and the signing of tokens.  *)
(***************************************************************************)
EXTENDS Naturals, FiniteSets

CONSTANTS Proc,      \* slots for requests in flight
          Ops,       \* the requests that clients make: a subset of Operations
          MaxReq,    \* bound: requests made
          Miss       \* a key that the cache does not hold

Operations == {"create", "find", "login", "access", "change", "reset"}

ASSUME LookupAssumption ==
    /\ Ops \subseteq Operations
    /\ MaxReq \in Nat

Key == {"login", "email"}

(* ver: the password, 0 when there is no row; date: password_change_date,  *)
(* 0 when it is NULL.                                                      *)
Row == [ver : Nat, date : Nat]

NoRow == [ver |-> 0, date |-> 0]

Token == [iat : Nat, ver : Nat]

NoToken == [iat |-> 0, ver |-> 0]

ASSUME MissAssumption == Miss \notin Row

VARIABLES row,       \* the committed row
          past,      \* history: the rows committed so far
          cache,     \* user:login:{login} and user:email:{email}
          req,       \* the requests in flight and their local variables
          tokens,    \* the access tokens that logins signed
          clock,     \* instants so far
          written,   \* rows written so far, committed or not
          started    \* requests made so far

vars == <<row, past, cache, req, tokens, clock, written, started>>

Request == [op    : Operations \cup {"none"},
            pc    : {"idle", "get", "select", "set", "write", "update",
                     "dropEmail", "dropLogin", "drop", "commit", "accepted"},
            seen  : Row,           \* the result of the SELECT
            again : BOOLEAN,       \* the handler's lookup follows the dependency's
            token : Token,         \* the access token of the Authorization header
            pw    : Nat,           \* the password the client typed
            began : Nat,           \* when the transaction began, 0 before
            mine  : Row,           \* the row written and not yet committed
            floor : Nat]           \* history: the committed password on arrival

Idle == [op |-> "none", pc |-> "idle", seen |-> NoRow, again |-> FALSE,
         token |-> NoToken, pw |-> 0, began |-> 0, mine |-> NoRow, floor |-> 0]

TypeOK ==
    /\ row \in Row
    /\ past \in SUBSET Row
    /\ cache \in [Key -> Row \cup {Miss}]
    /\ req \in [Proc -> Request]
    /\ tokens \in SUBSET Token
    /\ clock \in Nat
    /\ written \in Nat
    /\ started \in 0 .. MaxReq

Init ==
    /\ row = NoRow
    /\ past = {NoRow}
    /\ cache = [k \in Key |-> Miss]
    /\ req = [p \in Proc |-> Idle]
    /\ tokens = {}
    /\ clock = 0
    /\ written = 0
    /\ started = 0

-----------------------------------------------------------------------------
Become(p, r) == req' = [req EXCEPT ![p] = r]

At(p, l) == req[p].pc = l

(* Definitions whose names have _Bug in them are mutations of the          *)
(* definition that follows, for the checks of the properties.              *)

(* Which lookup a request makes.                                           *)
KeyOf(p) == IF req[p].op = "find" THEN "email" ELSE "login"

(* A transaction sees its own write.                                       *)
Visible(p) == IF req[p].mine # NoRow THEN req[p].mine ELSE row

(* The row lock of an UPDATE, held until the transaction ends.             *)
Locked(p) == \E q \in Proc \ {p} : req[q].op # "create" /\ req[q].mine # NoRow

(* AuthAccessTokenDependency refuses a token that is not newer than the    *)
(* last change of password.                                                *)
Accepts(u, t) == u.ver # 0 /\ u.date < t.iat

(* A client makes a request, with a password or with a token it was given. *)
Start(p, op, t, w) ==
    /\ At(p, "idle")
    /\ started < MaxReq
    /\ Become(p, [Idle EXCEPT !.op = op, !.pc = "get", !.token = t, !.pw = w,
                              !.floor = row.ver])
    /\ started' = started + 1
    /\ UNCHANGED <<row, past, cache, tokens, clock, written>>

StartAny(p) ==
    \E op \in Ops :
        \E t \in IF op \in {"access", "change"} THEN tokens ELSE {NoToken} :
            \E w \in IF op \in {"login", "change"} THEN 1 .. written ELSE {0} :
                Start(p, op, t, w)

-----------------------------------------------------------------------------
(* What the handler does with the user u that its lookup returned.         *)

Give(p, r) == Become(p, r) /\ UNCHANGED <<tokens, clock>>

(* register_init and reset_password_init: the rest is in PendingEmail.     *)
FoundByEmail(p) == req[p].op = "find" /\ Give(p, Idle)

(* create_access_token: iat is the time of the server, to the microsecond. *)
CreateToken(u) == [iat |-> clock + 1, ver |-> u.ver]

(* login: verify_password, then the access token.                          *)
CheckPassword(p, u) ==
    /\ req[p].op = "login"
    /\ IF u.ver # 0 /\ u.ver = req[p].pw
       THEN /\ clock' = CreateToken(u).iat
            /\ tokens' = tokens \cup {CreateToken(u)}
            /\ Become(p, [req[p] EXCEPT !.pc = "accepted", !.token = CreateToken(u)])
       ELSE Give(p, Idle)

(* The dependency of the routers that take an access token; the            *)
(* change-password handler looks the user up once more.                    *)
CheckToken(p, u) ==
    /\ req[p].op \in {"access", "change"} /\ ~req[p].again
    /\ Give(p, IF ~Accepts(u, req[p].token) THEN Idle
               ELSE IF req[p].op = "access" THEN [req[p] EXCEPT !.pc = "accepted"]
               ELSE [req[p] EXCEPT !.pc = "get", !.again = TRUE])

(* change_password verifies the old password, reset_password_finalize and  *)
(* register_verify that the user exists or does not.                       *)
MayWrite(p, u) ==
    \/ req[p].op = "change" /\ req[p].again /\ u.ver # 0 /\ u.ver = req[p].pw
    \/ req[p].op = "reset" /\ u.ver # 0
    \/ req[p].op = "create" /\ u.ver = 0

CheckWrite(p, u) ==
    /\ \/ req[p].op \in {"reset", "create"}
       \/ req[p].op = "change" /\ req[p].again
    /\ Give(p, IF MayWrite(p, u) THEN [req[p] EXCEPT !.pc = "write"] ELSE Idle)

Learn(p, u) ==
    \/ FoundByEmail(p)
    \/ CheckPassword(p, u)
    \/ CheckToken(p, u)
    \/ CheckWrite(p, u)

-----------------------------------------------------------------------------
(* get_user_by_login and get_user_by_email.                                *)

LookupHit(p) ==
    /\ At(p, "get")
    /\ cache[KeyOf(p)] # Miss
    /\ Learn(p, cache[KeyOf(p)])
    /\ UNCHANGED <<row, past, cache, written, started>>

LookupMiss(p) ==
    /\ At(p, "get")
    /\ cache[KeyOf(p)] = Miss
    /\ Become(p, [req[p] EXCEPT !.pc = "select"])
    /\ UNCHANGED <<row, past, cache, tokens, clock, written, started>>

(* The first statement of a transaction begins it.                         *)
Writer(p) == req[p].op \in {"change", "reset"}

Begin(p, r) ==
    IF Writer(p) /\ req[p].began = 0
    THEN Become(p, [r EXCEPT !.began = clock + 1]) /\ clock' = clock + 1
    ELSE Become(p, r) /\ UNCHANGED clock

(* The account that is not there is a miss of the cache, not an answer.    *)
LookupSelect_Bug(p) ==
    /\ At(p, "select")
    /\ Begin(p, [req[p] EXCEPT !.pc = "set",
                               !.seen = IF Visible(p) = NoRow THEN Miss ELSE Visible(p)])
    /\ UNCHANGED <<row, past, cache, tokens, written, started>>

LookupSelect(p) ==
    /\ At(p, "select")
    /\ Begin(p, [req[p] EXCEPT !.pc = "set", !.seen = Visible(p)])
    /\ UNCHANGED <<row, past, cache, tokens, written, started>>

LookupSet(p) ==
    /\ At(p, "set")
    /\ cache' = [cache EXCEPT ![KeyOf(p)] = req[p].seen]
    /\ Learn(p, req[p].seen)
    /\ UNCHANGED <<row, past, written, started>>

-----------------------------------------------------------------------------
(* change_user_password: SELECT of the e-mail, UPDATE, then one DEL.       *)

WriteSelect(p) ==
    /\ At(p, "write")
    /\ Writer(p)
    /\ Begin(p, [req[p] EXCEPT !.pc = "update"])
    /\ UNCHANGED <<row, past, cache, tokens, written, started>>

(* The date is rounded up.                                                 *)
Update_Bug(p) ==
    /\ At(p, "update")
    /\ ~Locked(p)
    /\ Become(p, [req[p] EXCEPT !.pc = "drop",
                                !.mine = [ver |-> written + 1, date |-> clock + 1]])
    /\ written' = written + 1
    /\ UNCHANGED <<row, past, cache, tokens, clock, started>>

(* The handler looks the user up again once it has written.                *)
Update_BugLookup(p) ==
    /\ At(p, "update")
    /\ ~Locked(p)
    /\ Become(p, [req[p] EXCEPT !.pc = "select", !.op = "find",
                                !.mine = [ver |-> written + 1, date |-> req[p].began]])
    /\ written' = written + 1
    /\ UNCHANGED <<row, past, cache, tokens, clock, started>>

(* The trigger replaces the date by the beginning of the transaction.      *)
Update(p) ==
    /\ At(p, "update")
    /\ ~Locked(p)
    /\ Become(p, [req[p] EXCEPT !.pc = "drop",
                                !.mine = [ver |-> written + 1, date |-> req[p].began]])
    /\ written' = written + 1
    /\ UNCHANGED <<row, past, cache, tokens, clock, started>>

(* Only the lookup by address is invalidated.                              *)
Drop_Bug(p) ==
    /\ At(p, "drop")
    /\ cache' = [cache EXCEPT !["email"] = Miss]
    /\ Become(p, [req[p] EXCEPT !.pc = "commit"])
    /\ UNCHANGED <<row, past, tokens, clock, written, started>>

Drop(p) ==
    /\ At(p, "drop")
    /\ cache' = [k \in Key |-> Miss]
    /\ Become(p, [req[p] EXCEPT !.pc = "commit"])
    /\ UNCHANGED <<row, past, tokens, clock, written, started>>

(* create_user adds the row to the session and invalidates both keys; the  *)
(* INSERT is part of the commit.                                           *)
Create(p) ==
    /\ At(p, "write")
    /\ req[p].op = "create"
    /\ Become(p, [req[p] EXCEPT !.pc = "dropEmail",
                                !.mine = [ver |-> written + 1, date |-> 0]])
    /\ written' = written + 1
    /\ UNCHANGED <<row, past, cache, tokens, clock, started>>

(* A new account has no cached lookup by address.                          *)
CreateDrop_Bug(p) ==
    /\ \/ At(p, "dropEmail") /\ Become(p, [req[p] EXCEPT !.pc = "dropLogin"]) /\ UNCHANGED cache
       \/ /\ At(p, "dropLogin")
          /\ cache' = [cache EXCEPT !["login"] = Miss]
          /\ Become(p, [req[p] EXCEPT !.pc = "commit"])
    /\ UNCHANGED <<row, past, tokens, clock, written, started>>

CreateDrop(p) ==
    /\ \/ /\ At(p, "dropEmail")
          /\ cache' = [cache EXCEPT !["email"] = Miss]
          /\ Become(p, [req[p] EXCEPT !.pc = "dropLogin"])
       \/ /\ At(p, "dropLogin")
          /\ cache' = [cache EXCEPT !["login"] = Miss]
          /\ Become(p, [req[p] EXCEPT !.pc = "commit"])
    /\ UNCHANGED <<row, past, tokens, clock, written, started>>

-----------------------------------------------------------------------------
(* The unique constraints refuse a second INSERT.                          *)
Commit(p) ==
    /\ At(p, "commit")
    /\ IF req[p].op = "create" /\ row # NoRow
       THEN UNCHANGED <<row, past>>
       ELSE row' = req[p].mine /\ past' = past \cup {req[p].mine}
    /\ Become(p, Idle)
    /\ UNCHANGED <<cache, tokens, clock, written, started>>

(* The session deletions of change_password, the e-mail of the others or   *)
(* the deletion of the reset token fail: session_lifecycle rolls back.     *)
Rollback(p) ==
    /\ req[p].mine # NoRow
    /\ Become(p, Idle)
    /\ UNCHANGED <<row, past, cache, tokens, clock, written, started>>

AnswerAccepted(p) ==
    /\ At(p, "accepted")
    /\ Become(p, Idle)
    /\ UNCHANGED <<row, past, cache, tokens, clock, written, started>>

(* Only the entries that hold a user have a TTL.                           *)
Expire_Bug(k) ==
    /\ cache[k] \notin {Miss, NoRow}
    /\ cache' = [cache EXCEPT ![k] = Miss]
    /\ UNCHANGED <<row, past, req, tokens, clock, written, started>>

(* ttl="15m"                                                               *)
Expire(k) ==
    /\ cache[k] # Miss
    /\ cache' = [cache EXCEPT ![k] = Miss]
    /\ UNCHANGED <<row, past, req, tokens, clock, written, started>>

(* The server restarts: its transactions are aborted, Redis keeps its keys *)
Restart ==
    /\ req' = [p \in Proc |-> Idle]
    /\ UNCHANGED <<row, past, cache, tokens, clock, written, started>>

Step(p) ==
    \/ LookupHit(p)
    \/ LookupMiss(p)
    \/ LookupSelect(p)
    \/ LookupSet(p)
    \/ WriteSelect(p)
    \/ Update(p)
    \/ Drop(p)
    \/ Create(p)
    \/ CreateDrop(p)
    \/ Commit(p)
    \/ AnswerAccepted(p)

Next ==
    \/ \E p \in Proc : StartAny(p) \/ Step(p) \/ Rollback(p)
    \/ \E k \in Key : Expire(k)
    \/ Restart

Spec == Init /\ [][Next]_vars

(* A request that is under way goes on, and Redis removes what has reached *)
(* its TTL.  Nobody has to make a request, to fail or to restart.          *)
FairSpec ==
    /\ Spec
    /\ \A p \in Proc : WF_vars(Step(p))
    /\ \A k \in Key : WF_vars(Expire(k))

-----------------------------------------------------------------------------
(* No request decides on a row that was never committed, and none is in    *)
(* the cache, although handlers that may still be rolled back look up and  *)
(* invalidate in the middle of their transactions.                         *)
OnlyCommitted ==
    /\ \A k \in Key : cache[k] # Miss => cache[k] \in past
    /\ \A p \in Proc : req[p].seen \in past

(* Nobody is locked out by a change of password: a token of a login with   *)
(* the committed password is newer than the date that the trigger wrote,   *)
(* and is accepted by whoever reads the row.                               *)
NewTokenAccepted ==
    \A t \in tokens : t.ver = row.ver => Accepts(row, t)

Promise == INSTANCE ReadThrough
    WITH Value <- Row,
         current <- [k \in Key |-> row],
         past <- [k \in Key |-> past],
         view <- cache

(* The cache keeps the promise of a read-through cache.                    *)
ReadThroughRefined == Promise!Spec

(* Entries that a lookup fills between the invalidation of a writer and    *)
(* its commit do not last: with no more writes both keys end up with the   *)
(* committed row, or empty.                                                *)
EventuallyFresh == Promise!Settles

-----------------------------------------------------------------------------
(* change_password: "Password successfully changed!"; README: a change or  *)
(* reset of the password ends the sessions by force.  Requests that arrive *)
(* after its commit are refused with the password from before it, and with *)
(* the access tokens of logins from before it.                             *)
OldCredentialsRefused ==
    \A p \in Proc : At(p, "accepted") =>
        /\ req[p].op = "login" => req[p].pw >= req[p].floor
        /\ req[p].op = "access" => req[p].token.ver >= req[p].floor

(* TLC refutes what follows; no run lists it.                              *)

(* create_user: "Create a new user and invalidate related caches."  Once   *)
(* the account is committed the cache does not deny it.                    *)
CreatedUserFound ==
    row # NoRow => \A k \in Key : cache[k] # NoRow

(* users.password_change_date: "Password last change date".  The dates of  *)
(* the passwords that were committed one after the other do not go back.   *)
DateOfLastChange ==
    \A r \in past : r.date <= row.date
=============================================================================
