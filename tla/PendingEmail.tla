---------------------------- MODULE PendingEmail ----------------------------
(***************************************************************************)
(* The actions that wait for a code sent by e-mail: registration and the   *)
(* reset of a password, with PendingEmailCacheService, which keeps both in *)
(* one entry of Redis per mailbox, and the routers that use it.            *)
(*                                                                         *)
(* A step runs from one await to the next one; the commands and mails of   *)
(* an asyncio.gather take effect in any order, and one that raises does    *)
(* not stop the others.  A transaction commits after the answer.           *)
(*                                                                         *)
(* An address is a mailbox and the way it is spelled: the keys of Redis    *)
(* hold the normalized spelling, the users table the one that was typed.   *)
(* A login names its account: accounts are neither renamed nor deleted.    *)
(* Passwords are named by the code of the registration, or the reset token *)
(* that set them.  A code is random; two are taken to differ.  Of the      *)
(* lookups, taken apart in UserLookup, what matters here is kept: a cached *)
(* answer may deny a user that was committed since.                        *)
(***************************************************************************)
EXTENDS FiniteSets

CONSTANTS Box,        \* mailboxes
          Spelling,   \* ways to spell an address
          Login,      \* logins
          Code,       \* verification codes
          Token,      \* reset tokens
          Proc,       \* slots for requests in flight
          Ops,        \* the requests that clients make: a subset of Operations
          Faults,     \* whether keys reach their TTL and the server restarts
          None        \* no login, code, token, entry, account or mailbox

Operations == {"register", "resend", "verify", "reset", "resetVerify", "finalize", "login"}

Address == [box : Box, sp : Spelling]

(* PendingUserData.  known: id_ is set, the entry is that of a reset.      *)
Entry == [login : Login, addr : Address, known : BOOLEAN,
          password : Code \cup {None}, code : Code]

(* by: history, the code presented by the request that made it.            *)
Account == [addr : Address, password : Code \cup Token, by : Code]

ResetToken == [login : Login, by : Code, live : BOOLEAN]

ASSUME PendingAssumption ==
    /\ Ops \subseteq Operations
    /\ Faults \in BOOLEAN
    /\ Code \cap Token = {}
    /\ None \notin Login \cup Code \cup Token \cup Box \cup Address
                     \cup Entry \cup Account \cup ResetToken

VARIABLES pending,    \* pending:{email}
          cooldown,   \* the mailboxes with a key cooldown:{email}
          reset,      \* reset:user:{id}:token:{hash}
          users,      \* committed rows of users
          denied,     \* logins and addresses that the lookup cache denies
          mailed,     \* the mailbox that each code was sent to
          minted,     \* codes generated so far
          given,      \* reset tokens that an answer has carried
          sessions,   \* the login and password of each session in SessionCache
          spent,      \* history: codes of verifications answered with success
          req         \* the requests in flight and their local variables

vars == <<pending, cooldown, reset, users, denied, mailed, minted, given,
          sessions, spent, req>>

redis == <<pending, cooldown, reset>>
database == <<users, denied>>
clients == <<mailed, minted, given, sessions, spent>>

Tasks == {"setPending", "setCooldown", "sendCode",
          "createUser", "deletePending", "sendWelcome", "storeToken"}

Request == [op     : Operations \cup {"none"},
            pc     : {"idle", "cooldown", "login", "email", "read", "gather",
                      "validate", "again", "taken", "noPassword", "commit", "conflict",
                      "wipe", "token", "ttl", "update", "deleteToken", "sendChanged",
                      "commitPassword"},
            addr   : Address \cup {None},   \* the address of the request
            name   : Login \cup {None},     \* the login of the request
            code   : Code \cup {None},      \* the code of the request
            token  : Token \cup {None},     \* the reset token of the cookie
            entry  : Entry \cup {None},     \* pending_user_data
            todo   : SUBSET Tasks,          \* the gather under way
            failed : BOOLEAN]               \* one of its tasks has raised

Idle == [op |-> "none", pc |-> "idle", addr |-> None, name |-> None, code |-> None,
         token |-> None, entry |-> None, todo |-> {}, failed |-> FALSE]

TypeOK ==
    /\ pending \in [Box -> Entry \cup {None}]
    /\ cooldown \in SUBSET Box
    /\ reset \in [Token -> ResetToken \cup {None}]
    /\ users \in [Login -> Account \cup {None}]
    /\ denied \in SUBSET (Login \cup Address)
    /\ mailed \in [Code -> Box \cup {None}]
    /\ minted \in SUBSET Code
    /\ given \in SUBSET Token
    /\ sessions \in SUBSET [login : Login, password : Code \cup Token]
    /\ spent \in SUBSET Code
    /\ req \in [Proc -> Request]

Init ==
    /\ pending = [b \in Box |-> None]
    /\ cooldown = {}
    /\ reset = [t \in Token |-> None]
    /\ users = [l \in Login |-> None]
    /\ denied = {}
    /\ mailed = [c \in Code |-> None]
    /\ minted = {}
    /\ given = {}
    /\ sessions = {}
    /\ spent = {}
    /\ req = [p \in Proc |-> Idle]

-----------------------------------------------------------------------------
Become(p, r) == req' = [req EXCEPT ![p] = r]

At(p, l) == req[p].pc = l

Goto(p, l) == Become(p, [req[p] EXCEPT !.pc = l])

(* _get_pending_key and _get_cooldown_key: the spelling is normalized.     *)
BoxOf(p) == req[p].addr.box

Registered == {l \in Login : users[l] # None}

Owners(a) == {l \in Registered : users[l].addr = a}

(* get_user_by_login or get_user_by_email, with the cached denial.         *)
Lookup(x, exists) ==
    denied' = IF exists THEN denied ELSE denied \cup {x}

Finds(x, exists) == exists /\ x \notin denied

(* Definitions whose names end in _Bug are mutations of the definition that *)
(* follows, for the checks of the properties.                              *)

(* A client makes a request.                                               *)
Start(p, op, pc, a, l, c, t) ==
    /\ At(p, "idle")
    /\ op \in Ops
    /\ Become(p, [Idle EXCEPT !.op = op, !.pc = pc, !.addr = a, !.name = l,
                              !.code = c, !.token = t])
    /\ UNCHANGED <<redis, database, clients>>

(* Codes come from a mailbox, and tokens from the answers.                 *)
StartAny(p) ==
    \/ \E a \in Address :
          \/ \E l \in Login : Start(p, "register", "cooldown", a, l, None, None)
          \/ Start(p, "resend", "cooldown", a, None, None, None)
          \/ Start(p, "reset", "email", a, None, None, None)
          \/ \E c \in {d \in Code : mailed[d] # None}, op \in {"verify", "resetVerify"} :
                Start(p, op, "validate", a, None, c, None)
    \/ \E t \in given : Start(p, "finalize", "token", None, reset[t].login, None, t)

-----------------------------------------------------------------------------
(* register_init, register_resend and reset_password_init                  *)

CheckCooldown(p) ==
    /\ At(p, "cooldown")
    /\ IF BoxOf(p) \in cooldown THEN Become(p, Idle)
       ELSE Goto(p, IF req[p].op = "register" THEN "login" ELSE "read")
    /\ UNCHANGED <<redis, database, clients>>

LookupLogin(p) ==
    /\ At(p, "login")
    /\ Lookup(req[p].name, req[p].name \in Registered)
    /\ IF Finds(req[p].name, req[p].name \in Registered) THEN Become(p, Idle)
       ELSE Goto(p, "email")
    /\ UNCHANGED <<redis, users, clients>>

(* generate_verification_code, and the gather of store_pending_user with   *)
(* the mail.                                                               *)
Put(p, e, c) ==
    /\ c \in Code \ minted
    /\ minted' = minted \cup {c}
    /\ Become(p, [req[p] EXCEPT !.pc = "gather", !.entry = [e EXCEPT !.code = c],
                                !.todo = {"setPending", "setCooldown", "sendCode"}])

LookupEmail(p) ==
    /\ At(p, "email")
    /\ Lookup(req[p].addr, Owners(req[p].addr) # {})
    /\ IF Finds(req[p].addr, Owners(req[p].addr) # {}) = (req[p].op = "register")
       THEN Become(p, Idle) /\ UNCHANGED minted
       ELSE \E c \in Code \ minted :
              IF req[p].op = "register"
              THEN Put(p, [login |-> req[p].name, addr |-> req[p].addr,
                           known |-> FALSE, password |-> c, code |-> c], c)
              ELSE \E l \in Owners(req[p].addr) :
                     Put(p, [login |-> l, addr |-> req[p].addr,
                             known |-> TRUE, password |-> None, code |-> c], c)
    /\ UNCHANGED <<redis, users, mailed, given, sessions, spent>>

(* The code of the entry is sent again.                                    *)
ResendRead_Bug(p) ==
    /\ At(p, "read")
    /\ IF pending[BoxOf(p)] = None
       THEN Become(p, Idle)
       ELSE Become(p, [req[p] EXCEPT !.pc = "gather", !.entry = pending[BoxOf(p)],
                                     !.todo = {"setPending", "setCooldown", "sendCode"}])
    /\ UNCHANGED <<redis, database, clients>>

(* The new code is stored with the data of the entry, be it a reset's.     *)
ResendRead(p) ==
    /\ At(p, "read")
    /\ IF pending[BoxOf(p)] = None
       THEN Become(p, Idle) /\ UNCHANGED minted
       ELSE \E c \in Code : Put(p, pending[BoxOf(p)], c)
    /\ UNCHANGED <<redis, database, mailed, given, sessions, spent>>

-----------------------------------------------------------------------------
(* The tasks of the gathers.                                               *)

Task(p, x) == At(p, "gather") /\ x \in req[p].todo

Did(p, x) == Become(p, [req[p] EXCEPT !.todo = @ \ {x}])

SetPending(p) ==
    /\ Task(p, "setPending")
    /\ pending' = [pending EXCEPT ![BoxOf(p)] = req[p].entry]
    /\ Did(p, "setPending")
    /\ UNCHANGED <<cooldown, reset, database, clients>>

SetCooldown(p) ==
    /\ Task(p, "setCooldown")
    /\ cooldown' = cooldown \cup {BoxOf(p)}
    /\ Did(p, "setCooldown")
    /\ UNCHANGED <<pending, reset, database, clients>>

(* send_verification and send_password_reset_code, to the entry's address. *)
SendCode(p) ==
    /\ Task(p, "sendCode")
    /\ mailed' = [mailed EXCEPT ![req[p].entry.code] = req[p].entry.addr.box]
    /\ Did(p, "sendCode")
    /\ UNCHANGED <<redis, database, minted, given, sessions, spent>>

(* create_user: the row is added to the session, both keys are dropped.    *)
CreateUser(p) ==
    /\ Task(p, "createUser")
    /\ denied' = denied \ {req[p].entry.login, req[p].entry.addr}
    /\ Did(p, "createUser")
    /\ UNCHANGED <<redis, users, clients>>

(* The entry loses its code and stays.                                     *)
DeletePending_Bug(p) ==
    /\ Task(p, "deletePending")
    /\ pending' = [pending EXCEPT ![BoxOf(p)].code = None]
    /\ Did(p, "deletePending")
    /\ UNCHANGED <<cooldown, reset, database, clients>>

DeletePending(p) ==
    /\ Task(p, "deletePending")
    /\ pending' = [pending EXCEPT ![BoxOf(p)] = None]
    /\ Did(p, "deletePending")
    /\ UNCHANGED <<cooldown, reset, database, clients>>

SendWelcome(p) ==
    /\ Task(p, "sendWelcome")
    /\ Did(p, "sendWelcome")
    /\ UNCHANGED <<redis, database, clients>>

StoreToken(p) ==
    /\ Task(p, "storeToken")
    /\ reset' = [reset EXCEPT ![req[p].token].live = TRUE]
    /\ Did(p, "storeToken")
    /\ UNCHANGED <<pending, cooldown, database, clients>>

(* send_email raises after its last attempt.                               *)
MailFails(p) ==
    /\ \E x \in {"sendCode", "sendWelcome"} :
          /\ Task(p, x)
          /\ Become(p, [req[p] EXCEPT !.todo = @ \ {x}, !.failed = TRUE])
    /\ UNCHANGED <<redis, database, clients>>

(* The gather has ended.  register_verify answers that the account is      *)
(* created, or raises and its transaction is rolled back.                  *)
Answer(p) ==
    /\ At(p, "gather") /\ req[p].todo = {}
    /\ IF req[p].op = "verify" /\ ~req[p].failed THEN Goto(p, "commit")
       ELSE Become(p, Idle)
    /\ spent' = IF req[p].op \in {"verify", "resetVerify"} /\ ~req[p].failed
                THEN spent \cup {req[p].code} ELSE spent
    /\ given' = IF req[p].op = "resetVerify" THEN given \cup {req[p].token} ELSE given
    /\ UNCHANGED <<redis, database, mailed, minted, sessions>>

-----------------------------------------------------------------------------
(* register_verify and reset_password_verify                               *)

(* Any code of a pending entry will do.                                    *)
ValidateCode_Bug(p) ==
    /\ At(p, "validate")
    /\ IF pending[BoxOf(p)] # None THEN Goto(p, "again") ELSE Become(p, Idle)
    /\ UNCHANGED <<redis, database, clients>>

ValidateCode(p) ==
    /\ At(p, "validate")
    /\ IF pending[BoxOf(p)] # None /\ pending[BoxOf(p)].code = req[p].code
       THEN Goto(p, "again")
       ELSE Become(p, Idle)
    /\ UNCHANGED <<redis, database, clients>>

(* get_pending_user reads the entry once more, which need not be the one   *)
(* whose code was validated.                                               *)
GetPending(p) ==
    /\ At(p, "again")
    /\ LET e == pending[BoxOf(p)]
       IN  IF e = None \/ (req[p].op = "resetVerify" /\ ~e.known)
           THEN Become(p, Idle)
           ELSE Become(p, [req[p] EXCEPT !.entry = e,
                              !.pc = IF req[p].op = "verify" THEN "taken" ELSE "wipe"])
    /\ UNCHANGED <<redis, database, clients>>

(* The login must still be free; nothing asks the same of the address.     *)
CheckTaken(p) ==
    /\ At(p, "taken")
    /\ LET l == req[p].entry.login
       IN  /\ Lookup(l, l \in Registered)
           /\ IF Finds(l, l \in Registered) THEN Become(p, Idle)
              ELSE IF req[p].entry.password = None THEN Goto(p, "noPassword")
              ELSE Become(p, [req[p] EXCEPT !.pc = "gather",
                                 !.todo = {"createUser", "deletePending", "sendWelcome"}])
    /\ UNCHANGED <<redis, users, clients>>

(* The INSERT is part of the commit: the unique constraints may refuse it. *)
Commit(p) ==
    /\ At(p, "commit")
    /\ LET e == req[p].entry
       IN  IF users[e.login] = None /\ Owners(e.addr) = {}
           THEN /\ users' = [users EXCEPT ![e.login] =
                               [addr |-> e.addr, password |-> e.password,
                                by |-> req[p].code]]
                /\ Become(p, Idle)
           ELSE Goto(p, "conflict") /\ UNCHANGED users
    /\ UNCHANGED <<redis, denied, clients>>

(* The errors have been logged.                                            *)
Raise(p) ==
    /\ req[p].pc \in {"noPassword", "conflict"}
    /\ Become(p, Idle)
    /\ UNCHANGED <<redis, database, clients>>

(* delete_all_user_sessions, then the reset token is signed.               *)
WipeSessions(p, t) ==
    /\ At(p, "wipe")
    /\ reset[t] = None
    /\ sessions' = {s \in sessions : s.login # req[p].entry.login}
    /\ reset' = [reset EXCEPT ![t] = [login |-> req[p].entry.login,
                                       by |-> req[p].code, live |-> FALSE]]
    /\ Become(p, [req[p] EXCEPT !.pc = "gather", !.token = t,
                                !.todo = {"storeToken", "deletePending"}])
    /\ UNCHANGED <<pending, cooldown, database, mailed, minted, given, spent>>

-----------------------------------------------------------------------------
(* reset_password_finalize                                                 *)

(* AuthPasswordResetTokenDependency: GET, then the TTL.                    *)
CheckToken(p) ==
    /\ req[p].pc \in {"token", "ttl"}
    /\ IF ~reset[req[p].token].live THEN Become(p, Idle)
       ELSE Goto(p, IF At(p, "token") THEN "ttl" ELSE "update")
    /\ UNCHANGED <<redis, database, clients>>

(* The row lock of the UPDATE is held until the transaction ends.          *)
Updating(p) == req[p].op = "finalize" /\ req[p].pc \in {"deleteToken", "sendChanged", "commitPassword"}

UpdatePassword(p) ==
    /\ At(p, "update")
    /\ IF req[p].name \in denied THEN Become(p, Idle)
       ELSE /\ \A q \in Proc : Updating(q) => req[q].name # req[p].name
            /\ Goto(p, "deleteToken")
    /\ UNCHANGED <<redis, database, clients>>

(* The key is not found and nothing is deleted.                            *)
DeleteToken_Bug(p) ==
    /\ At(p, "deleteToken")
    /\ Goto(p, "sendChanged")
    /\ UNCHANGED <<redis, database, clients>>

DeleteToken(p) ==
    /\ At(p, "deleteToken")
    /\ reset' = [reset EXCEPT ![req[p].token].live = FALSE]
    /\ Goto(p, "sendChanged")
    /\ UNCHANGED <<pending, cooldown, database, clients>>

(* When the mail fails, the new password is rolled back.                   *)
SendChanged(p) ==
    /\ At(p, "sendChanged")
    /\ Goto(p, "commitPassword") \/ Become(p, Idle)
    /\ UNCHANGED <<redis, database, clients>>

CommitPassword(p) ==
    /\ At(p, "commitPassword")
    /\ users' = [users EXCEPT ![req[p].name].password = req[p].token]
    /\ Become(p, Idle)
    /\ UNCHANGED <<redis, denied, clients>>

-----------------------------------------------------------------------------
(* login with the committed password, taken apart in SessionCache.         *)
LogIn(l) ==
    /\ "login" \in Ops
    /\ users[l] # None
    /\ l \notin denied
    /\ sessions' = sessions \cup {[login |-> l, password |-> users[l].password]}
    /\ UNCHANGED <<redis, database, mailed, minted, given, spent, req>>

ExpirePending(b) ==
    /\ Faults
    /\ pending[b] # None
    /\ pending' = [pending EXCEPT ![b] = None]
    /\ UNCHANGED <<cooldown, reset, database, clients, req>>

ExpireCooldown(b) ==
    /\ b \in cooldown
    /\ cooldown' = cooldown \ {b}
    /\ UNCHANGED <<pending, reset, database, clients, req>>

ExpireToken(t) ==
    /\ Faults
    /\ reset[t] # None
    /\ reset[t].live
    /\ reset' = [reset EXCEPT ![t].live = FALSE]
    /\ UNCHANGED <<pending, cooldown, database, clients, req>>

ExpireDenied(x) ==
    /\ Faults
    /\ denied' = denied \ {x}
    /\ UNCHANGED <<redis, users, clients, req>>

(* The server restarts: Redis and PostgreSQL keep what they have.          *)
Restart ==
    /\ Faults
    /\ req' = [p \in Proc |-> Idle]
    /\ UNCHANGED <<redis, database, clients>>

Step(p) ==
    \/ StartAny(p)
    \/ CheckCooldown(p)
    \/ LookupLogin(p)
    \/ LookupEmail(p)
    \/ ResendRead(p)
    \/ SetPending(p)
    \/ SetCooldown(p)
    \/ SendCode(p)
    \/ CreateUser(p)
    \/ DeletePending(p)
    \/ SendWelcome(p)
    \/ StoreToken(p)
    \/ MailFails(p)
    \/ Answer(p)
    \/ ValidateCode(p)
    \/ GetPending(p)
    \/ CheckTaken(p)
    \/ Commit(p)
    \/ Raise(p)
    \/ \E t \in Token : WipeSessions(p, t)
    \/ CheckToken(p)
    \/ UpdatePassword(p)
    \/ DeleteToken(p)
    \/ SendChanged(p)
    \/ CommitPassword(p)

Next ==
    \/ \E p \in Proc : Step(p)
    \/ \E l \in Login : LogIn(l)
    \/ \E b \in Box : ExpirePending(b) \/ ExpireCooldown(b)
    \/ \E t \in Token : ExpireToken(t)
    \/ \E x \in denied : ExpireDenied(x)
    \/ Restart

Spec == Init /\ [][Next]_vars

-----------------------------------------------------------------------------
(* Only who reads the mailbox of an account made it or may reset it, and   *)
(* its password was set by its registration or by a reset of that account: *)
(* also when entries are resent, or overwritten by another action between  *)
(* the two reads of a verification.                                        *)
OnlyMailboxOwner ==
    /\ \A l \in Registered :
          /\ mailed[users[l].by] = users[l].addr.box
          /\ users[l].password \in Token => reset[users[l].password].login = l
    /\ \A t \in Token :
          reset[t] # None => /\ reset[t].login \in Registered
                             /\ mailed[reset[t].by] = users[reset[t].login].addr.box

(* The code of a verification that was answered with success verifies      *)
(* nothing any more: no late store of another request brings it back.      *)
SpentCodeIsDead ==
    \A b \in Box : pending[b] # None => pending[b].code \notin spent

(* The reset token that has set a password is accepted no more: it was     *)
(* deleted before the commit, and the gather that stores it had ended      *)
(* before the answer that gave it away, so that no late store brings it    *)
(* back, be it used by two requests at once.                               *)
UsedTokenIsDead ==
    \A l \in Registered :
        users[l].password \in Token => ~reset[users[l].password].live

-----------------------------------------------------------------------------
(* TLC refutes what follows; no run lists it.                              *)

(* register_verify: "This should never happen."                            *)
NeverWithoutPassword == \A p \in Proc : ~At(p, "noPassword")

(* register_verify: "E-mail confirmed, account created!"  The account of   *)
(* an answered verification is created.                                    *)
AnsweredAccountCreated == \A p \in Proc : ~At(p, "conflict")

(* delete_pending_user: "Remove data from Redis after successful DB        *)
(* write."  A verification that has deleted the entry has created the      *)
(* account.                                                                *)
DeletedAfterWrite ==
    \A p \in Proc :
        /\ req[p].op = "verify"
        /\ At(p, "gather") \/ At(p, "commit") \/ At(p, "conflict")
        /\ "deletePending" \notin req[p].todo
        => req[p].entry.login \in Registered

(* register_verify: "Verify the code sent to email and create the user in  *)
(* the database."  The password of a new account is that of a registration *)
(* whose entry held the presented code.                                    *)
CodeOfThisRegistration ==
    \A p \in Proc :
        /\ req[p].op = "verify" /\ At(p, "commit")
        => req[p].entry.code = req[p].code

(* README: sessions are revoked by force when the password is reset.  The  *)
(* sessions of an account are of logins with its present password.         *)
ResetEndsSessions ==
    \A s \in sessions : s.password = users[s.login].password
=============================================================================
