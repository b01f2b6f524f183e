------------------------------ MODULE AuditLog ------------------------------
(***************************************************************************)
(* The history of the sessions of one account in "user_sessions", and the  *)
(* background tasks that write it: each request changes the sessions in    *)
(* Redis, is answered and leaves one task, which has a transaction of its  *)
(* own.  A call of SessionCacheService is one step here: its commands are  *)
(* taken apart in SessionCache.  Redis drops a token without any request   *)
(* when its TTL runs out; no task revokes the row of it.                   *)
(*                                                                         *)
(* A row is named by the token of the login that made it.  An UPDATE takes *)
(* the rows that match when it starts, waits for their locks and tests     *)
(* each of them again.                                                     *)
(***************************************************************************)
CONSTANTS Token,    \* refresh tokens
          Device,   \* pairs of a user agent and an address
          Slot,     \* slots for requests in flight and their background tasks
          None      \* no token, no row

Row == [hash : Token, dev : Device, revoked : BOOLEAN]

ASSUME AuditAssumption == None \notin Token \cup Device \cup Row

VARIABLES valid,    \* the device of each token that Redis holds
          origin,   \* history: the login that the session of a token began with
          expired,  \* history: the tokens that Redis has dropped by itself
          calm,     \* history: no request or task has overlapped another one or
                    \* failed, and no refresh has come from another device
          rows,     \* the committed rows of user_sessions
          task      \* the requests and background tasks, their local variables

vars == <<valid, origin, expired, calm, rows, task>>

Task == [kind : {"none", "login", "rotate", "logout", "revokeAll"},
         pc   : {"idle", "delete", "store", "exchange",          \* the request
                 "select", "update", "lock", "commit"},          \* its task
         old  : Token \cup {None},            \* the token of the request
         new  : Token \cup {None},            \* the token of its answer
         dev  : Device \cup {None},
         row  : Token \cup {None},            \* user_session
         hit  : SUBSET Token,                 \* rows that the UPDATE matched
         mine : [Token -> Row \cup {None}]]   \* rows written, not committed

Nothing == [t \in Token |-> None]

Idle == [kind |-> "none", pc |-> "idle", old |-> None, new |-> None, dev |-> None,
         row |-> None, hit |-> {}, mine |-> Nothing]

TypeOK ==
    /\ valid \in [Token -> Device \cup {None}]
    /\ origin \in [Token -> Token \cup {None}]
    /\ expired \in SUBSET Token
    /\ calm \in BOOLEAN
    /\ rows \in [Token -> Row \cup {None}]
    /\ task \in [Slot -> Task]

Init ==
    /\ valid = Nothing
    /\ origin = Nothing
    /\ expired = {}
    /\ calm = TRUE
    /\ rows = Nothing
    /\ task = [k \in Slot |-> Idle]

-----------------------------------------------------------------------------
Become(k, r) == task' = [task EXCEPT ![k] = r]

At(k, l) == task[k].pc = l

Settled == \A k \in Slot : At(k, "idle")

Made == {r \in Token : rows[r] # None}

Locked(r, k) == \E j \in Slot \ {k} : task[j].mine[r] # None

(* Definitions whose names end in _Bug are mutations of the definition that *)
(* follows, for the checks of the properties.                              *)

(* A request begins.  The token that it will answer with is made before   *)
(* it calls Redis.                                                         *)
Begin(k, kind, pc, old, new, d) ==
    /\ At(k, "idle")
    /\ Become(k, [Idle EXCEPT !.kind = kind, !.pc = pc, !.old = old, !.new = new, !.dev = d])
    /\ UNCHANGED <<valid, expired, rows>>

Login(k, t, d) ==
    /\ origin[t] = None
    /\ origin' = [origin EXCEPT ![t] = t]
    /\ calm' = (calm /\ Settled)
    /\ Begin(k, "login", "delete", None, t, d)

(* rotate_refresh_token has found the token.                               *)
Refresh(k, t, u, d) ==
    /\ valid[t] # None
    /\ origin[u] = None
    /\ origin' = [origin EXCEPT ![u] = origin[t]]
    /\ calm' = (calm /\ Settled /\ d = valid[t])
    /\ Begin(k, "rotate", "exchange", t, u, d)

Logout(k, t) ==
    /\ valid[t] # None
    /\ calm' = (calm /\ Settled)
    /\ Begin(k, "logout", "delete", t, None, None)
    /\ UNCHANGED origin

(* change_password and reset_password_verify.                              *)
ChangePassword(k) ==
    /\ calm' = (calm /\ Settled)
    /\ Begin(k, "revokeAll", "delete", None, None, None)
    /\ UNCHANGED origin

(* The tokens that the next call of the request deletes and stores.        *)
Ended(k) ==
    CASE At(k, "delete") /\ task[k].kind = "login" -> {x \in Token : valid[x] = task[k].dev}
      [] At(k, "delete") /\ task[k].kind = "revokeAll" -> Token
      [] At(k, "store") -> {}
      [] OTHER -> {task[k].old}

Stored(k) == IF At(k, "delete") THEN {} ELSE {task[k].new}

Redis(k, ended, stored) ==
    /\ valid' = [x \in Token |-> IF x \in stored THEN task[k].dev
                                 ELSE IF x \in ended THEN None ELSE valid[x]]
    /\ UNCHANGED <<origin, expired, rows>>

(* delete_user_device_sessions                                             *)
DeleteDevice(k) ==
    /\ At(k, "delete")
    /\ task[k].kind = "login"
    /\ Redis(k, Ended(k), {})
    /\ Become(k, [task[k] EXCEPT !.pc = "store"])
    /\ UNCHANGED calm

(* store_refresh_token of a login, and add_task.                           *)
StoreNew(k) ==
    /\ At(k, "store")
    /\ Redis(k, {}, Stored(k))
    /\ Become(k, [task[k] EXCEPT !.pc = "update"])
    /\ UNCHANGED calm

(* rotate_refresh_token: the old token is deleted and the new one stored,  *)
(* also when another refresh has exchanged the old one by now; add_task.   *)
Exchange(k) ==
    /\ At(k, "exchange")
    /\ Redis(k, Ended(k), Stored(k))
    /\ Become(k, [task[k] EXCEPT !.pc = "select"])
    /\ UNCHANGED calm

(* logout adds no task when its token was gone.                            *)
DeleteOwn(k) ==
    /\ At(k, "delete")
    /\ task[k].kind = "logout"
    /\ Redis(k, Ended(k), {})
    /\ Become(k, IF valid[task[k].old] = None THEN Idle ELSE [task[k] EXCEPT !.pc = "select"])
    /\ UNCHANGED calm

(* delete_all_user_sessions, and add_task.                                 *)
DeleteAll(k) ==
    /\ At(k, "delete")
    /\ task[k].kind = "revokeAll"
    /\ Redis(k, Ended(k), {})
    /\ Become(k, [task[k] EXCEPT !.pc = "update"])
    /\ UNCHANGED calm

(* A command raises or the server restarts before add_task: some of the    *)
(* commands have taken effect, and there is no task.                       *)
RequestFails(k) ==
    /\ task[k].pc \in {"delete", "store", "exchange"}
    /\ \E ended \in SUBSET Ended(k), stored \in SUBSET Stored(k) : Redis(k, ended, stored)
    /\ calm' = FALSE
    /\ Become(k, Idle)

Request(k) ==
    \/ \E t \in Token, d \in Device : Login(k, t, d)
    \/ \E t, u \in Token, d \in Device : Refresh(k, t, u, d)
    \/ \E t \in Token : Logout(k, t)
    \/ ChangePassword(k)
    \/ DeleteDevice(k)
    \/ StoreNew(k)
    \/ Exchange(k)
    \/ DeleteOwn(k)
    \/ DeleteAll(k)
    \/ RequestFails(k)

(* The TTL of a token runs out, or the reuse of a token revokes its family *)
(* and answers 401: no task is added.                                      *)
Expire(t) ==
    /\ valid[t] # None
    /\ valid' = [valid EXCEPT ![t] = None]
    /\ expired' = expired \cup {t}
    /\ UNCHANGED <<origin, calm, rows, task>>

-----------------------------------------------------------------------------
(* get_by_refresh_token_hash.  A row that is not there is not an error.    *)
SelectRow(k) ==
    /\ At(k, "select")
    /\ \/ \E r \in Made :
             /\ rows[r].hash = task[k].old
             /\ Become(k, [task[k] EXCEPT !.pc = "update", !.row = r])
       \/ /\ \A r \in Made : rows[r].hash # task[k].old
          /\ Become(k, Idle)
    /\ UNCHANGED <<valid, origin, expired, calm, rows>>

(* The UPDATE of a rotation names the device but not the row.              *)
Matches_Bug(k, r) ==
    /\ rows[r] # None
    /\ CASE task[k].kind = "login" -> ~rows[r].revoked /\ rows[r].dev = task[k].dev
         [] task[k].kind = "rotate" -> rows[r].dev = task[k].dev
         [] task[k].kind = "logout" -> r = task[k].row
         [] OTHER -> ~rows[r].revoked

(* A login revokes the rows of all devices.                                *)
Matches_BugDevice(k, r) ==
    /\ rows[r] # None
    /\ CASE task[k].kind = "login" -> ~rows[r].revoked
         [] task[k].kind = "rotate" -> r = task[k].row /\ rows[r].dev = task[k].dev
         [] task[k].kind = "logout" -> r = task[k].row
         [] OTHER -> ~rows[r].revoked

(* The WHERE of revoke_current_sessions, update_refresh_token,             *)
(* revoke_session and revoke_all_sessions.                                 *)
Matches(k, r) ==
    /\ rows[r] # None
    /\ CASE task[k].kind = "login" -> ~rows[r].revoked /\ rows[r].dev = task[k].dev
         [] task[k].kind = "rotate" -> r = task[k].row /\ rows[r].dev = task[k].dev
         [] task[k].kind = "logout" -> r = task[k].row
         [] OTHER -> ~rows[r].revoked

Written(k, r) ==
    IF task[k].kind = "rotate" THEN [r EXCEPT !.hash = task[k].new]
    ELSE [r EXCEPT !.revoked = TRUE]

Update(k) ==
    /\ At(k, "update")
    /\ Become(k, [task[k] EXCEPT !.pc = "lock", !.hit = {r \in Token : Matches(k, r)}])
    /\ UNCHANGED <<valid, origin, expired, calm, rows>>

(* create_session adds the row of a login to the session.                  *)
Inserted(k, r) == task[k].kind = "login" /\ r = task[k].new

(* The row of a login is made without its device.                          *)
Apply_Bug(k) ==
    /\ At(k, "lock")
    /\ \A r \in task[k].hit : ~Locked(r, k)
    /\ Become(k, [task[k] EXCEPT
                    !.pc = "commit",
                    !.mine = [r \in Token |->
                        IF Inserted(k, r)
                        THEN [hash |-> r, dev |-> None, revoked |-> FALSE]
                        ELSE IF r \in task[k].hit /\ Matches(k, r) THEN Written(k, rows[r])
                        ELSE None]])
    /\ UNCHANGED <<valid, origin, expired, calm, rows>>

(* The rows are written without waiting for who has written them.          *)
Apply_BugLock(k) ==
    /\ At(k, "lock")
    /\ Become(k, [task[k] EXCEPT
                    !.pc = "commit",
                    !.mine = [r \in Token |->
                        IF Inserted(k, r)
                        THEN [hash |-> r, dev |-> task[k].dev, revoked |-> FALSE]
                        ELSE IF r \in task[k].hit /\ Matches(k, r) THEN Written(k, rows[r])
                        ELSE None]])
    /\ UNCHANGED <<valid, origin, expired, calm, rows>>

Apply(k) ==
    /\ At(k, "lock")
    /\ \A r \in task[k].hit : ~Locked(r, k)
    /\ Become(k, [task[k] EXCEPT
                    !.pc = "commit",
                    !.mine = [r \in Token |->
                        IF Inserted(k, r)
                        THEN [hash |-> r, dev |-> task[k].dev, revoked |-> FALSE]
                        ELSE IF r \in task[k].hit /\ Matches(k, r) THEN Written(k, rows[r])
                        ELSE None]])
    /\ UNCHANGED <<valid, origin, expired, calm, rows>>

(* session_lifecycle                                                       *)
Commit(k) ==
    /\ At(k, "commit")
    /\ rows' = [r \in Token |-> IF task[k].mine[r] # None THEN task[k].mine[r] ELSE rows[r]]
    /\ Become(k, Idle)
    /\ UNCHANGED <<valid, origin, expired, calm>>

(* A statement raises, the request raises after add_task, or the server    *)
(* restarts: nobody runs the task again.                                   *)
TaskFails(k) ==
    /\ task[k].pc \in {"select", "update", "lock", "commit"}
    /\ calm' = FALSE
    /\ Become(k, Idle)
    /\ UNCHANGED <<valid, origin, expired, rows>>

Next ==
    \/ \E k \in Slot :
          \/ Request(k)
          \/ SelectRow(k)
          \/ Update(k)
          \/ Apply(k)
          \/ Commit(k)
          \/ TaskFails(k)
    \/ \E t \in Token : Expire(t)

Spec == Init /\ [][Next]_vars

-----------------------------------------------------------------------------
(* A token is found in one row at most, or get_by_refresh_token_hash would *)
(* raise, and that row is of the login its session began with: tasks of    *)
(* different sessions on one device do not write to each other's rows,     *)
(* whatever order they run in and whichever of them fail.                  *)
RowsKeepApart ==
    \A r \in Made :
        /\ origin[rows[r].hash] = r
        /\ \A s \in Made : rows[s].hash = rows[r].hash => s = r

(* As long as each request and its task have ended before the next        *)
(* request, and refreshes stay on their devices, the log agrees with       *)
(* Redis: every token that Redis holds is shown by a row that is not       *)
(* revoked, with its device, and a row that is not revoked shows a token   *)
(* that Redis holds or has dropped by itself, which nothing but the        *)
(* expires_at of the row tells.  Requests and tasks that overlap or fail   *)
(* may leave it otherwise.                                                 *)
AuditAgrees ==
    calm /\ Settled =>
        /\ \A t \in Token : valid[t] # None =>
              \E r \in Made : rows[r] = [hash |-> t, dev |-> valid[t], revoked |-> FALSE]
        /\ \A r \in Made : ~rows[r].revoked =>
              valid[rows[r].hash] # None \/ rows[r].hash \in expired

(* The log is not rewritten: a row stays, on the device of its login, and  *)
(* a session that was closed is not opened again, also when a rotation and *)
(* a revocation that overlap write the same row in either order, and when  *)
(* a login commits a row of its own.                                       *)
ClosedStaysClosed ==
    [][\A r \in Made :
          /\ rows'[r] # None
          /\ rows'[r].dev = rows[r].dev
          /\ rows[r].revoked => rows'[r].revoked]_vars
=============================================================================
