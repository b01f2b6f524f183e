-------------------------- MODULE AuditLogProofs --------------------------
(***************************************************************************)
(* Proofs about AuditLog, for any number of tokens, devices and tasks.     *)
(***************************************************************************)
EXTENDS AuditLog, TLAPS

(* Rows, committed or not, show a token of the login they are named by.    *)
RowsSound(f, o) == \A r \in Token : f[r] # None => o[f[r].hash] = r

(* What a request or task under way knows of the sessions it is about.     *)
TaskSound(q, o) ==
    /\ q.kind = "login" => q.new \in Token /\ q.dev \in Device /\ o[q.new] = q.new
    /\ q.kind = "rotate" =>
          /\ q.old \in Token
          /\ q.new \in Token
          /\ q.dev \in Device
          /\ o[q.old] \in Token
          /\ o[q.new] = o[q.old]
          /\ q.pc \in {"update", "lock", "commit"} => q.row = o[q.old]
    /\ q.pc = "store" => q.kind = "login"
    /\ q.pc = "exchange" => q.kind = "rotate"
    /\ RowsSound(q.mine, o)

Begun == \A t \in Token : valid[t] # None => origin[t] \in Token

Sound ==
    /\ Begun
    /\ RowsSound(rows, origin)
    /\ \A k \in Slot : TaskSound(task[k], origin)

IInv == TypeOK /\ Sound

(* The history only grows.                                                 *)
Extends(o, n) == \A t \in Token : o[t] # None => n[t] = o[t]

LEMMA RowsGrow ==
    ASSUME NEW f \in [Token -> Row \cup {None}], NEW o, NEW n,
           Extends(o, n), RowsSound(f, o)
    PROVE  RowsSound(f, n)
  <1> SUFFICES ASSUME NEW r \in Token, f[r] # None PROVE n[f[r].hash] = r
    BY DEF RowsSound
  <1>1. f[r].hash \in Token /\ o[f[r].hash] = r
    BY DEF RowsSound, Row
  <1>2. r # None
    BY AuditAssumption
  <1> QED
    BY <1>1, <1>2 DEF Extends

LEMMA TaskGrows ==
    ASSUME NEW q \in Task, NEW o, NEW n, Extends(o, n), TaskSound(q, o)
    PROVE  TaskSound(q, n)
  <1>1. RowsSound(q.mine, n)
    BY RowsGrow DEF TaskSound, Task
  <1>2. \A t \in Token : t # None
    BY AuditAssumption
  <1> QED
    BY <1>1, <1>2 DEF TaskSound, Extends

LEMMA IdleSound ==
    /\ Idle \in Task
    /\ \A o : TaskSound(Idle, o)
  <1>1. Nothing \in [Token -> Row \cup {None}] /\ \A o : RowsSound(Nothing, o)
    BY DEF Nothing, RowsSound
  <1> QED
    BY <1>1 DEF Idle, Task, TaskSound

(* A step of one task: its record is sound, and so is the rest.            *)
LEMMA StepLemma ==
    ASSUME IInv, NEW k \in Slot, NEW q \in Task, Become(k, q),
           TaskSound(q, origin'), Extends(origin, origin'),
           origin' \in [Token -> Token \cup {None}],
           valid' \in [Token -> Device \cup {None}], Begun', calm' \in BOOLEAN,
           expired' \in SUBSET Token,
           rows' \in [Token -> Row \cup {None}], RowsSound(rows', origin')
    PROVE  IInv'
  <1>1. task' = [task EXCEPT ![k] = q] /\ task \in [Slot -> Task]
    BY DEF Become, IInv, TypeOK
  <1>2. task' \in [Slot -> Task]
    BY <1>1
  <1>3. ASSUME NEW j \in Slot PROVE TaskSound(task'[j], origin')
    <2>1. CASE j = k
      BY <1>1, <2>1
    <2>2. CASE j # k
      <3>1. task'[j] = task[j] /\ task[j] \in Task /\ TaskSound(task[j], origin)
        BY <1>1, <2>2 DEF IInv, Sound
      <3> QED
        BY <3>1, TaskGrows
    <2> QED
      BY <2>1, <2>2
  <1> QED
    BY <1>2, <1>3 DEF IInv, TypeOK, Sound

(* The step of a task that leaves Redis and the table alone.               *)
LEMMA LocalLemma ==
    ASSUME IInv, NEW k \in Slot, NEW q \in Task, Become(k, q), TaskSound(q, origin),
           UNCHANGED <<valid, origin, expired, rows>>, calm' \in BOOLEAN
    PROVE  IInv'
  <1>1. Extends(origin, origin') /\ Begun' /\ RowsSound(rows', origin')
    BY DEF Extends, IInv, Sound, Begun
  <1> QED
    BY <1>1, StepLemma DEF IInv, TypeOK

(* The step that begins a request.                                         *)
LEMMA RequestLemma ==
    ASSUME IInv, NEW k \in Slot, NEW kind, NEW pc, NEW old, NEW new, NEW d,
           Begin(k, kind, pc, old, new, d),
           [Idle EXCEPT !.kind = kind, !.pc = pc, !.old = old, !.new = new, !.dev = d] \in Task,
           TaskSound([Idle EXCEPT !.kind = kind, !.pc = pc, !.old = old, !.new = new,
                                  !.dev = d], origin'),
           Extends(origin, origin'), origin' \in [Token -> Token \cup {None}],
           calm' \in BOOLEAN
    PROVE  IInv'
  <1>1. rows' = rows /\ RowsSound(rows', origin')
    BY RowsGrow DEF Begin, IInv, TypeOK, Sound
  <1>2. UNCHANGED <<valid, expired>> /\ Begun'
    BY AuditAssumption DEF Begin, Begun, Extends, IInv, TypeOK, Sound
  <1> QED
    BY <1>1, <1>2, StepLemma DEF Begin, IInv, TypeOK

LEMMA LoginStep ==
    ASSUME IInv, NEW k \in Slot, NEW t \in Token, NEW d \in Device, Login(k, t, d)
    PROVE  IInv'
  <1> DEFINE q == [Idle EXCEPT !.kind = "login", !.pc = "delete", !.old = None,
                               !.new = t, !.dev = d]
  <1>1. q \in Task
    BY IdleSound DEF Task
  <1>2. origin' = [origin EXCEPT ![t] = t] /\ origin[t] = None
        /\ origin \in [Token -> Token \cup {None}]
    BY DEF Login, IInv, TypeOK
  <1>3. TaskSound(q, origin')
    BY <1>2, IdleSound DEF TaskSound, Idle
  <1>4. Extends(origin, origin') /\ origin' \in [Token -> Token \cup {None}]
    BY <1>2 DEF Extends
  <1>5. calm' \in BOOLEAN /\ Begin(k, "login", "delete", None, t, d)
    BY DEF Login, IInv, TypeOK
  <1> QED
    BY <1>1, <1>3, <1>4, <1>5, RequestLemma

LEMMA RefreshStep ==
    ASSUME IInv, NEW k \in Slot, NEW t \in Token, NEW u \in Token, NEW d \in Device,
           Refresh(k, t, u, d)
    PROVE  IInv'
  <1> DEFINE q == [Idle EXCEPT !.kind = "rotate", !.pc = "exchange", !.old = t,
                               !.new = u, !.dev = d]
  <1>1. q \in Task
    BY IdleSound DEF Task
  <1>2. /\ origin' = [origin EXCEPT ![u] = origin[t]] /\ origin[u] = None
        /\ origin \in [Token -> Token \cup {None}] /\ origin[t] \in Token /\ t # u
    BY AuditAssumption DEF Refresh, IInv, TypeOK, Sound, Begun
  <1>3. TaskSound(q, origin')
    BY <1>2, IdleSound DEF TaskSound, Idle
  <1>4. Extends(origin, origin') /\ origin' \in [Token -> Token \cup {None}]
    BY <1>2 DEF Extends
  <1>5. calm' \in BOOLEAN /\ Begin(k, "rotate", "exchange", t, u, d)
    BY DEF Refresh, IInv, TypeOK
  <1> QED
    BY <1>1, <1>3, <1>4, <1>5, RequestLemma

(* A logout or a change of password knows no more than its token.          *)
LEMMA EndStep ==
    ASSUME IInv, NEW k \in Slot, (\E t \in Token : Logout(k, t)) \/ ChangePassword(k)
    PROVE  IInv'
  <1>0. Extends(origin, origin') /\ origin' = origin /\ calm' \in BOOLEAN
    BY DEF Logout, ChangePassword, Extends, IInv, TypeOK
  <1>1. ASSUME NEW t \in Token, Logout(k, t) PROVE IInv'
    <2> DEFINE q == [Idle EXCEPT !.kind = "logout", !.pc = "delete", !.old = t,
                                 !.new = None, !.dev = None]
    <2>1. q \in Task /\ TaskSound(q, origin)
      BY IdleSound DEF Task, TaskSound, Idle
    <2>2. Begin(k, "logout", "delete", t, None, None)
      BY <1>1 DEF Logout
    <2> QED
      BY <1>0, <2>1, <2>2, RequestLemma DEF IInv, TypeOK
  <1>2. ASSUME ChangePassword(k) PROVE IInv'
    <2> DEFINE q == [Idle EXCEPT !.kind = "revokeAll", !.pc = "delete", !.old = None,
                                 !.new = None, !.dev = None]
    <2>1. q \in Task /\ TaskSound(q, origin)
      BY IdleSound DEF Task, TaskSound, Idle
    <2>2. Begin(k, "revokeAll", "delete", None, None, None)
      BY <1>2 DEF ChangePassword
    <2> QED
      BY <1>0, <2>1, <2>2, RequestLemma DEF IInv, TypeOK
  <1> QED
    BY <1>1, <1>2

-----------------------------------------------------------------------------
(* What a call of Redis leaves: it stores no token but the one that the    *)
(* request was given when it began.                                        *)
LEMMA RedisLemma ==
    ASSUME IInv, NEW k \in Slot, NEW ended, NEW stored \in SUBSET Stored(k),
           task[k].pc \in {"delete", "store", "exchange"}, Redis(k, ended, stored)
    PROVE  /\ valid' \in [Token -> Device \cup {None}] /\ Begun'
           /\ Extends(origin, origin') /\ UNCHANGED <<origin, expired, rows>>
  <1>1. UNCHANGED <<origin, expired, rows>> /\ Extends(origin, origin')
    BY DEF Redis, Extends
  <1>2. TaskSound(task[k], origin) /\ valid \in [Token -> Device \cup {None}] /\ Begun
    BY DEF IInv, TypeOK, Sound
  <1>3. ASSUME NEW x \in Token, x \in stored
        PROVE  task[k].dev \in Device /\ origin[x] \in Token
    <2>1. x = task[k].new /\ task[k].pc \in {"store", "exchange"}
      BY <1>3 DEF Stored, At
    <2> QED
      BY <1>2, <1>3, <2>1 DEF TaskSound
  <1>4. ASSUME NEW x \in Token
        PROVE  /\ valid'[x] = IF x \in stored THEN task[k].dev
                              ELSE IF x \in ended THEN None ELSE valid[x]
               /\ valid'[x] \in Device \cup {None}
               /\ valid'[x] # None => origin'[x] \in Token
    BY <1>1, <1>2, <1>3 DEF Redis, Begun
  <1> QED
    BY <1>1, <1>4 DEF Redis, Begun

(* A request that goes on after a call of Redis knows what it knew.        *)
LEMMA CallLemma ==
    ASSUME IInv, NEW k \in Slot, NEW ended, NEW stored \in SUBSET Stored(k),
           task[k].pc \in {"delete", "store", "exchange"}, Redis(k, ended, stored),
           NEW pc \in {"store", "select", "update"}, pc = "store" => task[k].kind = "login",
           task[k].kind = "rotate" => pc = "select",
           Become(k, [task[k] EXCEPT !.pc = pc]), UNCHANGED calm
    PROVE  IInv'
  <1> DEFINE q == [task[k] EXCEPT !.pc = pc]
  <1>1. task[k] \in Task /\ TaskSound(task[k], origin) /\ RowsSound(rows, origin)
    BY DEF IInv, TypeOK, Sound
  <1>2. q \in Task
    BY <1>1 DEF Task
  <1>3. TaskSound(q, origin)
    BY <1>1 DEF TaskSound, Task
  <1>4. Become(k, q)
    OBVIOUS
  <1> HIDE DEF q
  <1> QED
    BY <1>1, <1>2, <1>3, <1>4, RedisLemma, StepLemma DEF IInv, TypeOK

(* A request that ends with a call of Redis, done or failed.               *)
LEMMA StopLemma ==
    ASSUME IInv, NEW k \in Slot, NEW ended, NEW stored \in SUBSET Stored(k),
           task[k].pc \in {"delete", "store", "exchange"}, Redis(k, ended, stored),
           Become(k, Idle), calm' \in BOOLEAN
    PROVE  IInv'
  BY RedisLemma, StepLemma, IdleSound DEF IInv, TypeOK, Sound

LEMMA CallStep ==
    ASSUME IInv, NEW k \in Slot,
           \/ DeleteDevice(k) \/ StoreNew(k) \/ Exchange(k) \/ DeleteOwn(k) \/ DeleteAll(k)
           \/ RequestFails(k)
    PROVE  IInv'
  <1>0. TaskSound(task[k], origin) /\ calm \in BOOLEAN /\ {} \in SUBSET Stored(k)
    BY DEF IInv, TypeOK, Sound
  <1>1. CASE DeleteDevice(k)
    BY <1>0, <1>1, CallLemma DEF DeleteDevice, At
  <1>2. CASE StoreNew(k)
    BY <1>0, <1>2, CallLemma DEF StoreNew, At, TaskSound
  <1>3. CASE Exchange(k)
    BY <1>0, <1>3, CallLemma DEF Exchange, At
  <1>4. CASE DeleteOwn(k)
    <2>1. Redis(k, Ended(k), {}) /\ task[k].pc = "delete" /\ task[k].kind = "logout"
          /\ UNCHANGED calm
      BY <1>4 DEF DeleteOwn, At
    <2>2. CASE Become(k, Idle)
      BY <1>0, <2>1, <2>2, StopLemma
    <2>3. CASE Become(k, [task[k] EXCEPT !.pc = "select"])
      BY <1>0, <2>1, <2>3, CallLemma
    <2> QED
      BY <1>4, <2>2, <2>3 DEF DeleteOwn
  <1>5. CASE DeleteAll(k)
    BY <1>0, <1>5, CallLemma DEF DeleteAll, At
  <1>6. CASE RequestFails(k)
    BY <1>6, StopLemma DEF RequestFails
  <1> QED
    BY <1>1, <1>2, <1>3, <1>4, <1>5, <1>6

(* A token that Redis drops by itself concerns no request.                 *)
LEMMA ExpireStep ==
    ASSUME IInv, NEW t \in Token, Expire(t)
    PROVE  IInv'
  <1>1. valid' \in [Token -> Device \cup {None}] /\ Begun'
    BY AuditAssumption DEF Expire, IInv, TypeOK, Sound, Begun
  <1> QED
    BY <1>1 DEF Expire, IInv, TypeOK, Sound

-----------------------------------------------------------------------------
LEMMA SelectStep ==
    ASSUME IInv, NEW k \in Slot, SelectRow(k)
    PROVE  IInv'
  <1>0. task[k] \in Task /\ TaskSound(task[k], origin) /\ calm' \in BOOLEAN
        /\ UNCHANGED <<valid, origin, expired, rows>>
    BY DEF SelectRow, IInv, TypeOK, Sound
  <1>1. ASSUME NEW r \in Made, rows[r].hash = task[k].old,
               Become(k, [task[k] EXCEPT !.pc = "update", !.row = r])
        PROVE  IInv'
    <2> DEFINE q == [task[k] EXCEPT !.pc = "update", !.row = r]
    <2>1. q \in Task
      BY <1>0 DEF Task, Made
    <2>2. origin[task[k].old] = r
      BY <1>1 DEF IInv, Sound, RowsSound, Made
    <2>3. TaskSound(q, origin)
      BY <1>0, <2>2 DEF TaskSound, Task
    <2> QED
      BY <1>0, <1>1, <2>1, <2>3, LocalLemma
  <1>2. CASE Become(k, Idle)
    BY <1>0, <1>2, IdleSound, LocalLemma
  <1> QED
    BY <1>1, <1>2 DEF SelectRow

LEMMA UpdateStep ==
    ASSUME IInv, NEW k \in Slot, Update(k)
    PROVE  IInv'
  <1> DEFINE q == [task[k] EXCEPT !.pc = "lock", !.hit = {r \in Token : Matches(k, r)}]
  <1>1. task[k] \in Task /\ TaskSound(task[k], origin) /\ task[k].pc = "update"
        /\ calm' \in BOOLEAN /\ UNCHANGED <<valid, origin, expired, rows>> /\ Become(k, q)
    BY DEF Update, At, IInv, TypeOK, Sound
  <1>2. q \in Task
    BY <1>1 DEF Task
  <1>3. TaskSound(q, origin)
    BY <1>1 DEF TaskSound, Task
  <1> QED
    BY <1>1, <1>2, <1>3, LocalLemma

(* Where a task waits for its locks, its WHERE only matches rows that it   *)
(* may write: a rotation matches the row of its own session.               *)
LEMMA ApplyStep ==
    ASSUME IInv, NEW k \in Slot, Apply(k)
    PROVE  IInv'
  <1> DEFINE row(r) == IF Inserted(k, r)
                       THEN [hash |-> r, dev |-> task[k].dev, revoked |-> FALSE]
                       ELSE IF r \in task[k].hit /\ Matches(k, r) THEN Written(k, rows[r])
                       ELSE None
             mine == [r \in Token |-> row(r)]
             q == [task[k] EXCEPT !.pc = "commit", !.mine = mine]
  <1>1. task[k] \in Task /\ TaskSound(task[k], origin) /\ task[k].pc = "lock"
        /\ calm' \in BOOLEAN /\ UNCHANGED <<valid, origin, expired, rows>> /\ Become(k, q)
    BY DEF Apply, At, IInv, TypeOK, Sound
  <1>2. ASSUME NEW r \in Token
        PROVE  /\ row(r) \in Row \cup {None}
               /\ row(r) # None => origin[row(r).hash] = r
    <2>1. CASE Inserted(k, r)
      BY <1>1, <2>1 DEF Inserted, TaskSound, Row
    <2>2. CASE ~Inserted(k, r) /\ Matches(k, r)
      <3>1. rows[r] \in Row /\ origin[rows[r].hash] = r
        BY <2>2 DEF Matches, IInv, TypeOK, Sound, RowsSound
      <3>2. CASE task[k].kind = "rotate"
        <4>1. Written(k, rows[r]) = [rows[r] EXCEPT !.hash = task[k].new]
          BY <3>2 DEF Written
        <4>2. task[k].new \in Token /\ origin[task[k].new] = r
          BY <1>1, <2>2, <3>2 DEF Matches, TaskSound
        <4>3. Written(k, rows[r]) \in Row /\ Written(k, rows[r]).hash = task[k].new
          BY <3>1, <4>1, <4>2 DEF Row
        <4> QED
          BY <2>2, <4>2, <4>3
      <3>3. CASE task[k].kind # "rotate"
        <4>1. Written(k, rows[r]) = [rows[r] EXCEPT !.revoked = TRUE]
          BY <3>3 DEF Written
        <4>2. Written(k, rows[r]) \in Row /\ Written(k, rows[r]).hash = rows[r].hash
          BY <3>1, <4>1 DEF Row
        <4> QED
          BY <2>2, <3>1, <4>2
      <3> QED
        BY <3>2, <3>3
    <2>3. CASE ~Inserted(k, r) /\ ~Matches(k, r)
      BY <2>3
    <2> QED
      BY <2>1, <2>2, <2>3
  <1>3. mine \in [Token -> Row \cup {None}] /\ RowsSound(mine, origin)
    BY <1>2 DEF RowsSound
  <1>4. q \in Task /\ q.mine = mine
    BY <1>1, <1>3 DEF Task
  <1>5. TaskSound(q, origin)
    BY <1>1, <1>3, <1>4 DEF TaskSound, Task
  <1> QED
    BY <1>1, <1>4, <1>5, LocalLemma

LEMMA CommitStep ==
    ASSUME IInv, NEW k \in Slot, Commit(k)
    PROVE  IInv'
  <1>1. task[k] \in Task /\ TaskSound(task[k], origin) /\ RowsSound(rows, origin)
        /\ task[k].mine \in [Token -> Row \cup {None}] /\ rows \in [Token -> Row \cup {None}]
    BY DEF IInv, TypeOK, Sound, Task
  <1>2. /\ rows' = [r \in Token |-> IF task[k].mine[r] # None THEN task[k].mine[r] ELSE rows[r]]
        /\ UNCHANGED <<valid, origin, expired, calm>> /\ Become(k, Idle)
    BY DEF Commit
  <1>3. rows' \in [Token -> Row \cup {None}]
    BY <1>1, <1>2
  <1>4. RowsSound(rows', origin')
    BY <1>1, <1>2 DEF RowsSound, TaskSound
  <1>5. Extends(origin, origin') /\ Begun'
    BY <1>2 DEF Extends, IInv, Sound, Begun
  <1> QED
    BY <1>2, <1>3, <1>4, <1>5, IdleSound, StepLemma DEF IInv, TypeOK

LEMMA FailStep ==
    ASSUME IInv, NEW k \in Slot, TaskFails(k)
    PROVE  IInv'
    BY IdleSound, LocalLemma DEF TaskFails

(* Every step keeps the invariant: one lemma per action.                   *)
LEMMA Inductive == IInv /\ [Next]_vars => IInv'
  <1> SUFFICES ASSUME IInv, [Next]_vars PROVE IInv'
    OBVIOUS
  <1>1. CASE UNCHANGED vars
    BY <1>1 DEF vars, IInv, TypeOK, Sound, Begun
  <1>2. ASSUME NEW k \in Slot, Request(k) PROVE IInv'
    BY <1>2, LoginStep, RefreshStep, EndStep, CallStep DEF Request
  <1>3. ASSUME NEW k \in Slot,
               SelectRow(k) \/ Update(k) \/ Apply(k) \/ Commit(k) \/ TaskFails(k)
        PROVE  IInv'
    BY <1>3, SelectStep, UpdateStep, ApplyStep, CommitStep, FailStep
  <1> QED
    BY <1>1, <1>2, <1>3, ExpireStep DEF Next

LEMMA Initial == Init => IInv
  <1> SUFFICES ASSUME Init PROVE IInv
    OBVIOUS
  <1>1. Nothing \in [Token -> Row \cup {None}] /\ Nothing \in [Token -> Token \cup {None}]
        /\ Nothing \in [Token -> Device \cup {None}] /\ \A t \in Token : Nothing[t] = None
    BY DEF Nothing
  <1> QED
    BY <1>1, IdleSound DEF Init, IInv, TypeOK, Sound, Begun, RowsSound

LEMMA Invariance == Spec => []IInv
    BY Initial, Inductive, PTL DEF Spec

(* The variables keep their types: tasks write rows only.                  *)
THEOREM TypeCorrect == Spec => []TypeOK
  <1>1. IInv => TypeOK
    BY DEF IInv
  <1> QED
    BY <1>1, Invariance, PTL

(* However tasks interleave and whichever of them fail, a token is in one  *)
(* row of user_sessions at most, that of the login its session began with. *)
THEOREM RowsApart == Spec => []RowsKeepApart
  <1>1. IInv => RowsKeepApart
    <2> SUFFICES ASSUME IInv, NEW r \in Made PROVE
            /\ origin[rows[r].hash] = r
            /\ \A s \in Made : rows[s].hash = rows[r].hash => s = r
      BY DEF RowsKeepApart
    <2> QED
      BY DEF IInv, Sound, RowsSound, Made
  <1> QED
    BY <1>1, Invariance, PTL
-----------------------------------------------------------------------------
(* The log and Redis, as long as calm holds: v are the devices of the      *)
(* tokens in Redis, x0 those that Redis dropped by itself, f the rows.     *)

(* An open row shows token x on its device.                                *)
Shown(x, v, f) == \E r \in Token : f[r] = [hash |-> x, dev |-> v[x], revoked |-> FALSE]

(* No request has ended token x.                                           *)
Open(x, v, x0) == v[x] # None \/ x \in x0

(* The open rows are the tokens that no request has ended.                 *)
Agrees(v, x0, f) ==
    /\ \A x \in Token : v[x] # None => Shown(x, v, f)
    /\ \A r \in Token : f[r] # None /\ ~f[r].revoked => Open(f[r].hash, v, x0)

(* What is left to do for a login until its task has written: only its own *)
(* row and those of its device disagree, once it has deleted their tokens. *)
OwesLogin(q, v, x0, f) ==
    /\ q.new \in Token /\ q.dev \in Device
    /\ f[q.new] = None
    /\ v[q.new] \in {None, q.dev}
    /\ q.pc \in {"delete", "store"} => v[q.new] = None
    /\ q.pc \in {"update", "lock"} => Open(q.new, v, x0)
    /\ \A x \in Token \ {q.new} :
          v[x] # None => Shown(x, v, f) /\ (q.pc # "delete" => v[x] # q.dev)
    /\ \A r \in Token :
          f[r] # None /\ ~f[r].revoked =>
             Open(f[r].hash, v, x0) \/ (q.pc # "delete" /\ f[r].dev = q.dev)

(* A rotation has to put its new token in the row of the old one.          *)
OwesRotation(q, v, x0, f) ==
    /\ q.old \in Token /\ q.new \in Token /\ q.dev \in Device /\ q.old # q.new
    /\ v[q.new] \in {None, q.dev}
    /\ q.pc = "exchange" => v[q.new] = None /\ v[q.old] \in {None, q.dev}
    /\ q.pc # "exchange" => v[q.old] = None /\ Open(q.new, v, x0)
    /\ \E r \in Token : f[r] = [hash |-> q.old, dev |-> q.dev, revoked |-> FALSE]
    /\ \A x \in Token \ {q.new} : v[x] # None => Shown(x, v, f)
    /\ \A r \in Token :
          f[r] # None /\ ~f[r].revoked => Open(f[r].hash, v, x0) \/ f[r].hash = q.old

(* A logout has to close the row of its token, which it may have found     *)
(* already.                                                                *)
OwesLogout(q, v, x0, f) ==
    /\ q.old \in Token
    /\ q.pc # "delete" => v[q.old] = None
    /\ q.pc \in {"update", "lock"} => q.row \in Token /\ f[q.row] # None /\ f[q.row].hash = q.old
    /\ \A x \in Token : v[x] # None => Shown(x, v, f)
    /\ \A r \in Token :
          f[r] # None /\ ~f[r].revoked =>
             Open(f[r].hash, v, x0) \/ (q.pc # "delete" /\ f[r].hash = q.old)

(* A password change has left no token: whatever row is open is to be      *)
(* closed.                                                                 *)
OwesAll(q, v, x0, f) ==
    /\ q.pc = "delete" => Agrees(v, x0, f)
    /\ q.pc # "delete" => \A x \in Token : v[x] = None

(* The rows after the commit of q, and the WHERE of q on the rows f.       *)
After(q, f) == [r \in Token |-> IF q.mine[r] # None THEN q.mine[r] ELSE f[r]]

(* The rows that the UPDATE of q is for.                                   *)
Where(q, f) ==
    {r \in Token : /\ f[r] # None
                   /\ q.kind = "login" => ~f[r].revoked /\ f[r].dev = q.dev
                   /\ q.kind = "rotate" => r = q.row /\ f[r].dev = q.dev
                   /\ q.kind = "logout" => r = q.row
                   /\ q.kind = "revokeAll" => ~f[r].revoked}

Requests == {"delete", "store", "exchange"}

(* A request and its task still have to make up the difference; once the   *)
(* task has written, its commit does.                                      *)
Owes(q, v, x0, f) ==
    /\ q.pc = "store" => q.kind = "login"
    /\ q.pc = "exchange" => q.kind = "rotate"
    /\ q.pc = "delete" => q.kind # "rotate"
    /\ q.pc = "select" => q.kind \in {"rotate", "logout"}
    /\ q.pc \in Requests \cup {"select", "update", "lock"} =>
          /\ q.kind \in {"login", "rotate", "logout", "revokeAll"}
          /\ q.kind = "login" => OwesLogin(q, v, x0, f)
          /\ q.kind = "rotate" => OwesRotation(q, v, x0, f)
          /\ q.kind = "logout" => OwesLogout(q, v, x0, f)
          /\ q.kind = "revokeAll" => OwesAll(q, v, x0, f)
    /\ q.pc = "lock" => q.hit = Where(q, f)
    /\ q.pc = "commit" => Agrees(v, x0, After(q, f))

(* A session begins with a token of its own.                               *)
Rooted == \A t \in Token : origin[t] # None => origin[origin[t]] = origin[t]

(* No two requests or tasks are under way.                                 *)
OneTask == \A j, k \in Slot : ~At(j, "idle") /\ ~At(k, "idle") => j = k

(* While calm, the log differs from Redis by what the one task owes.       *)
CalmSound ==
    calm => /\ OneTask
            /\ Settled => Agrees(valid, expired, rows)
            /\ \A k \in Slot : Owes(task[k], valid, expired, rows)

(* The inductive invariant.                                                *)
CalmInv == IInv /\ Rooted /\ CalmSound

(* The steps of the request side: tokens get an origin that has its own.   *)
LEMMA RootedStep ==
    ASSUME IInv, Rooted, [Next]_vars
    PROVE  Rooted'
  <1>0. origin \in [Token -> Token \cup {None}] /\ Begun /\ \A t \in Token : t # None
    BY AuditAssumption DEF IInv, TypeOK, Sound
  <1>1. ASSUME NEW k \in Slot, NEW t \in Token, NEW d \in Device, Login(k, t, d)
        PROVE  Rooted'
    BY <1>0, <1>1 DEF Login, Rooted
  <1>2. ASSUME NEW k \in Slot, NEW t \in Token, NEW u \in Token, NEW d \in Device,
               Refresh(k, t, u, d)
        PROVE  Rooted'
    BY <1>0, <1>2 DEF Refresh, Rooted, Begun
  <1>3. CASE UNCHANGED origin
    BY <1>3 DEF Rooted
  <1> QED
    BY <1>1, <1>2, <1>3 DEF Next, Request, Logout, ChangePassword, DeleteDevice, StoreNew,
       Exchange, DeleteOwn, DeleteAll, RequestFails, Redis, Expire, SelectRow, Update, Apply,
       Commit, TaskFails, vars

(* What remains to be shown of a step that keeps calm: all tasks but one   *)
(* are idle, and that one owes the rest or nothing.                        *)
LEMMA CalmStep ==
    ASSUME task \in [Slot -> Task], NEW k \in Slot, NEW q, Become(k, q),
           \A j \in Slot \ {k} : At(j, "idle"),
           Owes(q, valid', expired', rows'),
           q.pc = "idle" => Agrees(valid', expired', rows')
    PROVE  CalmSound'
  <1>1. task'[k] = q /\ \A j \in Slot \ {k} : task'[j] = task[j] /\ task[j].pc = "idle"
    BY DEF Become, At
  <1>2. OneTask'
    BY <1>1 DEF OneTask, At
  <1>3. Settled' => Agrees(valid', expired', rows')
    BY <1>1 DEF Settled, At
  <1>4. \A j \in Slot : Owes(task'[j], valid', expired', rows')
    BY <1>1 DEF Owes, Requests
  <1> QED
    BY <1>2, <1>3, <1>4 DEF CalmSound

(* A token without an origin has no row.                                   *)
LEMMA NoRow ==
    ASSUME IInv, Rooted, NEW t \in Token, origin[t] = None
    PROVE  rows[t] = None /\ valid[t] = None
  <1>1. t # None /\ None \notin Token
    BY AuditAssumption
  <1> QED
    BY <1>1 DEF IInv, TypeOK, Sound, RowsSound, Begun, Rooted, Row

(* A login of a calm log has no row yet.                                   *)
LEMMA LoginCalm ==
    ASSUME CalmInv, NEW k \in Slot, NEW t \in Token, NEW d \in Device, Login(k, t, d), calm'
    PROVE  CalmSound'
  <1> DEFINE q == [Idle EXCEPT !.kind = "login", !.pc = "delete", !.old = None,
                               !.new = t, !.dev = d]
  <1>1. /\ Agrees(valid, expired, rows) /\ Settled /\ Become(k, q)
        /\ UNCHANGED <<valid, expired, rows>>
        /\ task \in [Slot -> Task] /\ rows[t] = None /\ valid[t] = None
    BY NoRow DEF Login, Begin, CalmInv, CalmSound, IInv, TypeOK
  <1>2. q.kind = "login" /\ q.pc = "delete" /\ q.new = t /\ q.dev = d
    BY DEF Idle
  <1>3. Owes(q, valid', expired', rows')
    <2>1. OwesLogin(q, valid', expired', rows')
      BY <1>1, <1>2 DEF OwesLogin, Agrees
    <2> QED
      BY <1>2, <2>1 DEF Owes
  <1> QED
    BY <1>1, <1>2, <1>3, CalmStep DEF Settled

(* A refresh of a calm log comes from the device of its row.               *)
LEMMA RefreshCalm ==
    ASSUME CalmInv, NEW k \in Slot, NEW t \in Token, NEW u \in Token, NEW d \in Device,
           Refresh(k, t, u, d), calm'
    PROVE  CalmSound'
  <1> DEFINE q == [Idle EXCEPT !.kind = "rotate", !.pc = "exchange", !.old = t,
                               !.new = u, !.dev = d]
  <1>1. /\ Agrees(valid, expired, rows) /\ Settled /\ Become(k, q)
        /\ UNCHANGED <<valid, expired, rows>>
        /\ task \in [Slot -> Task] /\ valid[u] = None
        /\ valid[t] = d /\ valid[t] # None /\ t # u
    BY NoRow DEF Refresh, Begin, CalmInv, CalmSound, IInv, TypeOK
  <1>2. q.kind = "rotate" /\ q.pc = "exchange" /\ q.old = t /\ q.new = u /\ q.dev = d
    BY DEF Idle
  <1>3. \E r \in Token : rows[r] = [hash |-> t, dev |-> d, revoked |-> FALSE]
    BY <1>1 DEF Agrees, Shown
  <1>4. Owes(q, valid', expired', rows')
    <2>1. OwesRotation(q, valid', expired', rows')
      BY <1>1, <1>2, <1>3 DEF OwesRotation, Agrees
    <2> QED
      BY <1>2, <2>1 DEF Owes
  <1> QED
    BY <1>1, <1>2, <1>4, CalmStep DEF Settled

(* A logout or a password change of a calm log has ended nothing yet.      *)
LEMMA EndCalm ==
    ASSUME CalmInv, NEW k \in Slot, (\E t \in Token : Logout(k, t)) \/ ChangePassword(k), calm'
    PROVE  CalmSound'
  <1>0. /\ Agrees(valid, expired, rows) /\ Settled /\ task \in [Slot -> Task]
        /\ UNCHANGED <<valid, expired, rows>>
    BY DEF Logout, ChangePassword, Begin, CalmInv, CalmSound, IInv, TypeOK
  <1>1. ASSUME NEW t \in Token, Logout(k, t) PROVE CalmSound'
    <2> DEFINE q == [Idle EXCEPT !.kind = "logout", !.pc = "delete", !.old = t,
                                 !.new = None, !.dev = None]
    <2>1. Become(k, q)
      BY <1>1 DEF Logout, Begin
    <2>2. q.kind = "logout" /\ q.pc = "delete" /\ q.old = t
      BY DEF Idle
    <2>3. OwesLogout(q, valid', expired', rows')
      BY <1>0, <2>2 DEF OwesLogout, Agrees
    <2> QED
      BY <1>0, <2>1, <2>2, <2>3, CalmStep DEF Owes, Settled
  <1>2. ASSUME ChangePassword(k) PROVE CalmSound'
    <2> DEFINE q == [Idle EXCEPT !.kind = "revokeAll", !.pc = "delete", !.old = None,
                                 !.new = None, !.dev = None]
    <2>1. Become(k, q)
      BY <1>2 DEF ChangePassword, Begin
    <2>2. q.kind = "revokeAll" /\ q.pc = "delete"
      BY DEF Idle
    <2>3. OwesAll(q, valid', expired', rows')
      BY <1>0, <2>2 DEF OwesAll
    <2> QED
      BY <1>0, <2>1, <2>2, <2>3, CalmStep DEF Owes, Settled
  <1> QED
    BY <1>1, <1>2

-----------------------------------------------------------------------------
(* A request or task that is alone, and the state that its step leaves.    *)
LEMMA AloneLemma ==
    ASSUME CalmInv, calm, NEW k \in Slot, ~At(k, "idle")
    PROVE  /\ \A j \in Slot \ {k} : At(j, "idle")
           /\ Owes(task[k], valid, expired, rows)
           /\ task \in [Slot -> Task] /\ task[k] \in Task
           /\ TaskSound(task[k], origin)
  BY DEF CalmInv, CalmSound, OneTask, IInv, TypeOK, Sound

(* The request goes on, and owes what is left.                             *)
LEMMA CallCalm ==
    ASSUME CalmInv, calm, NEW k \in Slot, ~At(k, "idle"),
           NEW pc \in {"store", "select", "update"}, Become(k, [task[k] EXCEPT !.pc = pc]),
           pc = "store" => task[k].kind = "login",
           pc = "select" => task[k].kind \in {"rotate", "logout"},
           task[k].kind \in {"login", "rotate", "logout", "revokeAll"},
           NEW q, q = [task[k] EXCEPT !.pc = pc],
           task[k].kind = "login" => OwesLogin(q, valid', expired', rows'),
           task[k].kind = "rotate" => OwesRotation(q, valid', expired', rows'),
           task[k].kind = "logout" => OwesLogout(q, valid', expired', rows'),
           task[k].kind = "revokeAll" => OwesAll(q, valid', expired', rows')
    PROVE  CalmSound'
  <1>1. \A j \in Slot \ {k} : At(j, "idle")
    BY AloneLemma
  <1>2. task \in [Slot -> Task] /\ task[k] \in Task
    BY AloneLemma
  <1>3. q.pc = pc /\ q.kind = task[k].kind /\ Become(k, q)
    BY <1>2 DEF Task
  <1>4. Owes(q, valid', expired', rows')
    BY <1>3 DEF Owes
  <1> QED
    BY <1>1, <1>2, <1>3, <1>4, CalmStep

(* The fields of a request that goes on.                                   *)
LEMMA CallFields ==
    ASSUME NEW r \in Task, NEW pc, NEW q, q = [r EXCEPT !.pc = pc]
    PROVE  /\ q.pc = pc /\ q.kind = r.kind /\ q.old = r.old /\ q.new = r.new
           /\ q.dev = r.dev /\ q.row = r.row
  BY DEF Task

(* A login ends the other sessions of its device in Redis, and owes as     *)
(* much to the log.                                                        *)
LEMMA DeleteDeviceCalm ==
    ASSUME CalmInv, NEW k \in Slot, DeleteDevice(k), calm'
    PROVE  CalmSound'
  <1> DEFINE t == task[k].new
             d == task[k].dev
  <1>1. /\ calm /\ ~At(k, "idle") /\ task[k].pc = "delete" /\ task[k].kind = "login"
        /\ Become(k, [task[k] EXCEPT !.pc = "store"]) /\ UNCHANGED <<expired, rows>>
        /\ valid' = [x \in Token |-> IF valid[x] = d THEN None ELSE valid[x]]
    BY DEF DeleteDevice, Redis, Ended, At
  <1>2. OwesLogin(task[k], valid, expired, rows) /\ task[k] \in Task
    BY <1>1, AloneLemma DEF Owes, Requests
  <1>3. PICK q : q = [task[k] EXCEPT !.pc = "store"]
    OBVIOUS
  <1>4. q.pc = "store" /\ q.new = t /\ q.dev = d
    BY <1>2, <1>3, CallFields
  <1>5. t \in Token /\ d \in Device /\ d # None /\ rows[t] = None /\ valid[t] = None
    BY <1>1, <1>2, AuditAssumption DEF OwesLogin
  <1>6. ASSUME NEW x \in Token \ {t}, valid'[x] # None
        PROVE  valid'[x] # d /\ Shown(x, valid', rows)
    <2>1. valid'[x] = valid[x] /\ valid[x] # d
      BY <1>1, <1>6
    <2> QED
      BY <1>2, <1>6, <2>1 DEF OwesLogin, Shown
  <1>7. ASSUME NEW r \in Token, rows[r] # None, ~rows[r].revoked
        PROVE  Open(rows[r].hash, valid', expired) \/ rows[r].dev = d
    <2> DEFINE y == rows[r].hash
    <2>1. y \in Token /\ Open(y, valid, expired)
      BY <1>1, <1>2, <1>7 DEF OwesLogin, CalmInv, IInv, TypeOK, Row
    <2>2. CASE valid[y] # d
      BY <1>1, <2>1, <2>2 DEF Open
    <2>3. CASE valid[y] = d
      <3>1. y # t /\ valid[y] # None
        BY <1>5, <2>3
      <3>2. Shown(y, valid, rows)
        BY <1>2, <2>1, <3>1 DEF OwesLogin
      <3> PICK s \in Token : rows[s] = [hash |-> y, dev |-> valid[y], revoked |-> FALSE]
        BY <3>2 DEF Shown
      <3>3. rows[s] # None
        <4>1. [hash |-> y, dev |-> valid[y], revoked |-> FALSE] \in Row
          BY <1>5, <2>1, <2>3 DEF Row
        <4> QED
          BY <4>1, AuditAssumption
      <3>4. s = r
        <4>1. origin[rows[s].hash] = s /\ origin[rows[r].hash] = r
          BY <1>7, <3>3 DEF CalmInv, IInv, Sound, RowsSound
        <4>2. rows[s].hash = rows[r].hash
          OBVIOUS
        <4> QED
          BY <4>1, <4>2
      <3>5. rows[s].dev = d
        BY <2>3
      <3> QED
        BY <3>4, <3>5
    <2> QED
      BY <2>2, <2>3
  <1>8. valid'[t] = None
    BY <1>1, <1>5
  <1>9. OwesLogin(q, valid', expired', rows')
    BY <1>1, <1>4, <1>5, <1>6, <1>7, <1>8 DEF OwesLogin
  <1> QED
    BY <1>1, <1>3, <1>9, CallCalm

(* The token that a login stores is the one that its row will show.        *)
LEMMA StoreCalm ==
    ASSUME CalmInv, NEW k \in Slot, StoreNew(k), calm'
    PROVE  CalmSound'
  <1> DEFINE t == task[k].new
             d == task[k].dev
  <1>1. /\ calm /\ ~At(k, "idle") /\ task[k].pc = "store"
        /\ Become(k, [task[k] EXCEPT !.pc = "update"]) /\ UNCHANGED <<expired, rows>>
        /\ valid' = [x \in Token |-> IF x = t THEN d ELSE valid[x]]
    BY DEF StoreNew, Redis, Stored, At
  <1>2. OwesLogin(task[k], valid, expired, rows) /\ task[k] \in Task /\ task[k].kind = "login"
    BY <1>1, AloneLemma DEF Owes, Requests
  <1>3. PICK q : q = [task[k] EXCEPT !.pc = "update"]
    OBVIOUS
  <1>4. q.pc = "update" /\ q.new = t /\ q.dev = d
    BY <1>2, <1>3, CallFields
  <1>5. t \in Token /\ d \in Device /\ d # None /\ rows[t] = None /\ valid'[t] = d
    BY <1>1, <1>2, AuditAssumption DEF OwesLogin
  <1>6. ASSUME NEW x \in Token \ {t}, valid'[x] # None
        PROVE  valid'[x] # d /\ Shown(x, valid', rows)
    <2>1. valid'[x] = valid[x]
      BY <1>1, <1>6
    <2> QED
      BY <1>1, <1>2, <1>6, <2>1 DEF OwesLogin, Shown
  <1>7. ASSUME NEW r \in Token, rows[r] # None, ~rows[r].revoked
        PROVE  Open(rows[r].hash, valid', expired) \/ rows[r].dev = d
    <2>1. rows[r].hash \in Token
      BY <1>7 DEF CalmInv, IInv, TypeOK, Row
    <2> QED
      BY <1>1, <1>2, <1>5, <1>7, <2>1 DEF OwesLogin, Open
  <1>8. OwesLogin(q, valid', expired', rows')
    BY <1>1, <1>4, <1>5, <1>6, <1>7 DEF OwesLogin, Open
  <1> QED
    BY <1>1, <1>2, <1>3, <1>8, CallCalm

(* A rotation puts its new token in the place of the old one, whether that *)
(* is there still or has run out.                                          *)
LEMMA ExchangeCalm ==
    ASSUME CalmInv, NEW k \in Slot, Exchange(k), calm'
    PROVE  CalmSound'
  <1> DEFINE t == task[k].old
             u == task[k].new
             d == task[k].dev
  <1>1. /\ calm /\ ~At(k, "idle") /\ task[k].pc = "exchange"
        /\ Become(k, [task[k] EXCEPT !.pc = "select"]) /\ UNCHANGED <<expired, rows>>
        /\ valid' = [x \in Token |-> IF x = u THEN d ELSE IF x = t THEN None ELSE valid[x]]
    BY DEF Exchange, Redis, Ended, Stored, At
  <1>2. OwesRotation(task[k], valid, expired, rows) /\ task[k] \in Task
        /\ task[k].kind = "rotate"
    BY <1>1, AloneLemma DEF Owes, Requests
  <1>3. PICK q : q = [task[k] EXCEPT !.pc = "select"]
    OBVIOUS
  <1>4. q.pc = "select" /\ q.old = t /\ q.new = u /\ q.dev = d
    BY <1>2, <1>3, CallFields
  <1>5. /\ t \in Token /\ u \in Token /\ d \in Device /\ d # None /\ t # u
        /\ valid'[u] = d /\ valid'[t] = None
        /\ \E r \in Token : rows[r] = [hash |-> t, dev |-> d, revoked |-> FALSE]
    BY <1>1, <1>2, AuditAssumption DEF OwesRotation
  <1>6. ASSUME NEW x \in Token \ {u}, valid'[x] # None
        PROVE  Shown(x, valid', rows)
    <2>1. valid'[x] = valid[x]
      BY <1>1, <1>6
    <2> QED
      BY <1>2, <1>6, <2>1 DEF OwesRotation, Shown
  <1>7. ASSUME NEW r \in Token, rows[r] # None, ~rows[r].revoked
        PROVE  Open(rows[r].hash, valid', expired) \/ rows[r].hash = t
    <2>1. rows[r].hash \in Token
      BY <1>7 DEF CalmInv, IInv, TypeOK, Row
    <2> QED
      BY <1>1, <1>2, <1>5, <1>7, <2>1 DEF OwesRotation, Open
  <1>8. OwesRotation(q, valid', expired', rows')
    BY <1>1, <1>4, <1>5, <1>6, <1>7 DEF OwesRotation, Open
  <1> QED
    BY <1>1, <1>2, <1>3, <1>8, CallCalm

(* A logout ends its token and owes its row, or finds nothing to end.      *)
LEMMA DeleteOwnCalm ==
    ASSUME CalmInv, NEW k \in Slot, DeleteOwn(k), calm'
    PROVE  CalmSound'
  <1> DEFINE t == task[k].old
  <1>1. /\ calm /\ ~At(k, "idle") /\ task[k].pc = "delete" /\ task[k].kind = "logout"
        /\ UNCHANGED <<expired, rows>>
        /\ valid' = [x \in Token |-> IF x = t THEN None ELSE valid[x]]
    BY DEF DeleteOwn, Redis, Ended, At
  <1>2. /\ OwesLogout(task[k], valid, expired, rows)
        /\ task \in [Slot -> Task] /\ task[k] \in Task
        /\ \A j \in Slot \ {k} : At(j, "idle")
    BY <1>1, AloneLemma DEF Owes, Requests
  <1>3. ASSUME NEW x \in Token, valid'[x] # None PROVE Shown(x, valid', rows)
    <2>1. valid'[x] = valid[x]
      BY <1>1, <1>3
    <2> QED
      BY <1>2, <1>3, <2>1 DEF OwesLogout, Shown
  <1>4. ASSUME NEW r \in Token, rows[r] # None, ~rows[r].revoked
        PROVE  /\ Open(rows[r].hash, valid, expired)
               /\ Open(rows[r].hash, valid', expired) \/ rows[r].hash = t
    <2>1. rows[r].hash \in Token
      BY <1>4 DEF CalmInv, IInv, TypeOK, Row
    <2> QED
      BY <1>1, <1>2, <1>4, <2>1 DEF OwesLogout, Open
  <1>5. CASE valid[t] = None
    <2>1. Become(k, Idle)
      BY <1>5 DEF DeleteOwn
    <2>2. \A x \in Token : valid'[x] = valid[x]
      BY <1>1, <1>5
    <2>3. Agrees(valid', expired', rows')
      <3>1. ASSUME NEW r \in Token, rows[r] # None, ~rows[r].revoked
            PROVE  Open(rows[r].hash, valid', expired')
        <4>1. rows[r].hash \in Token
          BY <3>1 DEF CalmInv, IInv, TypeOK, Row
        <4> QED
          BY <1>1, <1>4, <2>2, <3>1, <4>1 DEF Open
      <3> QED
        BY <1>1, <1>3, <3>1 DEF Agrees
    <2>4. Idle.pc = "idle" /\ Owes(Idle, valid', expired', rows')
      BY DEF Idle, Owes, Requests
    <2> QED
      BY <1>2, <2>1, <2>3, <2>4, CalmStep
  <1>6. CASE valid[t] # None
    <2>1. PICK q : q = [task[k] EXCEPT !.pc = "select"]
      OBVIOUS
    <2>2. q.pc = "select" /\ q.old = t
      BY <1>2, <2>1, CallFields
    <2>3. Become(k, [task[k] EXCEPT !.pc = "select"])
      BY <1>6 DEF DeleteOwn
    <2>4. t \in Token /\ valid'[t] = None
      BY <1>1, <1>2 DEF OwesLogout
    <2>5. OwesLogout(q, valid', expired', rows')
      BY <1>1, <1>3, <1>4, <2>2, <2>4 DEF OwesLogout
    <2> QED
      BY <1>1, <2>1, <2>3, <2>5, CallCalm
  <1> QED
    BY <1>5, <1>6

(* A password change ends all tokens and owes all rows.                    *)
LEMMA DeleteAllCalm ==
    ASSUME CalmInv, NEW k \in Slot, DeleteAll(k), calm'
    PROVE  CalmSound'
  <1>1. /\ calm /\ ~At(k, "idle") /\ task[k].kind = "revokeAll"
        /\ Become(k, [task[k] EXCEPT !.pc = "update"])
        /\ \A x \in Token : valid'[x] = None
    BY DEF DeleteAll, Redis, Ended, At
  <1>2. task[k] \in Task
    BY <1>1, AloneLemma
  <1>3. PICK q : q = [task[k] EXCEPT !.pc = "update"]
    OBVIOUS
  <1>4. q.pc = "update"
    BY <1>2, <1>3, CallFields
  <1>5. OwesAll(q, valid', expired', rows')
    BY <1>1, <1>4 DEF OwesAll
  <1> QED
    BY <1>1, <1>3, <1>5, CallCalm

(* A token that Redis drops by itself leaves its row open.                 *)
Faded(v, x0, w, y0) ==
    \A x \in Token : /\ w[x] \in {None, v[x]}
                     /\ Open(x, v, x0) => Open(x, w, y0)

LEMMA AgreesFaded ==
    ASSUME NEW v, NEW x0, NEW w, NEW y0, Faded(v, x0, w, y0),
           NEW f \in [Token -> Row \cup {None}], Agrees(v, x0, f)
    PROVE  Agrees(w, y0, f)
  <1>1. \A r \in Token : f[r] # None => f[r].hash \in Token
    BY DEF Row
  <1> QED
    BY <1>1 DEF Agrees, Faded, Shown

LEMMA OwesFaded ==
    ASSUME NEW v, NEW x0, NEW w, NEW y0, Faded(v, x0, w, y0),
           NEW f \in [Token -> Row \cup {None}], NEW q \in Task, Owes(q, v, x0, f)
    PROVE  Owes(q, w, y0, f)
  <1>1. /\ \A x \in Token : Shown(x, v, f) /\ w[x] # None => Shown(x, w, f)
        /\ \A x \in Token : w[x] # None => v[x] # None
    BY DEF Faded, Shown
  <1>2. \A r \in Token :
           f[r] # None => f[r].hash \in Token
                          /\ (Open(f[r].hash, v, x0) => Open(f[r].hash, w, y0))
    BY DEF Row, Faded
  <1>3. OwesLogin(q, v, x0, f) => OwesLogin(q, w, y0, f)
    BY <1>1, <1>2 DEF OwesLogin, Faded
  <1>4. OwesRotation(q, v, x0, f) => OwesRotation(q, w, y0, f)
    BY <1>1, <1>2 DEF OwesRotation, Faded
  <1>5. OwesLogout(q, v, x0, f) => OwesLogout(q, w, y0, f)
    BY <1>1, <1>2 DEF OwesLogout, Faded
  <1>6. OwesAll(q, v, x0, f) => OwesAll(q, w, y0, f)
    BY <1>1, AgreesFaded DEF OwesAll
  <1>7. Agrees(v, x0, After(q, f)) => Agrees(w, y0, After(q, f))
    <2>1. After(q, f) \in [Token -> Row \cup {None}]
      BY DEF After, Task
    <2> QED
      BY <2>1, AgreesFaded
  <1> QED
    BY <1>3, <1>4, <1>5, <1>6, <1>7 DEF Owes

LEMMA ExpireCalm ==
    ASSUME CalmInv, NEW t \in Token, Expire(t), calm'
    PROVE  CalmSound'
  <1>1. /\ calm /\ UNCHANGED <<rows, task>> /\ valid \in [Token -> Device \cup {None}]
        /\ valid' = [valid EXCEPT ![t] = None] /\ expired' = expired \cup {t}
        /\ rows \in [Token -> Row \cup {None}]
    BY DEF Expire, CalmInv, IInv, TypeOK
  <1>2. Faded(valid, expired, valid', expired')
    BY <1>1 DEF Faded, Open
  <1>3. OneTask' /\ (Settled' => Settled)
    BY <1>1 DEF CalmInv, CalmSound, OneTask, Settled, At
  <1>4. Settled' => Agrees(valid', expired', rows')
    BY <1>1, <1>2, <1>3, AgreesFaded DEF CalmInv, CalmSound
  <1>5. \A k \in Slot : Owes(task'[k], valid', expired', rows')
    BY <1>1, <1>2, OwesFaded DEF CalmInv, CalmSound, IInv, TypeOK
  <1> QED
    BY <1>3, <1>4, <1>5 DEF CalmSound

(* The SELECT finds the row of the token, or there is nothing to do.       *)
LEMMA SelectCalm ==
    ASSUME CalmInv, NEW k \in Slot, SelectRow(k), calm'
    PROVE  CalmSound'
  <1>1. calm /\ ~At(k, "idle") /\ task[k].pc = "select" /\ UNCHANGED <<valid, expired, rows>>
    BY DEF SelectRow, At
  <1>2. /\ \A j \in Slot \ {k} : At(j, "idle")
        /\ Owes(task[k], valid, expired, rows)
        /\ task \in [Slot -> Task] /\ task[k] \in Task
    BY <1>1, AloneLemma
  <1>3. ASSUME NEW r \in Made, rows[r].hash = task[k].old,
               Become(k, [task[k] EXCEPT !.pc = "update", !.row = r])
        PROVE  CalmSound'
    <2> DEFINE q == [task[k] EXCEPT !.pc = "update", !.row = r]
    <2>1. /\ q.kind = task[k].kind /\ q.old = task[k].old /\ q.new = task[k].new
          /\ q.dev = task[k].dev /\ q.pc = "update" /\ q.row = r
      BY <1>2 DEF Task
    <2> HIDE DEF q
    <2>2. OwesRotation(task[k], valid, expired, rows) => OwesRotation(q, valid, expired, rows)
      BY <1>1, <2>1 DEF OwesRotation
    <2>3. OwesLogout(task[k], valid, expired, rows) => OwesLogout(q, valid, expired, rows)
      BY <1>1, <1>3, <2>1 DEF OwesLogout, Made
    <2>4. Owes(q, valid, expired, rows)
      BY <1>1, <1>2, <2>1, <2>2, <2>3 DEF Owes, Requests
    <2> QED
      BY <1>1, <1>2, <1>3, <2>1, <2>4, CalmStep DEF q
  <1>4. CASE (\A r \in Made : rows[r].hash # task[k].old) /\ Become(k, Idle)
    <2>1. Idle.pc = "idle" /\ Owes(Idle, valid, expired, rows)
      BY DEF Idle, Owes, Requests
    <2>2. task[k].kind = "logout" /\ OwesLogout(task[k], valid, expired, rows)
      <3>1. ASSUME OwesRotation(task[k], valid, expired, rows) PROVE FALSE
        <4> PICK r \in Token : rows[r] = [hash |-> task[k].old, dev |-> task[k].dev,
                                          revoked |-> FALSE]
          BY <3>1 DEF OwesRotation
        <4>1. [hash |-> task[k].old, dev |-> task[k].dev, revoked |-> FALSE] \in Row
          BY <3>1 DEF OwesRotation, Row
        <4>2. r \in Made
          BY <4>1, AuditAssumption DEF Made
        <4> QED
          BY <1>4, <4>2
      <3> QED
        BY <1>1, <1>2, <3>1 DEF Owes
    <2>3. Agrees(valid, expired, rows)
      BY <1>4, <2>2 DEF OwesLogout, Agrees, Made
    <2> QED
      BY <1>1, <1>2, <1>4, <2>1, <2>3, CalmStep
  <1> QED
    BY <1>3, <1>4 DEF SelectRow

(* The WHERE of the module is the one of the invariant.                    *)
LEMMA WhereLemma ==
    ASSUME NEW k \in Slot, task[k].kind \in {"login", "rotate", "logout", "revokeAll"}
    PROVE  \A r \in Token : Matches(k, r) <=> r \in Where(task[k], rows)
  <1> SUFFICES ASSUME NEW r \in Token PROVE Matches(k, r) <=> r \in Where(task[k], rows)
    OBVIOUS
  <1>1. CASE task[k].kind = "login"
    BY <1>1 DEF Matches, Where
  <1>2. CASE task[k].kind = "rotate"
    BY <1>2 DEF Matches, Where
  <1>3. CASE task[k].kind = "logout"
    BY <1>3 DEF Matches, Where
  <1>4. CASE task[k].kind = "revokeAll"
    BY <1>4 DEF Matches, Where
  <1> QED
    BY <1>1, <1>2, <1>3, <1>4

(* The UPDATE takes the rows of its WHERE; nobody else writes until it     *)
(* has them.                                                               *)
LEMMA UpdateCalm ==
    ASSUME CalmInv, NEW k \in Slot, Update(k), calm'
    PROVE  CalmSound'
  <1> DEFINE hit == {r \in Token : Matches(k, r)}
             q == [task[k] EXCEPT !.pc = "lock", !.hit = hit]
  <1>1. /\ calm /\ ~At(k, "idle") /\ task[k].pc = "update" /\ UNCHANGED <<valid, expired, rows>>
        /\ Become(k, q)
    BY DEF Update, At
  <1>2. /\ \A j \in Slot \ {k} : At(j, "idle")
        /\ Owes(task[k], valid, expired, rows)
        /\ task \in [Slot -> Task] /\ task[k] \in Task
    BY <1>1, AloneLemma
  <1>3. /\ q.kind = task[k].kind /\ q.old = task[k].old /\ q.new = task[k].new
        /\ q.dev = task[k].dev /\ q.pc = "lock" /\ q.row = task[k].row /\ q.hit = hit
    BY <1>2 DEF Task
  <1>4. hit = Where(task[k], rows)
    <2>1. \A r \in Token : Matches(k, r) <=> r \in Where(task[k], rows)
      BY <1>1, <1>2, WhereLemma DEF Owes
    <2>2. Where(task[k], rows) \subseteq Token
      BY DEF Where
    <2> QED
      BY <2>1, <2>2
  <1> HIDE DEF hit, q
  <1>5. Where(q, rows) = Where(task[k], rows)
    BY <1>3 DEF Where
  <1>6. Owes(q, valid, expired, rows)
    <2>1. OwesLogin(task[k], valid, expired, rows) => OwesLogin(q, valid, expired, rows)
      BY <1>1, <1>3 DEF OwesLogin
    <2>2. OwesRotation(task[k], valid, expired, rows) => OwesRotation(q, valid, expired, rows)
      BY <1>1, <1>3 DEF OwesRotation
    <2>3. OwesLogout(task[k], valid, expired, rows) => OwesLogout(q, valid, expired, rows)
      BY <1>1, <1>3 DEF OwesLogout
    <2>4. OwesAll(task[k], valid, expired, rows) => OwesAll(q, valid, expired, rows)
      BY <1>1, <1>3 DEF OwesAll
    <2>5. q.hit = Where(q, rows)
      BY <1>3, <1>4, <1>5
    <2> QED
      BY <1>1, <1>2, <1>3, <2>1, <2>2, <2>3, <2>4, <2>5 DEF Owes, Requests
  <1> QED
    BY <1>1, <1>2, <1>3, <1>6, CalmStep

(* The rows that a commit will leave when a task has written: those of its *)
(* WHERE are changed, a login adds its own.                                *)
LEMMA AfterApply ==
    ASSUME CalmInv, calm, NEW k \in Slot, task[k].pc = "lock", NEW q,
           q.mine = [r \in Token |->
                        IF Inserted(k, r)
                        THEN [hash |-> r, dev |-> task[k].dev, revoked |-> FALSE]
                        ELSE IF r \in task[k].hit /\ Matches(k, r) THEN Written(k, rows[r])
                        ELSE None]
    PROVE  \A r \in Token :
              After(q, rows)[r] =
                 IF Inserted(k, r)
                 THEN [hash |-> r, dev |-> task[k].dev, revoked |-> FALSE]
                 ELSE IF r \in Where(task[k], rows) THEN Written(k, rows[r]) ELSE rows[r]
  <1>1. Owes(task[k], valid, expired, rows) /\ task[k] \in Task /\ TaskSound(task[k], origin)
    BY AloneLemma DEF At
  <1>2. task[k].hit = Where(task[k], rows)
        /\ \A r \in Token : Matches(k, r) <=> r \in Where(task[k], rows)
    BY <1>1, WhereLemma DEF Owes
  <1> SUFFICES ASSUME NEW r \in Token
               PROVE  After(q, rows)[r] =
                         IF Inserted(k, r)
                         THEN [hash |-> r, dev |-> task[k].dev, revoked |-> FALSE]
                         ELSE IF r \in Where(task[k], rows) THEN Written(k, rows[r]) ELSE rows[r]
    OBVIOUS
  <1>3. CASE Inserted(k, r)
    <2>1. [hash |-> r, dev |-> task[k].dev, revoked |-> FALSE] \in Row
      BY <1>1, <1>3 DEF Inserted, TaskSound, Row
    <2> QED
      BY <1>3, <2>1, AuditAssumption DEF After
  <1>4. CASE ~Inserted(k, r) /\ r \in Where(task[k], rows)
    <2>1. rows[r] \in Row
      BY <1>4 DEF Where, CalmInv, IInv, TypeOK
    <2>2. Written(k, rows[r]) \in Row
      <3>1. CASE task[k].kind = "rotate"
        BY <1>1, <2>1, <3>1 DEF Written, Row, TaskSound
      <3>2. CASE task[k].kind # "rotate"
        BY <2>1, <3>2 DEF Written, Row
      <3> QED
        BY <3>1, <3>2
    <2> QED
      BY <1>2, <1>4, <2>2, AuditAssumption DEF After
  <1>5. CASE ~Inserted(k, r) /\ r \notin Where(task[k], rows)
    BY <1>2, <1>5 DEF After
  <1> QED
    BY <1>3, <1>4, <1>5

(* What a rotation writes to an open row.                                  *)
LEMMA RowRotated ==
    ASSUME NEW row \in Row, NEW u \in Token
    PROVE  [row EXCEPT !.hash = u] = [hash |-> u, dev |-> row.dev, revoked |-> row.revoked]
  BY DEF Row

(* What the task writes is all that it owed.                               *)
LEMMA ApplyCalm ==
    ASSUME CalmInv, NEW k \in Slot, Apply(k), calm'
    PROVE  CalmSound'
  <1> DEFINE mine == [r \in Token |->
                        IF Inserted(k, r)
                        THEN [hash |-> r, dev |-> task[k].dev, revoked |-> FALSE]
                        ELSE IF r \in task[k].hit /\ Matches(k, r) THEN Written(k, rows[r])
                        ELSE None]
             q == [task[k] EXCEPT !.pc = "commit", !.mine = mine]
             W == Where(task[k], rows)
             f == After(q, rows)
  <1>1. /\ calm /\ ~At(k, "idle") /\ task[k].pc = "lock" /\ UNCHANGED <<valid, expired, rows>>
        /\ Become(k, q)
    BY DEF Apply, At
  <1>2. /\ \A j \in Slot \ {k} : At(j, "idle")
        /\ Owes(task[k], valid, expired, rows)
        /\ task \in [Slot -> Task] /\ task[k] \in Task
        /\ TaskSound(task[k], origin)
    BY <1>1, AloneLemma
  <1>3. q.pc = "commit" /\ q.mine = mine
    BY <1>2 DEF Task
  <1>4. \A r \in Token :
           f[r] = IF Inserted(k, r)
                  THEN [hash |-> r, dev |-> task[k].dev, revoked |-> FALSE]
                  ELSE IF r \in W THEN Written(k, rows[r]) ELSE rows[r]
    BY <1>1, <1>3, AfterApply
  <1>5. /\ valid \in [Token -> Device \cup {None}]
        /\ \A r \in Token : rows[r] # None =>
              /\ rows[r] \in Row /\ rows[r].hash \in Token /\ rows[r].revoked \in BOOLEAN
              /\ origin[rows[r].hash] = r
        /\ \A x \in Token, d \in Device : [hash |-> x, dev |-> d, revoked |-> FALSE] # None
    <2>1. \A x \in Token, d \in Device : [hash |-> x, dev |-> d, revoked |-> FALSE] \in Row
      BY DEF Row
    <2>2. \A x \in Token, d \in Device : [hash |-> x, dev |-> d, revoked |-> FALSE] # None
      BY <2>1, AuditAssumption
    <2>3. \A r \in Token : rows[r] # None => rows[r] \in Row /\ origin[rows[r].hash] = r
      BY DEF CalmInv, IInv, TypeOK, Sound, RowsSound
    <2> QED
      BY <2>2, <2>3 DEF CalmInv, IInv, TypeOK, Row
  <1> HIDE DEF mine, q, f
  <1>6. Agrees(valid, expired, f)
    <2>1. CASE task[k].kind = "login"
      <3> DEFINE t == task[k].new
                 d == task[k].dev
      <3>1. OwesLogin(task[k], valid, expired, rows)
        BY <1>1, <1>2, <2>1 DEF Owes
      <3>2. /\ t \in Token /\ d \in Device /\ valid[t] \in {None, d} /\ Open(t, valid, expired)
            /\ f[t] = [hash |-> t, dev |-> d, revoked |-> FALSE]
            /\ \A r \in Token \ {t} : f[r] = IF r \in W THEN [rows[r] EXCEPT !.revoked = TRUE]
                                             ELSE rows[r]
        BY <1>1, <1>4, <2>1, <3>1 DEF Inserted, Written, OwesLogin
      <3>3. \A r \in Token : r \in W <=> rows[r] # None /\ ~rows[r].revoked /\ rows[r].dev = d
        BY <2>1 DEF Where
      <3>4. ASSUME NEW x \in Token, valid[x] # None PROVE Shown(x, valid, f)
        <4>1. CASE x = t
          BY <3>2, <3>4, <4>1 DEF Shown
        <4>2. CASE x # t
          <5>1. valid[x] # d /\ Shown(x, valid, rows)
            BY <1>1, <3>1, <3>4, <4>2 DEF OwesLogin
          <5> PICK r \in Token : rows[r] = [hash |-> x, dev |-> valid[x], revoked |-> FALSE]
            BY <5>1 DEF Shown
          <5>2. rows[r] # None /\ rows[r].dev # d
            <6>1. valid[x] \in Device
              BY <1>5, <3>4
            <6>2. rows[r] # None
              BY <1>5, <6>1
            <6> QED
              BY <5>1, <6>2
          <5>3. r # t
            BY <3>1, <5>2 DEF OwesLogin
          <5>4. f[r] = rows[r]
            BY <3>2, <3>3, <5>2, <5>3
          <5> QED
            BY <5>4 DEF Shown
        <4> QED
          BY <4>1, <4>2
      <3>5. ASSUME NEW r \in Token, f[r] # None, ~f[r].revoked PROVE Open(f[r].hash, valid, expired)
        <4>1. CASE r = t
          BY <3>2, <4>1
        <4>2. CASE r # t /\ r \in W
          <5>1. rows[r] \in Row /\ f[r] = [rows[r] EXCEPT !.revoked = TRUE]
            BY <1>5, <3>2, <3>3, <4>2
          <5>2. f[r].revoked = TRUE
            BY <5>1 DEF Row
          <5> QED
            BY <3>5, <5>2
        <4>3. CASE r # t /\ r \notin W
          BY <3>1, <3>2, <3>3, <3>5, <4>3 DEF OwesLogin
        <4> QED
          BY <4>1, <4>2, <4>3
      <3> QED
        BY <3>4, <3>5 DEF Agrees
    <2>2. CASE task[k].kind = "rotate"
      <3> DEFINE t == task[k].old
                 u == task[k].new
                 d == task[k].dev
      <3>1. OwesRotation(task[k], valid, expired, rows) /\ task[k].row = origin[t]
        BY <1>1, <1>2, <2>2 DEF Owes, TaskSound
      <3> PICK s \in Token : rows[s] = [hash |-> t, dev |-> d, revoked |-> FALSE]
        BY <3>1 DEF OwesRotation
      <3>2. /\ t \in Token /\ u \in Token /\ d \in Device /\ valid[t] = None
            /\ valid[u] \in {None, d} /\ Open(u, valid, expired)
        BY <1>1, <3>1 DEF OwesRotation
      <3>3. rows[s] # None /\ s = task[k].row
        <4>1. rows[s] # None
          BY <1>5, <3>2
        <4>2. rows[s].hash = t
          OBVIOUS
        <4> QED
          BY <1>5, <3>1, <4>1, <4>2
      <3>4. \A r \in Token : r \in W <=> r = s
        BY <2>2, <3>3 DEF Where
      <3>5. /\ f[s] = [hash |-> u, dev |-> d, revoked |-> FALSE]
            /\ \A r \in Token \ {s} : f[r] = rows[r]
        <4>1. /\ f[s] = [rows[s] EXCEPT !.hash = u]
              /\ \A r \in Token \ {s} : f[r] = rows[r]
          BY <1>4, <2>2, <3>4 DEF Inserted, Written
        <4>2. rows[s] \in Row /\ rows[s].dev = d /\ rows[s].revoked = FALSE
          BY <1>5, <3>3
        <4> QED
          BY <3>2, <4>1, <4>2, RowRotated
      <3>6. ASSUME NEW x \in Token, valid[x] # None PROVE Shown(x, valid, f)
        <4>1. CASE x = u
          BY <3>2, <3>5, <3>6, <4>1 DEF Shown
        <4>2. CASE x # u
          <5> PICK r \in Token : rows[r] = [hash |-> x, dev |-> valid[x], revoked |-> FALSE]
            BY <3>1, <3>6, <4>2 DEF OwesRotation, Shown
          <5>1. r # s
            BY <3>2, <3>6
          <5> QED
            BY <3>5, <5>1 DEF Shown
        <4> QED
          BY <4>1, <4>2
      <3>7. ASSUME NEW r \in Token, f[r] # None, ~f[r].revoked PROVE Open(f[r].hash, valid, expired)
        <4>1. CASE r = s
          BY <3>2, <3>5, <4>1
        <4>2. CASE r # s
          <5>1. f[r] = rows[r] /\ rows[r].hash # t
            <6>1. f[r] = rows[r] /\ rows[r] # None
              BY <3>5, <3>7, <4>2
            <6> QED
              BY <1>5, <3>1, <3>3, <4>2, <6>1
          <5> QED
            BY <3>1, <3>7, <5>1 DEF OwesRotation
        <4> QED
          BY <4>1, <4>2
      <3> QED
        BY <3>6, <3>7 DEF Agrees
    <2>3. CASE task[k].kind = "logout"
      <3> DEFINE t == task[k].old
                 s == task[k].row
      <3>1. /\ OwesLogout(task[k], valid, expired, rows)
            /\ t \in Token /\ valid[t] = None /\ s \in Token /\ rows[s] # None /\ rows[s].hash = t
        BY <1>1, <1>2, <2>3 DEF Owes, OwesLogout
      <3>2. \A r \in Token : r \in W <=> r = s
        BY <2>3, <3>1 DEF Where
      <3>3. /\ f[s] = [rows[s] EXCEPT !.revoked = TRUE]
            /\ \A r \in Token \ {s} : f[r] = rows[r]
        BY <1>4, <2>3, <3>1, <3>2 DEF Inserted, Written
      <3>4. ASSUME NEW x \in Token, valid[x] # None PROVE Shown(x, valid, f)
        <4> PICK r \in Token : rows[r] = [hash |-> x, dev |-> valid[x], revoked |-> FALSE]
          BY <3>1, <3>4 DEF OwesLogout, Shown
        <4>1. r # s
          BY <3>1, <3>4
        <4> QED
          BY <3>3, <4>1 DEF Shown
      <3>5. ASSUME NEW r \in Token, f[r] # None, ~f[r].revoked PROVE Open(f[r].hash, valid, expired)
        <4>1. r # s
          BY <1>5, <3>1, <3>3, <3>5 DEF Row
        <4>2. f[r] = rows[r] /\ rows[r].hash # t
          <5>1. f[r] = rows[r] /\ rows[r] # None
            BY <3>3, <3>5, <4>1
          <5> QED
            BY <1>5, <3>1, <4>1, <5>1
        <4> QED
          BY <3>1, <3>5, <4>2 DEF OwesLogout
      <3> QED
        BY <3>4, <3>5 DEF Agrees
    <2>4. CASE task[k].kind = "revokeAll"
      <3>1. \A x \in Token : valid[x] = None
        BY <1>1, <1>2, <2>4 DEF Owes, OwesAll
      <3>2. \A r \in Token : r \in W <=> rows[r] # None /\ ~rows[r].revoked
        BY <2>4 DEF Where
      <3>3. \A r \in Token : f[r] = IF r \in W THEN [rows[r] EXCEPT !.revoked = TRUE] ELSE rows[r]
        BY <1>4, <2>4 DEF Inserted, Written
      <3>4. ASSUME NEW r \in Token, f[r] # None PROVE f[r].revoked
        <4>1. CASE r \in W
          <5>1. rows[r] \in Row /\ f[r] = [rows[r] EXCEPT !.revoked = TRUE]
            BY <1>5, <3>2, <3>3, <4>1
          <5>2. f[r].revoked = TRUE
            BY <5>1 DEF Row
          <5> QED
            BY <5>2
        <4>2. CASE r \notin W
          BY <3>2, <3>3, <3>4, <4>2
        <4> QED
          BY <4>1, <4>2
      <3> QED
        BY <3>1, <3>4 DEF Agrees
    <2> QED
      BY <1>1, <1>2, <2>1, <2>2, <2>3, <2>4 DEF Owes
  <1>7. Owes(q, valid, expired, rows)
    BY <1>3, <1>6 DEF Owes, Requests, f
  <1> QED
    BY <1>1, <1>2, <1>3, <1>7, CalmStep

(* The commit makes it the log.                                            *)
LEMMA CommitCalm ==
    ASSUME CalmInv, NEW k \in Slot, Commit(k), calm'
    PROVE  CalmSound'
  <1>1. /\ calm /\ ~At(k, "idle") /\ task[k].pc = "commit" /\ valid' = valid
        /\ expired' = expired
        /\ rows' = After(task[k], rows) /\ Become(k, Idle)
    BY DEF Commit, At, After
  <1>2. /\ \A j \in Slot \ {k} : At(j, "idle")
        /\ Owes(task[k], valid, expired, rows) /\ task \in [Slot -> Task]
    BY <1>1, AloneLemma
  <1>3. Agrees(valid', expired', rows')
    BY <1>1, <1>2 DEF Owes
  <1>4. Owes(Idle, valid', expired', rows')
    BY DEF Idle, Owes, Requests
  <1> QED
    BY <1>1, <1>2, <1>3, <1>4, CalmStep

(* Every step keeps the log in agreement, or ends calm.                    *)
LEMMA CalmInductive == CalmInv /\ [Next]_vars => CalmInv'
  <1> SUFFICES ASSUME CalmInv, [Next]_vars PROVE CalmInv'
    OBVIOUS
  <1>1. IInv' /\ Rooted'
    BY Inductive, RootedStep DEF CalmInv
  <1>2. CASE UNCHANGED vars
    <2>1. /\ valid' = valid /\ rows' = rows /\ task' = task /\ (calm' <=> calm)
          /\ expired' = expired
      BY <1>2 DEF vars
    <2>2. OneTask' <=> OneTask
      BY <2>1 DEF OneTask, At
    <2>3. Settled' <=> Settled
      BY <2>1 DEF Settled, At
    <2>4. CalmSound'
      BY <2>1, <2>2, <2>3 DEF CalmInv, CalmSound
    <2> QED
      BY <1>1, <2>4 DEF CalmInv
  <1>3. CASE ~calm'
    BY <1>1, <1>3 DEF CalmSound, CalmInv
  <1>4. ASSUME NEW k \in Slot, calm',
               Request(k) \/ SelectRow(k) \/ Update(k) \/ Apply(k) \/ Commit(k)
        PROVE  CalmSound'
    <2>1. ~RequestFails(k)
      BY <1>4 DEF RequestFails
    <2> QED
      BY <1>4, <2>1, LoginCalm, RefreshCalm, EndCalm, DeleteDeviceCalm, StoreCalm, ExchangeCalm,
         DeleteOwnCalm, DeleteAllCalm, SelectCalm, UpdateCalm, ApplyCalm, CommitCalm DEF Request
  <1>6. ASSUME NEW t \in Token, calm', Expire(t) PROVE CalmSound'
    BY <1>6, ExpireCalm
  <1>5. calm' \in BOOLEAN
    BY <1>1 DEF IInv, TypeOK
  <1> QED
    BY <1>1, <1>2, <1>3, <1>4, <1>5, <1>6 DEF Next, TaskFails, CalmInv, CalmSound

(* No token, no row, no task.                                              *)
LEMMA CalmInitial == Init => CalmInv
  <1> SUFFICES ASSUME Init PROVE CalmInv
    OBVIOUS
  <1>1. IInv
    BY Initial
  <1>2. \A t \in Token : origin[t] = None /\ valid[t] = None /\ rows[t] = None
    BY DEF Init, Nothing
  <1>3. \A k \in Slot : task[k].pc = "idle"
    BY DEF Init, Idle
  <1> QED
    BY <1>1, <1>2, <1>3 DEF CalmInv, Rooted, CalmSound, OneTask, At, Agrees, Owes, Requests

(* As long as each request and its task have ended before the next one and *)
(* refreshes stay on their devices, the rows that are not revoked are the  *)
(* sessions that Redis holds or has let run out.                           *)
THEOREM LogAgrees == Spec => []AuditAgrees
  <1>1. CalmInv => AuditAgrees
    <2> SUFFICES ASSUME CalmInv, calm, Settled PROVE
            /\ \A t \in Token : valid[t] # None =>
                  \E r \in Made : rows[r] = [hash |-> t, dev |-> valid[t], revoked |-> FALSE]
            /\ \A r \in Made : ~rows[r].revoked =>
                  valid[rows[r].hash] # None \/ rows[r].hash \in expired
      BY DEF AuditAgrees
    <2>1. Agrees(valid, expired, rows)
      BY DEF CalmInv, CalmSound
    <2>2. ASSUME NEW t \in Token, valid[t] # None
          PROVE  \E r \in Made : rows[r] = [hash |-> t, dev |-> valid[t], revoked |-> FALSE]
      <3> PICK r \in Token : rows[r] = [hash |-> t, dev |-> valid[t], revoked |-> FALSE]
        BY <2>1, <2>2 DEF Agrees, Shown
      <3>1. [hash |-> t, dev |-> valid[t], revoked |-> FALSE] \in Row
        BY <2>2 DEF Row, CalmInv, IInv, TypeOK
      <3> QED
        BY <3>1, AuditAssumption DEF Made
    <2> QED
      BY <2>1, <2>2 DEF Agrees, Made, Open
  <1> QED
    BY <1>1, CalmInitial, CalmInductive, PTL DEF Spec
-----------------------------------------------------------------------------
(* The log is not rewritten: what tasks may write to it, in any order.     *)

(* What task q has written fits the rows f: a row of its own that is not   *)
(* in the table, or changes of rows that are there.                        *)
Fits(q, f) ==
    /\ q.kind = "login" => f[q.new] = None
    /\ \A r \in Token : q.mine[r] # None =>
          /\ f[r] = None => q.kind = "login" /\ r = q.new
          /\ f[r] # None => /\ q.mine[r].dev = f[r].dev
                            /\ f[r].revoked => q.mine[r].revoked

(* Tasks q and s insert different rows, and no row is written by both.     *)
Disjoint(q, s) ==
    /\ q.kind = "login" /\ s.kind = "login" => q.new # s.new
    /\ \A r \in Token : q.mine[r] = None \/ s.mine[r] = None

Kept ==
    /\ \A k \in Slot : Fits(task[k], rows)
    /\ \A j, k \in Slot : j # k => Disjoint(task[j], task[k])

(* The inductive invariant of ClosedStaysClosed.                           *)
KeptInv == IInv /\ Rooted /\ Kept

(* A step of one task that leaves the table alone.                         *)
LEMMA KeptStep ==
    ASSUME KeptInv, NEW k \in Slot, NEW q, Become(k, q), rows' = rows, Fits(q, rows),
           \A j \in Slot \ {k} : Disjoint(q, task[j])
    PROVE  Kept'
  <1>1. task' = [task EXCEPT ![k] = q] /\ task \in [Slot -> Task]
    BY DEF Become, KeptInv, IInv, TypeOK
  <1>2. \A j \in Slot : Fits(task'[j], rows')
    BY <1>1 DEF KeptInv, Kept
  <1>3. ASSUME NEW i \in Slot, NEW j \in Slot, i # j PROVE Disjoint(task'[i], task'[j])
    <2>1. CASE i # k /\ j # k
      BY <1>1, <1>3, <2>1 DEF KeptInv, Kept
    <2>2. CASE i = k
      BY <1>1, <1>3, <2>2
    <2>3. CASE j = k
      BY <1>1, <1>3, <2>3 DEF Disjoint
    <2> QED
      BY <2>1, <2>2, <2>3
  <1> QED
    BY <1>2, <1>3 DEF Kept

(* A task that writes nothing and inserts nothing is in nobody's way.      *)
LEMMA EmptyKept ==
    ASSUME KeptInv, NEW q, q.kind # "login", q.mine = Nothing
    PROVE  Fits(q, rows) /\ \A j \in Slot : Disjoint(q, task[j])
  BY DEF Fits, Disjoint, Nothing

(* A row is named by a token that has an origin.                           *)
LEMMA RowKnown ==
    ASSUME KeptInv, NEW r \in Token, rows[r] # None
    PROVE  origin[r] # None
  <1>1. rows[r] \in Row /\ origin[rows[r].hash] = r /\ rows[r].hash \in Token
    BY DEF KeptInv, IInv, TypeOK, Sound, RowsSound, Row
  <1>2. r # None
    BY AuditAssumption
  <1> QED
    BY <1>1, <1>2 DEF KeptInv, Rooted

(* The task of a login is about a token that nobody has a row for.         *)
LEMMA LoginKept ==
    ASSUME KeptInv, NEW k \in Slot, NEW t \in Token, NEW d \in Device, Login(k, t, d)
    PROVE  Kept'
  <1> DEFINE q == [Idle EXCEPT !.kind = "login", !.pc = "delete", !.old = None,
                               !.new = t, !.dev = d]
  <1>1. q.kind = "login" /\ q.new = t /\ q.mine = Nothing
    BY DEF Idle
  <1>2. Become(k, q) /\ rows' = rows /\ origin[t] = None
    BY DEF Login, Begin
  <1>3. rows[t] = None
    BY <1>2, RowKnown
  <1>4. Fits(q, rows)
    BY <1>1, <1>3 DEF Fits, Nothing
  <1>5. ASSUME NEW j \in Slot PROVE Disjoint(q, task[j])
    <2>1. task[j].kind = "login" => task[j].new # t
      BY <1>2, AuditAssumption DEF KeptInv, IInv, Sound, TaskSound
    <2> QED
      BY <1>1, <2>1 DEF Disjoint, Nothing
  <1> QED
    BY <1>2, <1>4, <1>5, KeptStep

(* A task that goes on with what it has written.                           *)
LEMMA GoKept ==
    ASSUME KeptInv, NEW k \in Slot, NEW q, Become(k, q), rows' = rows,
           q.kind = task[k].kind, q.new = task[k].new, q.mine = task[k].mine
    PROVE  Kept'
  <1>1. Fits(q, rows)
    BY DEF Fits, KeptInv, Kept
  <1>2. \A j \in Slot \ {k} : Disjoint(q, task[j])
    BY DEF Disjoint, KeptInv, Kept
  <1> QED
    BY <1>1, <1>2, KeptStep

(* A task that ends: what it had written is committed before, or lost.     *)
LEMMA EndKept ==
    ASSUME KeptInv, NEW k \in Slot, Become(k, Idle), rows' = rows
    PROVE  Kept'
  <1>1. Idle.kind # "login" /\ Idle.mine = Nothing
    BY DEF Idle
  <1> QED
    BY <1>1, EmptyKept, KeptStep

(* The steps of a request.                                                 *)
LEMMA RequestKept ==
    ASSUME KeptInv, NEW k \in Slot, Request(k)
    PROVE  Kept'
  <1>1. ASSUME NEW t \in Token, NEW d \in Device, Login(k, t, d) PROVE Kept'
    BY <1>1, LoginKept
  <1>2. ASSUME NEW kind, kind # "login", NEW pc, NEW old, NEW new, NEW d,
               Begin(k, kind, pc, old, new, d)
        PROVE  Kept'
    <2> DEFINE q == [Idle EXCEPT !.kind = kind, !.pc = pc, !.old = old, !.new = new, !.dev = d]
    <2>1. q.kind = kind /\ q.mine = Nothing
      BY DEF Idle
    <2>2. Become(k, q) /\ rows' = rows
      BY <1>2 DEF Begin
    <2>3. Fits(q, rows) /\ \A j \in Slot : Disjoint(q, task[j])
      BY <1>2, <2>1, EmptyKept
    <2> QED
      BY <2>2, <2>3, KeptStep
  <1>3. ASSUME NEW t \in Token, NEW u \in Token, NEW d \in Device, Refresh(k, t, u, d)
        PROVE  Kept'
    BY <1>2, <1>3 DEF Refresh
  <1>4. ASSUME NEW t \in Token, Logout(k, t) PROVE Kept'
    BY <1>2, <1>4 DEF Logout
  <1>5. ASSUME ChangePassword(k) PROVE Kept'
    BY <1>2, <1>5 DEF ChangePassword
  <1>6. rows' = rows /\ task[k] \in Task
    BY DEF Request, Login, Refresh, Logout, ChangePassword, Begin, DeleteDevice, StoreNew,
       Exchange, DeleteOwn, DeleteAll, RequestFails, Redis, KeptInv, IInv, TypeOK
  <1>7. ASSUME NEW pc, Become(k, [task[k] EXCEPT !.pc = pc]) PROVE Kept'
    <2> DEFINE q == [task[k] EXCEPT !.pc = pc]
    <2>1. q.kind = task[k].kind /\ q.new = task[k].new /\ q.mine = task[k].mine
      BY <1>6 DEF Task
    <2>2. Become(k, q)
      BY <1>7
    <2> HIDE DEF q
    <2> QED
      BY <1>6, <2>1, <2>2, GoKept
  <1>8. CASE Become(k, Idle)
    BY <1>6, <1>8, EndKept
  <1> QED
    BY <1>1, <1>3, <1>4, <1>5, <1>7, <1>8 DEF Request, DeleteDevice, StoreNew, Exchange,
       DeleteOwn, DeleteAll, RequestFails

LEMMA SelectKept ==
    ASSUME KeptInv, NEW k \in Slot, SelectRow(k)
    PROVE  Kept'
  <1>0. task[k] \in Task /\ rows' = rows
    BY DEF SelectRow, KeptInv, IInv, TypeOK
  <1>1. ASSUME NEW r \in Made, Become(k, [task[k] EXCEPT !.pc = "update", !.row = r])
        PROVE  Kept'
    <2> DEFINE q == [task[k] EXCEPT !.pc = "update", !.row = r]
    <2>1. q.kind = task[k].kind /\ q.new = task[k].new /\ q.mine = task[k].mine
      BY <1>0 DEF Task
    <2> QED
      BY <1>0, <1>1, <2>1, GoKept
  <1>2. CASE Become(k, Idle)
    BY <1>0, <1>2, EndKept
  <1> QED
    BY <1>1, <1>2 DEF SelectRow

LEMMA UpdateKept ==
    ASSUME KeptInv, NEW k \in Slot, Update(k)
    PROVE  Kept'
  <1> DEFINE q == [task[k] EXCEPT !.pc = "lock", !.hit = {r \in Token : Matches(k, r)}]
  <1>1. task[k] \in Task /\ rows' = rows /\ Become(k, q)
    BY DEF Update, KeptInv, IInv, TypeOK
  <1>2. q.kind = task[k].kind /\ q.new = task[k].new /\ q.mine = task[k].mine
    BY <1>1 DEF Task
  <1> QED
    BY <1>1, <1>2, GoKept

(* What an UPDATE writes to a row keeps its device, and keeps it closed.   *)
LEMMA WrittenLemma ==
    ASSUME NEW k \in Slot, task[k].new \in Token \/ task[k].kind # "rotate", NEW r \in Row
    PROVE  /\ Written(k, r).dev = r.dev
           /\ r.revoked => Written(k, r).revoked
  <1>1. CASE task[k].kind = "rotate"
    <2>1. Written(k, r) = [r EXCEPT !.hash = task[k].new]
      BY <1>1 DEF Written
    <2> QED
      BY <2>1 DEF Row
  <1>2. CASE task[k].kind # "rotate"
    <2>1. Written(k, r) = [r EXCEPT !.revoked = TRUE]
      BY <1>2 DEF Written
    <2> QED
      BY <2>1 DEF Row
  <1> QED
    BY <1>1, <1>2

(* A statement writes rows that nobody else has written: it has waited for *)
(* the locks of those that are there, and that of a login is its own.      *)
LEMMA ApplyKept ==
    ASSUME KeptInv, NEW k \in Slot, Apply(k)
    PROVE  Kept'
  <1> DEFINE row(r) == IF Inserted(k, r)
                       THEN [hash |-> r, dev |-> task[k].dev, revoked |-> FALSE]
                       ELSE IF r \in task[k].hit /\ Matches(k, r) THEN Written(k, rows[r])
                       ELSE None
             q == [task[k] EXCEPT !.pc = "commit", !.mine = [r \in Token |-> row(r)]]
  <1>1. /\ task[k] \in Task /\ TaskSound(task[k], origin) /\ Fits(task[k], rows)
        /\ rows \in [Token -> Row \cup {None}] /\ rows' = rows /\ Become(k, q)
        /\ \A r \in task[k].hit : ~Locked(r, k)
    BY DEF Apply, KeptInv, Kept, IInv, TypeOK, Sound
  <1>2. q.kind = task[k].kind /\ q.new = task[k].new /\ q.mine = [r \in Token |-> row(r)]
    BY <1>1 DEF Task
  <1> HIDE DEF q
  <1>3. Fits(q, rows)
    <2>1. q.kind = "login" => rows[q.new] = None
      BY <1>1, <1>2 DEF Fits
    <2>2. ASSUME NEW r \in Token, row(r) # None
          PROVE  /\ rows[r] = None => q.kind = "login" /\ r = q.new
                 /\ rows[r] # None => /\ row(r).dev = rows[r].dev
                                      /\ rows[r].revoked => row(r).revoked
      <3>1. CASE Inserted(k, r)
        BY <1>2, <2>1, <3>1 DEF Inserted
      <3>2. CASE ~Inserted(k, r)
        <4>1. rows[r] # None /\ row(r) = Written(k, rows[r])
          BY <2>2, <3>2 DEF Matches
        <4>2. rows[r] \in Row
          BY <1>1, <4>1
        <4>3. task[k].new \in Token \/ task[k].kind # "rotate"
          BY <1>1 DEF TaskSound
        <4> QED
          BY <4>1, <4>2, <4>3, WrittenLemma
      <3> QED
        BY <3>1, <3>2
    <2>3. \A r \in Token : q.mine[r] = row(r)
      BY <1>2
    <2> HIDE DEF row
    <2> QED
      BY <2>1, <2>2, <2>3 DEF Fits
  <1>4. ASSUME NEW j \in Slot \ {k} PROVE Disjoint(q, task[j])
    <2>1. Disjoint(task[k], task[j]) /\ Fits(task[j], rows)
      BY DEF KeptInv, Kept
    <2>2. ASSUME NEW r \in Token, row(r) # None PROVE task[j].mine[r] = None
      <3>1. CASE Inserted(k, r)
        BY <1>1, <2>1, <3>1 DEF Inserted, Fits, Disjoint
      <3>2. CASE ~Inserted(k, r)
        BY <1>1, <2>2, <3>2 DEF Locked
      <3> QED
        BY <3>1, <3>2
    <2>3. \A r \in Token : q.mine[r] = row(r)
      BY <1>2
    <2> HIDE DEF row
    <2> QED
      BY <1>2, <2>1, <2>2, <2>3 DEF Disjoint
  <1> QED
    BY <1>1, <1>3, <1>4, KeptStep

(* A commit changes rows that no other task has written or will insert.    *)
LEMMA CommitKept ==
    ASSUME KeptInv, NEW k \in Slot, Commit(k)
    PROVE  Kept'
  <1>1. /\ task \in [Slot -> Task] /\ task' = [task EXCEPT ![k] = Idle]
        /\ rows' = [r \in Token |-> IF task[k].mine[r] # None THEN task[k].mine[r] ELSE rows[r]]
    BY DEF Commit, Become, KeptInv, IInv, TypeOK
  <1>2. Idle.kind # "login" /\ \A r \in Token : Idle.mine[r] = None
    BY DEF Idle, Nothing
  <1>3. ASSUME NEW j \in Slot PROVE Fits(task'[j], rows')
    <2>1. CASE j = k
      BY <1>1, <1>2, <2>1 DEF Fits
    <2>2. CASE j # k
      <3>1. task'[j] = task[j] /\ Fits(task[j], rows) /\ Fits(task[k], rows)
            /\ Disjoint(task[j], task[k])
        BY <1>1, <2>2 DEF KeptInv, Kept
      <3>2. \A r \in Token : task[j].mine[r] # None => rows'[r] = rows[r]
        BY <1>1, <3>1 DEF Disjoint
      <3>3. ASSUME task[j].kind = "login" PROVE rows'[task[j].new] = None
        <4>1. task[j].new \in Token
          BY <3>3 DEF KeptInv, IInv, Sound, TaskSound
        <4>2. rows[task[j].new] = None
          BY <3>1, <3>3 DEF Fits
        <4>3. task[k].mine[task[j].new] = None
          BY <3>1, <3>3, <4>1, <4>2 DEF Fits, Disjoint
        <4> QED
          BY <1>1, <4>1, <4>2, <4>3
      <3> QED
        BY <3>1, <3>2, <3>3 DEF Fits
    <2> QED
      BY <2>1, <2>2
  <1>4. ASSUME NEW i \in Slot, NEW j \in Slot, i # j PROVE Disjoint(task'[i], task'[j])
    <2>1. CASE i # k /\ j # k
      BY <1>1, <1>4, <2>1 DEF KeptInv, Kept
    <2>2. CASE i = k \/ j = k
      BY <1>1, <1>2, <1>4, <2>2 DEF Disjoint
    <2> QED
      BY <2>1, <2>2
  <1> QED
    BY <1>3, <1>4 DEF Kept

LEMMA KeptInductive == KeptInv /\ [Next]_vars => KeptInv'
  <1> SUFFICES ASSUME KeptInv, [Next]_vars PROVE KeptInv'
    OBVIOUS
  <1>1. IInv' /\ Rooted'
    BY Inductive, RootedStep DEF KeptInv
  <1>2. CASE UNCHANGED vars
    BY <1>1, <1>2 DEF vars, KeptInv, Kept
  <1>3. ASSUME NEW k \in Slot, Request(k) \/ SelectRow(k) \/ Update(k) \/ Apply(k) \/ Commit(k)
        PROVE  Kept'
    BY <1>3, RequestKept, SelectKept, UpdateKept, ApplyKept, CommitKept
  <1>4. ASSUME NEW k \in Slot, TaskFails(k) PROVE Kept'
    BY <1>4, EndKept DEF TaskFails
  <1>5. ASSUME NEW t \in Token, Expire(t) PROVE Kept'
    BY <1>5 DEF Expire, KeptInv, Kept
  <1> QED
    BY <1>1, <1>2, <1>3, <1>4, <1>5 DEF Next, KeptInv

LEMMA KeptInitial == Init => KeptInv
  <1> SUFFICES ASSUME Init PROVE KeptInv
    OBVIOUS
  <1>1. IInv
    BY Initial
  <1>2. \A t \in Token : origin[t] = None /\ rows[t] = None
    BY DEF Init, Nothing
  <1>3. \A k \in Slot : task[k] = Idle
    BY DEF Init
  <1>4. Idle.kind # "login" /\ \A r \in Token : Idle.mine[r] = None
    BY DEF Idle, Nothing
  <1> QED
    BY <1>1, <1>2, <1>3, <1>4 DEF KeptInv, Rooted, Kept, Fits, Disjoint

(* No order of the background tasks, and no failure of one, removes a row, *)
(* moves it to another device or opens it again once it is revoked.        *)
THEOREM ClosedForGood == Spec => ClosedStaysClosed
  <1> DEFINE Stays == \A r \in Made : /\ rows'[r] # None
                                      /\ rows'[r].dev = rows[r].dev
                                      /\ rows[r].revoked => rows'[r].revoked
  <1>1. KeptInv /\ [Next]_vars => [Stays]_vars
    <2> SUFFICES ASSUME KeptInv, [Next]_vars, NEW r \in Made
                 PROVE  /\ rows'[r] # None
                        /\ rows'[r].dev = rows[r].dev
                        /\ rows[r].revoked => rows'[r].revoked
      OBVIOUS
    <2>1. r \in Token /\ rows[r] # None
      BY DEF Made
    <2>2. CASE rows' = rows
      BY <2>1, <2>2
    <2>3. ASSUME NEW k \in Slot, Commit(k)
          PROVE  /\ rows'[r] # None
                 /\ rows'[r].dev = rows[r].dev
                 /\ rows[r].revoked => rows'[r].revoked
      BY <2>1, <2>3 DEF Commit, KeptInv, Kept, Fits
    <2>4. rows' = rows \/ \E k \in Slot : Commit(k)
      BY DEF Next, Request, Login, Refresh, Logout, ChangePassword, Begin, DeleteDevice,
         StoreNew, Exchange, DeleteOwn, DeleteAll, RequestFails, Redis, Expire, SelectRow,
         Update, Apply, TaskFails, vars
    <2> QED
      BY <2>2, <2>3, <2>4
  <1> QED
    BY <1>1, KeptInitial, KeptInductive, PTL DEF Spec, ClosedStaysClosed
=============================================================================
