------------------------- MODULE PendingEmailProofs -------------------------
(***************************************************************************)
(* Proofs about PendingEmail, for any number of mailboxes, logins, codes,  *)
(* tokens and requests in flight.                                          *)
(***************************************************************************)
EXTENDS PendingEmail, TLAPS

Putter == {"register", "resend", "reset"}

Verifier == {"verify", "resetVerify"}

(* A request that stores and mails a new code, and has yet to store it.    *)
Putting(r) == r.op \in Putter /\ r.pc = "gather"

Storing(r) == Putting(r) /\ "setPending" \in r.todo

(* A verification whose code was found valid, and has deleted the entry.   *)
Checked(r) == r.op \in Verifier /\ r.pc # "validate"

Deleted(r) == Checked(r) /\ r.pc = "gather" /\ "deletePending" \notin r.todo

(* Which local variables are set where.                                    *)
Local(r) ==
    /\ r.pc = "cooldown" => r.op \in {"register", "resend"}
    /\ r.pc = "login" => r.op = "register"
    /\ r.pc = "email" => r.op \in {"register", "reset"}
    /\ r.pc = "read" => r.op = "resend"
    /\ r.pc \in {"validate", "again"} => r.op \in Verifier
    /\ r.pc \in {"taken", "noPassword", "commit", "conflict"} => r.op = "verify"
    /\ r.pc = "wipe" => r.op = "resetVerify"
    /\ r.pc = "gather" => r.op \in Putter \cup Verifier
    /\ r.pc \in {"token", "ttl", "update", "deleteToken", "sendChanged", "commitPassword"}
          => r.op = "finalize"
    /\ r.op \in Putter \cup Verifier => r.addr \in Address
    /\ r.op \in Verifier => r.code \in Code
    /\ r.op = "register" => r.name \in Login
    /\ r.op = "finalize" => r.token \in Token /\ r.name \in Login
    /\ r.pc \in {"taken", "noPassword", "commit", "conflict", "wipe", "gather"}
          => r.entry \in Entry /\ r.entry.addr.box = r.addr.box
    /\ r.pc = "wipe" => r.entry.known
    /\ r.pc \in {"gather", "commit"} /\ r.op = "verify" => r.entry.password \in Code
    /\ r.pc = "gather" /\ r.op = "resetVerify" => r.token \in Token
    /\ r.pc = "gather" /\ ("setPending" \in r.todo \/ "setCooldown" \in r.todo
                             \/ "sendCode" \in r.todo)
          => r.op \in Putter
    /\ r.pc = "gather" /\ "deletePending" \in r.todo => r.op \in Verifier
    /\ r.pc = "gather" /\ "createUser" \in r.todo => r.op = "verify"
    /\ r.pc = "gather" /\ "storeToken" \in r.todo => r.op = "resetVerify"

(* The account of a login has this address.                                *)
IsOf(e, U) == U[e.login] # None /\ U[e.login].addr = e.addr

(* What a request knows of the entries P, the reset tokens R, the users U, *)
(* the mailboxes M that codes were sent to, the codes N that were made and *)
(* the codes S that are spent.                                             *)
Knows(r, P, R, U, M, N, S) ==
    /\ r.entry # None /\ r.entry.known => IsOf(r.entry, U)
    /\ Putting(r) =>
          /\ r.entry.code \in N
          /\ M[r.entry.code] \in {None, r.addr.box}
          /\ \A b \in Box : P[b] # None /\ P[b].code = r.entry.code => b = r.addr.box
    /\ Storing(r) =>
          /\ r.entry.code \notin S
          /\ \A b \in Box : P[b] # None => P[b].code # r.entry.code
    /\ r.op \in Verifier => M[r.code] # None
    /\ Checked(r) => M[r.code] = r.addr.box
    /\ Deleted(r) => \A b \in Box : P[b] # None => P[b].code # r.code
    /\ r.op = "finalize" => R[r.token] # None /\ R[r.token].login = r.name
    /\ r.op = "resetVerify" /\ r.pc = "gather" => R[r.token] # None

(* A code is of one request, which has stored it before it can be valid.   *)
Apart(r, s) ==
    /\ Putting(r) /\ Putting(s) => r.entry.code # s.entry.code
    /\ Storing(r) /\ Checked(s) => r.entry.code # s.code

(* An entry is under its own mailbox, and so is the mail with its code.    *)
Entries(P, U, M, N) ==
    \A b \in Box : P[b] # None =>
        /\ P[b].addr.box = b
        /\ P[b].code \in N
        /\ M[P[b].code] \in {None, b}
        /\ P[b].known => IsOf(P[b], U)

(* Codes are made before they are mailed, and mailed before they are spent.*)
Codes(M, N, S) ==
    /\ \A c \in Code : M[c] # None => c \in N
    /\ \A c \in S : M[c] # None

(* Tokens in answers and passwords have been made.                         *)
Made(G, U, R) ==
    /\ \A t \in G : R[t] # None
    /\ \A l \in Login : U[l] # None /\ U[l].password \in Token => R[U[l].password] # None

IInv ==
    /\ TypeOK
    /\ \A p \in Proc :
          /\ Local(req[p])
          /\ Knows(req[p], pending, reset, users, mailed, minted, spent)
    /\ \A p, q \in Proc : p # q => Apart(req[p], req[q])
    /\ Entries(pending, users, mailed, minted)
    /\ Codes(mailed, minted, spent)
    /\ Made(given, users, reset)
    /\ SpentCodeIsDead
    /\ OnlyMailboxOwner

-----------------------------------------------------------------------------
LEMMA IdleLemma ==
    /\ Idle \in Request /\ Local(Idle) /\ Idle.pc = "idle" /\ Idle.op = "none"
    /\ \A P, R, U, M, N, S : Knows(Idle, P, R, U, M, N, S)
    /\ \A r : Apart(Idle, r) /\ Apart(r, Idle)
  <1>1. /\ Idle.op = "none" /\ Idle.pc = "idle" /\ Idle.entry = None /\ Idle.todo = {}
        /\ Idle \in Request
    BY DEF Idle, Request, Operations
  <1> HIDE DEF Idle
  <1> QED
    BY <1>1 DEF Local, Knows, Apart, Putting, Storing, Checked, Deleted, Putter, Verifier

(* The request p takes a step: what must hold of p, and of all others.     *)
LEMMA StepLemma ==
    ASSUME IInv, NEW p \in Proc, NEW r \in Request, Become(p, r), Local(r),
           /\ pending' \in [Box -> Entry \cup {None}]
           /\ cooldown' \in SUBSET Box
           /\ reset' \in [Token -> ResetToken \cup {None}]
           /\ users' \in [Login -> Account \cup {None}]
           /\ denied' \in SUBSET (Login \cup Address)
           /\ mailed' \in [Code -> Box \cup {None}]
           /\ minted' \in SUBSET Code
           /\ given' \in SUBSET Token
           /\ sessions' \in SUBSET [login : Login, password : Code \cup Token]
           /\ spent' \in SUBSET Code,
           Knows(r, pending', reset', users', mailed', minted', spent'),
           \A q \in Proc \ {p} :
              /\ Knows(req[q], pending', reset', users', mailed', minted', spent')
              /\ Apart(r, req[q]) /\ Apart(req[q], r),
           Entries(pending', users', mailed', minted'),
           Codes(mailed', minted', spent'),
           Made(given', users', reset'),
           SpentCodeIsDead', OnlyMailboxOwner'
    PROVE  IInv'
  <1>1. req \in [Proc -> Request]
    BY DEF IInv, TypeOK
  <1>2. /\ req' \in [Proc -> Request] /\ req'[p] = r
        /\ \A q \in Proc \ {p} : req'[q] = req[q]
    BY <1>1 DEF Become
  <1>3. TypeOK'
    BY <1>2 DEF TypeOK
  <1>4. \A q \in Proc : Local(req'[q])
    BY <1>2 DEF IInv
  <1>5. \A q \in Proc : Knows(req'[q], pending', reset', users', mailed', minted', spent')
    BY <1>2
  <1>6. \A q, s \in Proc : q # s => Apart(req'[q], req'[s])
    BY <1>2 DEF IInv
  <1> QED
    BY <1>3, <1>4, <1>5, <1>6 DEF IInv

(* It leaves entries, users, tokens and codes alone.                       *)
LEMMA QuietLemma ==
    ASSUME IInv, NEW p \in Proc, NEW r \in Request, Become(p, r), Local(r),
           UNCHANGED <<pending, reset, users, mailed, minted, given, sessions, spent>>,
           cooldown' \in SUBSET Box, denied' \in SUBSET (Login \cup Address),
           Knows(r, pending, reset, users, mailed, minted, spent),
           \A q \in Proc \ {p} : Apart(r, req[q]) /\ Apart(req[q], r)
    PROVE  IInv'
  <1>1. SpentCodeIsDead' /\ OnlyMailboxOwner'
    BY DEF IInv, SpentCodeIsDead, OnlyMailboxOwner, Registered
  <1>2. TypeOK
    BY DEF IInv
  <1> QED
    BY <1>1, <1>2, StepLemma DEF IInv, TypeOK

(* It goes on with the variables it has, or ends.                          *)
LEMMA GoLemma ==
    ASSUME IInv, NEW p \in Proc, NEW r \in Request, Become(p, r), Local(r),
           UNCHANGED <<pending, reset, users, mailed, minted, given, sessions, spent>>,
           cooldown' \in SUBSET Box, denied' \in SUBSET (Login \cup Address),
           r.op = req[p].op, r.entry = req[p].entry, r.addr = req[p].addr, r.code = req[p].code,
           r.token = req[p].token, r.name = req[p].name,
           Putting(r) => Putting(req[p]), Storing(r) => Storing(req[p]),
           Checked(r) => Checked(req[p]), Deleted(r) => Deleted(req[p]),
           r.op = "resetVerify" /\ r.pc = "gather" => req[p].pc = "gather"
    PROVE  IInv'
  <1>1. Knows(req[p], pending, reset, users, mailed, minted, spent)
    BY DEF IInv
  <1>2. Knows(r, pending, reset, users, mailed, minted, spent)
    BY <1>1 DEF Knows
  <1>3. \A q \in Proc \ {p} : Apart(req[p], req[q]) /\ Apart(req[q], req[p])
    BY DEF IInv
  <1>4. \A q \in Proc \ {p} : Apart(r, req[q]) /\ Apart(req[q], r)
    BY <1>3 DEF Apart
  <1> QED
    BY <1>2, <1>4, QuietLemma

LEMMA EndLemma ==
    ASSUME IInv, NEW p \in Proc, Become(p, Idle),
           UNCHANGED <<pending, reset, users, mailed, minted, given, sessions, spent>>,
           cooldown' \in SUBSET Box, denied' \in SUBSET (Login \cup Address)
    PROVE  IInv'
    BY IdleLemma, QuietLemma

LEMMA Known ==
    ASSUME IInv, NEW p \in Proc
    PROVE  /\ req \in [Proc -> Request] /\ req[p] \in Request /\ Local(req[p])
           /\ Knows(req[p], pending, reset, users, mailed, minted, spent)
           /\ \A q \in Proc \ {p} : /\ Apart(req[p], req[q]) /\ Apart(req[q], req[p])
                                    /\ req[q] \in Request /\ Local(req[q])
                                    /\ Knows(req[q], pending, reset, users, mailed, minted, spent)
    BY DEF IInv, TypeOK

Place == {"idle", "cooldown", "login", "email", "read", "gather", "validate", "again",
          "taken", "noPassword", "commit", "conflict", "wipe", "token", "ttl", "update",
          "deleteToken", "sendChanged", "commitPassword"}

(* A request moves to the place l.                                         *)
LEMMA GotoLemma ==
    ASSUME IInv, NEW p \in Proc, NEW l \in Place \ {"gather", "validate"}, Goto(p, l),
           Local([req[p] EXCEPT !.pc = l]),
           req[p].pc # "validate",
           UNCHANGED <<pending, reset, users, mailed, minted, given, sessions, spent>>,
           cooldown' \in SUBSET Box, denied' \in SUBSET (Login \cup Address)
    PROVE  IInv'
  <1> DEFINE r == [req[p] EXCEPT !.pc = l]
  <1>1. req[p] \in Request
    BY Known
  <1>2. /\ r \in Request /\ r.pc = l /\ r.op = req[p].op /\ r.entry = req[p].entry
        /\ r.addr = req[p].addr /\ r.code = req[p].code /\ r.token = req[p].token
        /\ r.name = req[p].name
    BY <1>1 DEF Request, Place
  <1>3. Become(p, r) /\ Local(r)
    BY DEF Goto
  <1> HIDE DEF r
  <1> QED
    BY <1>2, <1>3, GoLemma DEF Putting, Storing, Checked, Deleted

(* A task of its gather is done, and the stores stay as they are.          *)
LEMMA TaskLemma ==
    ASSUME IInv, NEW p \in Proc, NEW x \in Tasks \ {"deletePending"}, Task(p, x),
           NEW f \in BOOLEAN,
           Become(p, [req[p] EXCEPT !.todo = @ \ {x}, !.failed = f]),
           UNCHANGED <<pending, reset, users, mailed, minted, given, sessions, spent>>,
           cooldown' \in SUBSET Box, denied' \in SUBSET (Login \cup Address)
    PROVE  IInv'
  <1> DEFINE r == [req[p] EXCEPT !.todo = @ \ {x}, !.failed = f]
  <1>1. req[p] \in Request /\ Local(req[p])
    BY Known
  <1>2. /\ r \in Request /\ r.pc = req[p].pc /\ r.op = req[p].op
        /\ r.entry = req[p].entry /\ r.addr = req[p].addr /\ r.code = req[p].code
        /\ r.token = req[p].token /\ r.name = req[p].name /\ r.todo = req[p].todo \ {x}
    BY <1>1 DEF Request
  <1>3. Become(p, r)
    OBVIOUS
  <1> HIDE DEF r
  <1>4. Local(r)
    BY <1>1, <1>2 DEF Local
  <1> QED
    BY <1>2, <1>3, <1>4, GoLemma DEF Putting, Storing, Checked, Deleted, Task, At

(* Done without a failure.                                                 *)
LEMMA DidLemma ==
    ASSUME IInv, NEW p \in Proc, NEW x
    PROVE  /\ Did(p, x) <=> Become(p, [req[p] EXCEPT !.todo = @ \ {x}, !.failed = req[p].failed])
           /\ req[p].failed \in BOOLEAN
  <1>1. req[p] \in Request
    BY Known
  <1>2. [req[p] EXCEPT !.todo = @ \ {x}, !.failed = req[p].failed]
        = [req[p] EXCEPT !.todo = @ \ {x}]
    BY <1>1 DEF Request
  <1>3. req[p].failed \in BOOLEAN
    BY <1>1 DEF Request
  <1> QED
    BY <1>2, <1>3 DEF Did

-----------------------------------------------------------------------------
(* Requests begin.                                                         *)

LEMMA BeginLemma ==
    ASSUME IInv, NEW p \in Proc, NEW op \in Operations, NEW pc \in Place \ {"gather"},
           NEW a \in Address \cup {None}, NEW l \in Login \cup {None},
           NEW c \in Code \cup {None}, NEW t \in Token \cup {None},
           Start(p, op, pc, a, l, c, t),
           \/ /\ a \in Address
              /\ \/ op = "register" /\ pc = "cooldown" /\ l \in Login
                 \/ op = "resend" /\ pc = "cooldown"
                 \/ op = "reset" /\ pc = "email"
                 \/ op \in Verifier /\ pc = "validate" /\ c \in Code /\ mailed[c] # None
           \/ /\ op = "finalize" /\ pc = "token" /\ t \in Token
              /\ reset[t] # None /\ reset[t].login = l /\ l \in Login
    PROVE  IInv'
  <1> DEFINE r == [Idle EXCEPT !.op = op, !.pc = pc, !.addr = a, !.name = l, !.code = c,
                               !.token = t]
  <1>1. /\ r \in Request /\ r.op = op /\ r.pc = pc /\ r.addr = a /\ r.name = l
        /\ r.code = c /\ r.token = t /\ r.entry = None
    BY DEF Idle, Request, Place
  <1>2. /\ Become(p, r)
        /\ UNCHANGED <<pending, cooldown, reset, users, denied, mailed, minted, given, sessions,
                       spent>>
    BY DEF Start, redis, database, clients
  <1> HIDE DEF r
  <1>3. Local(r)
    BY <1>1 DEF Local, Putter, Verifier
  <1>4. Knows(r, pending, reset, users, mailed, minted, spent)
    BY <1>1 DEF Knows, Putting, Storing, Checked, Deleted, Putter, Verifier
  <1>5. \A q \in Proc \ {p} : Apart(r, req[q]) /\ Apart(req[q], r)
    BY <1>1 DEF Apart, Putting, Storing, Checked, Putter, Verifier
  <1>6. TypeOK
    BY DEF IInv
  <1> QED
    BY <1>1, <1>2, <1>3, <1>4, <1>5, <1>6, QuietLemma DEF TypeOK

LEMMA StartStep ==
    ASSUME IInv, NEW p \in Proc, StartAny(p)
    PROVE  IInv'
  <1>0. Operations = {"register", "resend", "verify", "reset", "resetVerify", "finalize", "login"}
    BY DEF Operations
  <1>1. ASSUME NEW a \in Address, NEW l \in Login,
               Start(p, "register", "cooldown", a, l, None, None)
        PROVE  IInv'
    BY <1>0, <1>1, BeginLemma DEF Place
  <1>2. ASSUME NEW a \in Address, Start(p, "resend", "cooldown", a, None, None, None)
        PROVE  IInv'
    BY <1>0, <1>2, BeginLemma DEF Place
  <1>3. ASSUME NEW a \in Address, Start(p, "reset", "email", a, None, None, None)
        PROVE  IInv'
    BY <1>0, <1>3, BeginLemma DEF Place
  <1>4. ASSUME NEW a \in Address, NEW c \in Code, mailed[c] # None, NEW op \in Verifier,
               Start(p, op, "validate", a, None, c, None)
        PROVE  IInv'
    <2>1. op \in Operations
      BY <1>0 DEF Verifier
    <2> QED
      BY <1>4, <2>1, BeginLemma DEF Place
  <1>5. ASSUME NEW t \in given, Start(p, "finalize", "token", None, reset[t].login, None, t)
        PROVE  IInv'
    <2>1. t \in Token /\ reset[t] # None
      BY DEF IInv, TypeOK, Made
    <2>2. reset[t] \in ResetToken
      BY <2>1 DEF IInv, TypeOK
    <2>3. reset[t].login \in Login
      BY <2>2 DEF ResetToken
    <2> QED
      BY <1>0, <1>5, <2>1, <2>3, BeginLemma DEF Place
  <1> QED
    BY <1>1, <1>2, <1>3, <1>4, <1>5 DEF StartAny, Verifier

-----------------------------------------------------------------------------
(* A new code is made for the entry e.                                     *)
LEMMA PutLemma ==
    ASSUME IInv, NEW p \in Proc, NEW e \in Entry, NEW c \in Code, Put(p, e, c),
           req[p].op \in Putter, req[p].addr \in Address, e.addr.box = BoxOf(p),
           e.known => IsOf(e, users),
           UNCHANGED <<pending, cooldown, reset, users, mailed, given, sessions, spent>>,
           denied' \in SUBSET (Login \cup Address)
    PROVE  IInv'
  <1> DEFINE E == [e EXCEPT !.code = c]
             r == [req[p] EXCEPT !.pc = "gather", !.entry = E,
                                 !.todo = {"setPending", "setCooldown", "sendCode"}]
  <1>1. c \notin minted /\ minted' = minted \cup {c} /\ Become(p, r)
    BY DEF Put
  <1>2. /\ E \in Entry /\ E.code = c /\ E.addr = e.addr /\ E.known = e.known
        /\ E.login = e.login /\ E # None
    BY PendingAssumption DEF Entry
  <1>3. req[p] \in Request /\ Local(req[p])
    BY Known
  <1> HIDE DEF E
  <1>4. /\ r \in Request /\ r.pc = "gather" /\ r.op = req[p].op /\ r.addr = req[p].addr
        /\ r.entry = E /\ r.todo = {"setPending", "setCooldown", "sendCode"}
        /\ r.name = req[p].name /\ r.code = req[p].code /\ r.token = req[p].token
    BY <1>2, <1>3 DEF Request, Tasks
  <1> HIDE DEF r
  <1>5. Local(r)
    BY <1>2, <1>3, <1>4 DEF Local, Putter, Verifier, BoxOf
  <1>6. mailed[c] = None /\ c \notin spent
    BY <1>1 DEF IInv, Codes
  <1>7. \A b \in Box : pending[b] # None => pending[b].code # c
    BY <1>1 DEF IInv, Entries
  <1>8. Knows(r, pending, reset, users, mailed, minted', spent)
    BY <1>1, <1>2, <1>4, <1>6, <1>7
    DEF Knows, Putting, Storing, Checked, Deleted, Putter, Verifier, IsOf
  <1>9. \A q \in Proc \ {p} : Knows(req[q], pending, reset, users, mailed, minted', spent)
    BY <1>1, Known DEF Knows
  <1>10. ASSUME NEW q \in Proc \ {p} PROVE Apart(r, req[q]) /\ Apart(req[q], r)
    <2>1. Putting(req[q]) => req[q].entry.code # c
      BY <1>1, Known DEF Knows
    <2>2. Checked(req[q]) => req[q].code # c
      BY <1>6, Known DEF Knows, Checked
    <2>3. ~Checked(r)
      BY <1>4 DEF Checked, Putter, Verifier
    <2> QED
      BY <1>2, <1>4, <2>1, <2>2, <2>3 DEF Apart
  <1>11. Entries(pending, users, mailed, minted') /\ Codes(mailed, minted', spent)
    BY <1>1 DEF IInv, Entries, Codes
  <1>12. SpentCodeIsDead' /\ OnlyMailboxOwner' /\ Made(given', users', reset')
    BY DEF IInv, SpentCodeIsDead, OnlyMailboxOwner, Registered
  <1>13. TypeOK /\ minted' \in SUBSET Code
    BY <1>1 DEF IInv, TypeOK
  <1> QED
    BY <1>1, <1>4, <1>5, <1>8, <1>9, <1>10, <1>11, <1>12, <1>13, StepLemma DEF TypeOK

LEMMA BeforeGather ==
    ASSUME IInv, NEW p \in Proc
    PROVE  /\ cooldown \in SUBSET Box /\ denied \in SUBSET (Login \cup Address)
           /\ req[p] \in Request /\ Local(req[p])
    BY Known DEF IInv, TypeOK

LEMMA InitStep ==
    ASSUME IInv, NEW p \in Proc,
           CheckCooldown(p) \/ LookupLogin(p) \/ LookupEmail(p) \/ ResendRead(p)
    PROVE  IInv'
  <1> USE DEF redis, database, clients
  <1>0. req[p] \in Request /\ Local(req[p])
    BY Known
  <1>1. CASE CheckCooldown(p)
    <2>1. CASE Become(p, Idle)
      BY <1>1, <2>1, BeforeGather, EndLemma DEF CheckCooldown
    <2>2. CASE ~Become(p, Idle)
      <3> DEFINE l == IF req[p].op = "register" THEN "login" ELSE "read"
                 r == [req[p] EXCEPT !.pc = l]
      <3>1. Goto(p, l) /\ req[p].pc = "cooldown"
        BY <1>1, <2>2 DEF CheckCooldown, At
      <3>2. /\ r.pc = l /\ r.op = req[p].op /\ r.addr = req[p].addr /\ r.code = req[p].code
            /\ r.name = req[p].name /\ r.token = req[p].token
        BY <1>0 DEF Request
      <3>3. Local(r)
        <4> HIDE DEF r
        <4> QED
          BY <1>0, <3>1, <3>2 DEF Local
      <3> QED
        BY <1>1, <3>1, <3>3, BeforeGather, GotoLemma DEF CheckCooldown, Place
    <2> QED
      BY <2>1, <2>2
  <1>2. CASE LookupLogin(p)
    <2>0. req[p].pc = "login" /\ req[p].name \in Login /\ Lookup(req[p].name, req[p].name \in Registered)
      BY <1>0, <1>2 DEF LookupLogin, At, Local
    <2>1. denied' \in SUBSET (Login \cup Address)
      <3>1. denied \in SUBSET (Login \cup Address)
        BY BeforeGather
      <3> QED
        BY <2>0, <3>1 DEF Lookup
    <2>2. CASE Become(p, Idle)
      BY <1>2, <2>1, <2>2, BeforeGather, EndLemma DEF LookupLogin
    <2>3. CASE ~Become(p, Idle)
      <3> DEFINE r == [req[p] EXCEPT !.pc = "email"]
      <3>1. Goto(p, "email")
        BY <1>2, <2>3 DEF LookupLogin
      <3>2. /\ r.pc = "email" /\ r.op = req[p].op /\ r.addr = req[p].addr
            /\ r.code = req[p].code /\ r.name = req[p].name /\ r.token = req[p].token
        BY <1>0 DEF Request
      <3>3. Local(r)
        <4> HIDE DEF r
        <4> QED
          BY <1>0, <2>0, <3>2 DEF Local
      <3> QED
        BY <1>2, <2>0, <2>1, <3>1, <3>3, BeforeGather, GotoLemma DEF LookupLogin, Place
    <2> QED
      BY <2>2, <2>3
  <1>3. CASE LookupEmail(p)
    <2> DEFINE a == req[p].addr
    <2>0. /\ req[p].pc = "email" /\ req[p].op \in {"register", "reset"} /\ a \in Address
          /\ Lookup(a, Owners(a) # {})
          /\ UNCHANGED <<pending, cooldown, reset, users, mailed, given, sessions, spent>>
      BY <1>0, <1>3 DEF LookupEmail, At, Local, Putter
    <2>1. denied' \in SUBSET (Login \cup Address)
      <3>1. denied \in SUBSET (Login \cup Address)
        BY BeforeGather
      <3> HIDE DEF a
      <3> QED
        BY <2>0, <3>1 DEF Lookup
    <2>2. CASE Become(p, Idle) /\ UNCHANGED minted
      BY <2>0, <2>1, <2>2, BeforeGather, EndLemma
    <2>3. ASSUME NEW c \in Code, req[p].op = "register",
                 Put(p, [login |-> req[p].name, addr |-> a, known |-> FALSE, password |-> c,
                         code |-> c], c)
          PROVE  IInv'
      <3> DEFINE e == [login |-> req[p].name, addr |-> a, known |-> FALSE, password |-> c,
                       code |-> c]
      <3>1. e \in Entry /\ e.addr = a /\ ~e.known
        BY <1>0, <2>0, <2>3 DEF Entry, Local
      <3> HIDE DEF e
      <3> QED
        BY <2>0, <2>1, <2>3, <3>1, PutLemma DEF Putter, BoxOf, e
    <2>4. ASSUME NEW c \in Code, NEW l \in Owners(a), req[p].op = "reset",
                 Put(p, [login |-> l, addr |-> a, known |-> TRUE, password |-> None,
                         code |-> c], c)
          PROVE  IInv'
      <3> DEFINE e == [login |-> l, addr |-> a, known |-> TRUE, password |-> None, code |-> c]
      <3>1. l \in Login /\ users[l] # None /\ users[l].addr = a
        BY DEF Owners, Registered
      <3>2. e \in Entry /\ e.addr = a /\ e.login = l
        BY <2>0, <3>1 DEF Entry
      <3>3. IsOf(e, users)
        BY <3>1, <3>2 DEF IsOf
      <3> HIDE DEF e
      <3> QED
        BY <2>0, <2>1, <2>4, <3>2, <3>3, PutLemma DEF Putter, BoxOf, e
    <2> QED
      BY <1>3, <2>0, <2>2, <2>3, <2>4 DEF LookupEmail
  <1>4. CASE ResendRead(p)
    <2> DEFINE e == pending[BoxOf(p)]
    <2>0. req[p].pc = "read" /\ req[p].op = "resend" /\ req[p].addr \in Address
      BY <1>0, <1>4 DEF ResendRead, At, Local, Putter
    <2>1. CASE e = None
      BY <1>4, <2>1, BeforeGather, EndLemma DEF ResendRead
    <2>2. CASE e # None
      <3>1. BoxOf(p) \in Box
        BY <2>0 DEF BoxOf, Address
      <3>2. e \in Entry /\ e.addr.box = BoxOf(p) /\ (e.known => IsOf(e, users))
        BY <2>2, <3>1 DEF IInv, TypeOK, Entries
      <3>3. PICK c \in Code : Put(p, e, c)
        BY <1>4, <2>2 DEF ResendRead
      <3> HIDE DEF e
      <3> QED
        BY <1>4, <2>0, <3>2, <3>3, BeforeGather, PutLemma DEF ResendRead, Putter
    <2> QED
      BY <2>1, <2>2
  <1> QED
    BY <1>1, <1>2, <1>3, <1>4

-----------------------------------------------------------------------------
(* A task x of a gather is done.                                           *)
LEMMA DidType ==
    ASSUME IInv, NEW p \in Proc, NEW x \in Tasks, Task(p, x)
    PROVE  LET r == [req[p] EXCEPT !.todo = @ \ {x}]
           IN  /\ r \in Request /\ Local(r) /\ r.pc = "gather" /\ req[p].pc = "gather"
               /\ r.op = req[p].op /\ r.entry = req[p].entry /\ r.addr = req[p].addr
               /\ r.code = req[p].code /\ r.token = req[p].token /\ r.name = req[p].name
               /\ r.todo = req[p].todo \ {x} /\ x \in req[p].todo
               /\ r.entry \in Entry /\ r.entry.addr.box = r.addr.box /\ r.addr \in Address
               /\ r.op \in Putter \cup Verifier
  <1> DEFINE r == [req[p] EXCEPT !.todo = @ \ {x}]
  <1>1. req[p] \in Request /\ Local(req[p])
    BY Known
  <1>2. /\ r \in Request /\ r.pc = req[p].pc /\ r.op = req[p].op
        /\ r.entry = req[p].entry /\ r.addr = req[p].addr /\ r.code = req[p].code
        /\ r.token = req[p].token /\ r.name = req[p].name /\ r.todo = req[p].todo \ {x}
    BY <1>1 DEF Request
  <1>3. req[p].pc = "gather" /\ x \in req[p].todo
    BY DEF Task, At
  <1> HIDE DEF r
  <1>4. Local(r)
    BY <1>1, <1>2, <1>3 DEF Local
  <1>5. r.entry \in Entry /\ r.entry.addr.box = r.addr.box /\ r.addr \in Address
        /\ r.op \in Putter \cup Verifier
    BY <1>2, <1>3, <1>4 DEF Local
  <1> QED
    BY <1>2, <1>3, <1>4, <1>5 DEF r

(* What it knew it still knows, but for what it has yet to do.             *)
LEMMA SetPendingStep ==
    ASSUME IInv, NEW p \in Proc, SetPending(p)
    PROVE  IInv'
  <1> DEFINE r == [req[p] EXCEPT !.todo = @ \ {"setPending"}]
             e == req[p].entry
             b == req[p].addr.box
  <1>1. /\ r \in Request /\ Local(r) /\ r.pc = "gather" /\ req[p].pc = "gather"
        /\ r.op = req[p].op /\ r.entry = e /\ r.addr = req[p].addr /\ r.op \in Putter
        /\ "setPending" \in req[p].todo /\ "setPending" \notin r.todo
        /\ e \in Entry /\ e.addr.box = b /\ b \in Box
    <2>1. Task(p, "setPending")
      BY DEF SetPending
    <2>2. /\ r \in Request /\ Local(r) /\ r.pc = "gather" /\ req[p].pc = "gather"
          /\ r.op = req[p].op /\ r.entry = e /\ r.addr = req[p].addr
          /\ "setPending" \in req[p].todo /\ r.todo = req[p].todo \ {"setPending"}
          /\ r.entry \in Entry /\ r.entry.addr.box = r.addr.box /\ r.addr \in Address
      BY <2>1, DidType DEF Tasks
    <2>3. Local(req[p])
      BY Known
    <2> HIDE DEF r
    <2>4. r.op \in Putter
      BY <2>2, <2>3 DEF Local
    <2> QED
      BY <2>2, <2>4 DEF Address
  <1>2. /\ Become(p, r) /\ pending' = [pending EXCEPT ![b] = e]
        /\ UNCHANGED <<cooldown, reset, users, denied, mailed, minted, given, sessions, spent>>
    BY DEF SetPending, Did, BoxOf, database, clients
  <1>3. TypeOK /\ pending \in [Box -> Entry \cup {None}]
    BY DEF IInv, TypeOK
  <1>4. pending'[b] = e /\ e # None /\ \A a \in Box \ {b} : pending'[a] = pending[a]
    BY <1>1, <1>2, <1>3, PendingAssumption
  <1> HIDE DEF r, e, b
  <1>5. /\ Putting(req[p]) /\ Storing(req[p]) /\ Putting(r) /\ ~Storing(r) /\ ~Checked(r)
    BY <1>1 DEF Putting, Storing, Checked, Putter, Verifier
  <1>6. /\ e.known => IsOf(e, users)
        /\ e.code \in minted /\ mailed[e.code] \in {None, b} /\ e.code \notin spent
        /\ \A a \in Box : pending[a] # None => pending[a].code # e.code
    BY <1>1, <1>4, <1>5, Known DEF Knows, e, b
  <1>7. Knows(r, pending', reset, users, mailed, minted, spent)
    BY <1>1, <1>4, <1>5, <1>6 DEF Knows, Deleted, b, Putter, Verifier
  <1>8. ASSUME NEW q \in Proc \ {p}
        PROVE  /\ Knows(req[q], pending', reset, users, mailed, minted, spent)
               /\ Apart(r, req[q]) /\ Apart(req[q], r)
    <2>1. /\ Knows(req[q], pending, reset, users, mailed, minted, spent)
          /\ Apart(req[p], req[q]) /\ Apart(req[q], req[p])
      BY Known
    <2>2. Putting(req[q]) => req[q].entry.code # e.code
      BY <1>5, <2>1 DEF Apart, e
    <2>3. Checked(req[q]) => req[q].code # e.code
      BY <1>5, <2>1 DEF Apart, e
    <2>4. Knows(req[q], pending', reset, users, mailed, minted, spent)
      BY <1>4, <2>1, <2>2, <2>3 DEF Knows, Storing, Deleted
    <2> QED
      BY <1>1, <1>5, <2>1, <2>4 DEF Apart, e
  <1>9. Entries(pending', users, mailed, minted)
    BY <1>1, <1>4, <1>6 DEF IInv, Entries
  <1>10. SpentCodeIsDead'
    BY <1>2, <1>4, <1>6 DEF IInv, SpentCodeIsDead
  <1>11. OnlyMailboxOwner' /\ Codes(mailed, minted, spent) /\ Made(given', users', reset')
    BY <1>2 DEF IInv, OnlyMailboxOwner, Registered
  <1>12. pending' \in [Box -> Entry \cup {None}]
    BY <1>1, <1>2, <1>3
  <1> QED
    BY <1>1, <1>2, <1>3, <1>7, <1>8, <1>9, <1>10, <1>11, <1>12, StepLemma DEF TypeOK

LEMMA SendCodeStep ==
    ASSUME IInv, NEW p \in Proc, SendCode(p)
    PROVE  IInv'
  <1> DEFINE r == [req[p] EXCEPT !.todo = @ \ {"sendCode"}]
             e == req[p].entry
             b == req[p].addr.box
  <1>1. /\ r \in Request /\ Local(r) /\ r.pc = "gather" /\ req[p].pc = "gather"
        /\ r.op = req[p].op /\ r.entry = e /\ r.addr = req[p].addr /\ r.op \in Putter
        /\ r.todo = req[p].todo \ {"sendCode"}
        /\ e \in Entry /\ e.addr.box = b /\ b \in Box
    <2>1. Task(p, "sendCode")
      BY DEF SendCode
    <2>2. Local(req[p])
      BY Known
    <2> QED
      BY <2>1, <2>2, DidType DEF Tasks, Local, Address
  <1>2. /\ Become(p, r) /\ mailed' = [mailed EXCEPT ![e.code] = b]
        /\ UNCHANGED <<pending, cooldown, reset, users, denied, minted, given, sessions, spent>>
    BY <1>1 DEF SendCode, Did, redis, database
  <1>3. TypeOK /\ mailed \in [Code -> Box \cup {None}] /\ e.code \in Code
    BY <1>1 DEF IInv, TypeOK, Entry
  <1>4. mailed'[e.code] = b /\ b # None /\ \A c \in Code \ {e.code} : mailed'[c] = mailed[c]
    BY <1>1, <1>2, <1>3, PendingAssumption
  <1> HIDE DEF r, e, b
  <1>5. Putting(req[p]) /\ Putting(r) /\ (Storing(r) => Storing(req[p])) /\ ~Checked(r)
    BY <1>1 DEF Putting, Storing, Checked, Putter, Verifier
  <1>6. /\ e.code \in minted /\ mailed[e.code] \in {None, b}
        /\ \A a \in Box : pending[a] # None /\ pending[a].code = e.code => a = b
    BY <1>5, Known DEF Knows, e, b
  <1>7. \A c \in Code : mailed[c] # None => mailed'[c] = mailed[c]
    BY <1>4, <1>6
  <1>8. Knows(r, pending, reset, users, mailed', minted, spent)
    <2>1. Knows(req[p], pending, reset, users, mailed, minted, spent)
      BY Known
    <2> QED
      BY <1>1, <1>4, <1>5, <2>1 DEF Knows, Deleted, e, b, Putter, Verifier
  <1>9. ASSUME NEW q \in Proc \ {p}
        PROVE  /\ Knows(req[q], pending, reset, users, mailed', minted, spent)
               /\ Apart(r, req[q]) /\ Apart(req[q], r)
    <2>1. /\ Knows(req[q], pending, reset, users, mailed, minted, spent)
          /\ Apart(req[p], req[q]) /\ Apart(req[q], req[p])
          /\ Local(req[q])
      BY Known
    <2>2. Putting(req[q]) => req[q].entry.code # e.code /\ req[q].entry.code \in Code
      BY <1>5, <2>1 DEF Apart, Putting, Local, Entry, e
    <2>3. req[q].op \in Verifier => req[q].code \in Code
      BY <2>1 DEF Local
    <2>4. req[q].op \in Verifier => mailed'[req[q].code] = mailed[req[q].code]
      BY <1>7, <2>1, <2>3 DEF Knows
    <2>5. Putting(req[q]) => mailed'[req[q].entry.code] = mailed[req[q].entry.code]
      BY <1>4, <2>2
    <2>6. Knows(req[q], pending, reset, users, mailed', minted, spent)
      BY <2>1, <2>4, <2>5 DEF Knows, Checked
    <2> QED
      BY <1>1, <1>5, <2>1, <2>6 DEF Apart, e
  <1>10. Entries(pending, users, mailed', minted)
    <2> SUFFICES ASSUME NEW a \in Box, pending[a] # None
                 PROVE  mailed'[pending[a].code] \in {None, a}
      BY DEF IInv, Entries
    <2>1. pending[a].code \in Code /\ mailed[pending[a].code] \in {None, a}
      BY DEF IInv, Entries, TypeOK, Entry
    <2> QED
      BY <1>4, <1>6, <2>1
  <1>11. Codes(mailed', minted, spent)
    BY <1>3, <1>4, <1>6, <1>7 DEF IInv, Codes, TypeOK
  <1>12. OnlyMailboxOwner'
    <2>1. ASSUME NEW l \in Registered PROVE mailed[users[l].by] # None /\ users[l].by \in Code
      <3>1. users[l] \in Account
        BY DEF IInv, TypeOK, Registered
      <3> QED
        BY <3>1, PendingAssumption DEF IInv, OnlyMailboxOwner, Account, Address
    <2>2. ASSUME NEW t \in Token, reset[t] # None
          PROVE  mailed[reset[t].by] # None /\ reset[t].by \in Code
      <3>1. reset[t] \in ResetToken /\ reset[t].login \in Registered
        BY <2>2 DEF IInv, TypeOK, OnlyMailboxOwner
      <3>2. users[reset[t].login] \in Account
        BY <3>1 DEF IInv, TypeOK, Registered
      <3> QED
        BY <2>2, <3>1, <3>2, PendingAssumption
        DEF IInv, OnlyMailboxOwner, ResetToken, Account, Address
    <2> QED
      BY <1>2, <1>7, <2>1, <2>2 DEF IInv, OnlyMailboxOwner, Registered
  <1>13. SpentCodeIsDead' /\ Made(given', users', reset')
    BY <1>2 DEF IInv, SpentCodeIsDead
  <1>14. mailed' \in [Code -> Box \cup {None}]
    BY <1>1, <1>2, <1>3
  <1> QED
    BY <1>1, <1>2, <1>3, <1>8, <1>9, <1>10, <1>11, <1>12, <1>13, <1>14, StepLemma DEF TypeOK

LEMMA DeletePendingStep ==
    ASSUME IInv, NEW p \in Proc, DeletePending(p)
    PROVE  IInv'
  <1> DEFINE r == [req[p] EXCEPT !.todo = @ \ {"deletePending"}]
             b == req[p].addr.box
  <1>1. /\ r \in Request /\ Local(r) /\ r.pc = "gather" /\ req[p].pc = "gather"
        /\ r.op = req[p].op /\ r.entry = req[p].entry /\ r.addr = req[p].addr
        /\ r.code = req[p].code /\ r.token = req[p].token /\ r.op \in Verifier /\ b \in Box
    <2>1. Task(p, "deletePending")
      BY DEF DeletePending
    <2>2. Local(req[p])
      BY Known
    <2> QED
      BY <2>1, <2>2, DidType DEF Tasks, Local, Address
  <1>2. /\ Become(p, r) /\ pending' = [pending EXCEPT ![b] = None]
        /\ UNCHANGED <<cooldown, reset, users, denied, mailed, minted, given, sessions, spent>>
    BY DEF DeletePending, Did, BoxOf, database, clients
  <1>3. TypeOK /\ pending \in [Box -> Entry \cup {None}]
    BY DEF IInv, TypeOK
  <1>4. pending'[b] = None /\ \A a \in Box \ {b} : pending'[a] = pending[a]
    BY <1>1, <1>2, <1>3
  <1> HIDE DEF r, b
  <1>5. ~Putting(r) /\ ~Storing(r) /\ Checked(r) /\ Checked(req[p])
    BY <1>1 DEF Putting, Storing, Checked, Putter, Verifier
  <1>6. mailed[r.code] = b /\ r.code \in Code /\ b # None
    BY <1>1, <1>5, Known, PendingAssumption DEF Knows, Local, b
  <1>7. \A a \in Box : pending'[a] # None => pending'[a].code # r.code
    BY <1>4, <1>6 DEF IInv, Entries
  <1>8. Knows(r, pending', reset, users, mailed, minted, spent)
    <2>1. Knows(req[p], pending, reset, users, mailed, minted, spent)
      BY Known
    <2> QED
      BY <1>1, <1>5, <1>7, <2>1 DEF Knows, Deleted, Verifier
  <1>9. ASSUME NEW q \in Proc \ {p}
        PROVE  /\ Knows(req[q], pending', reset, users, mailed, minted, spent)
               /\ Apart(r, req[q]) /\ Apart(req[q], r)
    <2>1. /\ Knows(req[q], pending, reset, users, mailed, minted, spent)
          /\ Apart(req[p], req[q]) /\ Apart(req[q], req[p])
      BY Known
    <2>2. Knows(req[q], pending', reset, users, mailed, minted, spent)
      BY <1>4, <2>1 DEF Knows
    <2> QED
      BY <1>1, <1>5, <2>1, <2>2 DEF Apart
  <1>10. Entries(pending', users, mailed, minted) /\ SpentCodeIsDead'
    BY <1>2, <1>4 DEF IInv, Entries, SpentCodeIsDead
  <1>11. OnlyMailboxOwner' /\ Codes(mailed, minted, spent) /\ Made(given', users', reset')
    BY <1>2 DEF IInv, OnlyMailboxOwner, Registered
  <1>12. pending' \in [Box -> Entry \cup {None}]
    BY <1>2, <1>3
  <1> QED
    BY <1>1, <1>2, <1>3, <1>8, <1>9, <1>10, <1>11, <1>12, StepLemma DEF TypeOK

(* A reset token is stored, loses its key, or is made: the others of R     *)
(* stay as they are, and none changes its account.                         *)
LEMMA ResetLemma ==
    ASSUME IInv, NEW p \in Proc, NEW r \in Request, Become(p, r), Local(r),
           UNCHANGED <<pending, cooldown, users, denied, mailed, minted, given, spent>>,
           reset' \in [Token -> ResetToken \cup {None}],
           sessions' \in SUBSET sessions,
           \A t \in Token : reset[t] # None =>
              /\ reset'[t] # None
              /\ reset'[t].login = reset[t].login /\ reset'[t].by = reset[t].by,
           \A t \in Token : reset[t] = None /\ reset'[t] # None =>
              /\ reset'[t].login \in Registered
              /\ mailed[reset'[t].by] = users[reset'[t].login].addr.box,
           Knows(r, pending, reset', users, mailed, minted, spent),
           \A q \in Proc \ {p} : Apart(r, req[q]) /\ Apart(req[q], r)
    PROVE  IInv'
  <1>1. ASSUME NEW q \in Proc \ {p}
        PROVE  Knows(req[q], pending, reset', users, mailed, minted, spent)
    <2>1. Knows(req[q], pending, reset, users, mailed, minted, spent) /\ Local(req[q])
      BY Known
    <2>2. /\ req[q].op = "finalize" => req[q].token \in Token
          /\ req[q].op = "resetVerify" /\ req[q].pc = "gather" => req[q].token \in Token
      BY <2>1 DEF Local
    <2> QED
      BY <2>1, <2>2 DEF Knows
  <1>2. /\ given \in SUBSET Token /\ TypeOK
        /\ \A l \in Login : users[l] \in Account \cup {None}
    BY DEF IInv, TypeOK
  <1>3. Made(given', users', reset')
    BY <1>2 DEF IInv, Made
  <1>4. OnlyMailboxOwner'
    <2>1. ASSUME NEW l \in Registered, users[l].password \in Token
          PROVE  reset'[users[l].password].login = l
      <3>1. reset[users[l].password] # None /\ reset[users[l].password].login = l
        BY <2>1 DEF IInv, OnlyMailboxOwner, Made, Registered
      <3> QED
        BY <2>1, <3>1
    <2>2. ASSUME NEW t \in Token, reset'[t] # None
          PROVE  /\ reset'[t].login \in Registered
                 /\ mailed[reset'[t].by] = users[reset'[t].login].addr.box
      BY <2>2 DEF IInv, OnlyMailboxOwner
    <2> QED
      BY <2>1, <2>2 DEF IInv, OnlyMailboxOwner, Registered
  <1>5. SpentCodeIsDead'
    BY DEF IInv, SpentCodeIsDead
  <1> QED
    BY <1>1, <1>2, <1>3, <1>4, <1>5, StepLemma DEF IInv, TypeOK

LEMMA StoreTokenStep ==
    ASSUME IInv, NEW p \in Proc, StoreToken(p)
    PROVE  IInv'
  <1> DEFINE r == [req[p] EXCEPT !.todo = @ \ {"storeToken"}]
             t == req[p].token
  <1>1. /\ r \in Request /\ Local(r) /\ r.pc = "gather" /\ req[p].pc = "gather"
        /\ r.op = req[p].op /\ r.entry = req[p].entry /\ r.addr = req[p].addr
        /\ r.code = req[p].code /\ r.token = t /\ r.todo = req[p].todo \ {"storeToken"}
        /\ "storeToken" \in req[p].todo
    <2>1. Task(p, "storeToken")
      BY DEF StoreToken
    <2> QED
      BY <2>1, DidType DEF Tasks
  <1>2. /\ Become(p, r) /\ reset' = [reset EXCEPT ![t].live = TRUE]
        /\ UNCHANGED <<pending, cooldown, users, denied, mailed, minted, given, sessions, spent>>
    BY DEF StoreToken, Did, database, clients
  <1>3. Local(req[p])
    BY Known
  <1> HIDE DEF r
  <1>4. r.op = "resetVerify" /\ t \in Token /\ reset[t] # None
    BY <1>1, <1>3, Known DEF Local, Knows
  <1>5. reset \in [Token -> ResetToken \cup {None}] /\ reset[t] \in ResetToken
    BY <1>4 DEF IInv, TypeOK
  <1>6. /\ [reset[t] EXCEPT !.live = TRUE] \in ResetToken
        /\ [reset[t] EXCEPT !.live = TRUE].login = reset[t].login
        /\ [reset[t] EXCEPT !.live = TRUE].by = reset[t].by
    BY <1>5 DEF ResetToken
  <1>7. /\ reset' \in [Token -> ResetToken \cup {None}]
        /\ reset'[t] = [reset[t] EXCEPT !.live = TRUE] /\ reset'[t] # None
        /\ \A u \in Token \ {t} : reset'[u] = reset[u]
    BY <1>2, <1>4, <1>5, <1>6, PendingAssumption
  <1>8. /\ \A u \in Token : reset[u] # None =>
              /\ reset'[u] # None
              /\ reset'[u].login = reset[u].login /\ reset'[u].by = reset[u].by
        /\ \A u \in Token : reset[u] = None => reset'[u] = None
    BY <1>4, <1>6, <1>7
  <1>9. Knows(r, pending, reset', users, mailed, minted, spent)
    <2>1. Knows(req[p], pending, reset, users, mailed, minted, spent)
      BY Known
    <2> QED
      BY <1>1, <1>4, <1>7, <2>1
      DEF Knows, Putting, Storing, Checked, Deleted, Putter, Verifier
  <1>10. \A q \in Proc \ {p} : Apart(r, req[q]) /\ Apart(req[q], r)
    BY <1>1, <1>4, Known DEF Apart, Putting, Storing, Checked, Putter, Verifier
  <1>11. sessions' \in SUBSET sessions
    BY <1>2
  <1> HIDE DEF t
  <1> QED
    BY <1>1, <1>2, <1>7, <1>8, <1>9, <1>10, <1>11, ResetLemma

LEMMA TaskStep ==
    ASSUME IInv, NEW p \in Proc,
           SetCooldown(p) \/ CreateUser(p) \/ SendWelcome(p) \/ MailFails(p)
    PROVE  IInv'
  <1> USE DEF redis, database, clients
  <1>0. TypeOK /\ cooldown \in SUBSET Box /\ denied \in SUBSET (Login \cup Address)
    BY DEF IInv, TypeOK
  <1>1. CASE SetCooldown(p)
    <2>1. BoxOf(p) \in Box
      BY <1>1, DidType DEF SetCooldown, Tasks, BoxOf, Address
    <2>2. cooldown' \in SUBSET Box
      BY <1>0, <1>1, <2>1 DEF SetCooldown
    <2> QED
      BY <1>0, <1>1, <2>2, DidLemma, TaskLemma DEF SetCooldown, Tasks
  <1>2. CASE CreateUser(p)
    BY <1>0, <1>2, DidLemma, TaskLemma DEF CreateUser, Tasks
  <1>3. CASE SendWelcome(p)
    BY <1>0, <1>3, DidLemma, TaskLemma DEF SendWelcome, Tasks
  <1>4. CASE MailFails(p)
    BY <1>0, <1>4, TaskLemma DEF MailFails, Tasks
  <1> QED
    BY <1>1, <1>2, <1>3, <1>4

(* The answer of a verification makes its code spent: no entry holds it,   *)
(* and no request will store it.                                           *)
LEMMA AnswerStep ==
    ASSUME IInv, NEW p \in Proc, Answer(p)
    PROVE  IInv'
  <1> DEFINE g == [req[p] EXCEPT !.pc = "commit"]
             r == IF req[p].op = "verify" /\ ~req[p].failed THEN g ELSE Idle
             c == req[p].code
  <1>0. /\ req[p] \in Request /\ Local(req[p])
        /\ Knows(req[p], pending, reset, users, mailed, minted, spent)
        /\ req[p].pc = "gather" /\ req[p].todo = {}
    BY Known DEF Answer, At
  <1>1. /\ g \in Request /\ g.pc = "commit" /\ g.op = req[p].op /\ g.entry = req[p].entry
        /\ g.addr = req[p].addr /\ g.code = c
        /\ g.name = req[p].name /\ g.token = req[p].token
    BY <1>0 DEF Request
  <1>2. /\ Become(p, r)
        /\ UNCHANGED <<pending, cooldown, reset, users, denied, mailed, minted, sessions>>
    BY DEF Answer, Goto, redis, database
  <1> HIDE DEF g
  <1>3. req[p].op = "verify" =>
          /\ Local(g) /\ Checked(g) /\ ~Putting(g) /\ ~Storing(g) /\ ~Deleted(g)
          /\ Checked(req[p])
    BY <1>0, <1>1
    DEF Local, Putting, Storing, Checked, Deleted, Putter, Verifier
  <1>4. r \in Request /\ Local(r)
    BY <1>1, <1>3, IdleLemma
  <1>5. \/ UNCHANGED spent
        \/ /\ req[p].op \in Verifier /\ spent' = spent \cup {c}
           /\ Checked(req[p]) /\ Deleted(req[p]) /\ c \in Code
    BY <1>0 DEF Answer, Verifier, Checked, Deleted, Local
  <1>6. /\ spent' \in SUBSET Code
        /\ Codes(mailed, minted, spent')
        /\ SpentCodeIsDead'
    <2>1. spent \in SUBSET Code
      BY DEF IInv, TypeOK
    <2> QED
      BY <1>0, <1>2, <1>5, <2>1 DEF IInv, Codes, SpentCodeIsDead, Knows
  <1>7. ASSUME NEW q \in Proc \ {p}
        PROVE  /\ Knows(req[q], pending, reset, users, mailed, minted, spent')
               /\ Apart(r, req[q]) /\ Apart(req[q], r)
    <2>1. /\ Knows(req[q], pending, reset, users, mailed, minted, spent)
          /\ Apart(req[p], req[q]) /\ Apart(req[q], req[p])
      BY Known
    <2>2. Storing(req[q]) /\ Checked(req[p]) => req[q].entry.code # c
      BY <2>1 DEF Apart
    <2>3. Knows(req[q], pending, reset, users, mailed, minted, spent')
      BY <1>5, <2>1, <2>2 DEF Knows
    <2>4. CASE r = Idle
      BY <2>3, <2>4, IdleLemma
    <2>5. CASE r = g /\ req[p].op = "verify"
      BY <1>1, <1>3, <2>1, <2>3, <2>5 DEF Apart
    <2> QED
      BY <2>4, <2>5
  <1>8. Knows(r, pending, reset, users, mailed, minted, spent')
    <2>1. req[p].op = "verify" => Knows(g, pending, reset, users, mailed, minted, spent')
      BY <1>0, <1>1, <1>3 DEF Knows, Verifier
    <2> QED
      BY <2>1, IdleLemma
  <1>9. given' \in SUBSET Token /\ Made(given', users, reset)
    <2>1. given \in SUBSET Token /\ Made(given, users, reset)
      BY DEF IInv, TypeOK
    <2>2. req[p].op = "resetVerify" => req[p].token \in Token /\ reset[req[p].token] # None
      BY <1>0 DEF Local, Knows
    <2> QED
      BY <2>1, <2>2 DEF Answer, Made
  <1>10. OnlyMailboxOwner' /\ Entries(pending, users, mailed, minted) /\ TypeOK
    BY <1>2 DEF IInv, OnlyMailboxOwner, Registered
  <1> HIDE DEF r
  <1> QED
    BY <1>2, <1>4, <1>6, <1>7, <1>8, <1>9, <1>10, StepLemma DEF TypeOK

-----------------------------------------------------------------------------
(* Verifications.                                                          *)

LEMMA ValidateStep ==
    ASSUME IInv, NEW p \in Proc, ValidateCode(p)
    PROVE  IInv'
  <1> USE DEF redis, database, clients
  <1> DEFINE r == [req[p] EXCEPT !.pc = "again"]
             b == BoxOf(p)
  <1>0. /\ req[p] \in Request /\ Local(req[p]) /\ req[p].pc = "validate"
        /\ Knows(req[p], pending, reset, users, mailed, minted, spent)
        /\ cooldown \in SUBSET Box /\ denied \in SUBSET (Login \cup Address)
    BY Known DEF ValidateCode, At, IInv, TypeOK
  <1>1. CASE Become(p, Idle)
    BY <1>0, <1>1, EndLemma DEF ValidateCode
  <1>2. CASE ~Become(p, Idle)
    <2>1. pending[b] # None /\ pending[b].code = req[p].code /\ Become(p, r)
      BY <1>2 DEF ValidateCode, Goto
    <2>2. /\ r \in Request /\ r.pc = "again" /\ r.op = req[p].op /\ r.entry = req[p].entry
          /\ r.addr = req[p].addr /\ r.code = req[p].code
          /\ r.name = req[p].name /\ r.token = req[p].token
      BY <1>0 DEF Request
    <2>3. req[p].op \in Verifier /\ b \in Box /\ b = req[p].addr.box
      BY <1>0 DEF Local, BoxOf, Address
    <2> HIDE DEF r, b
    <2>4. mailed[r.code] = b /\ mailed[r.code] # None
      BY <1>0, <2>1, <2>2, <2>3 DEF IInv, Entries, Knows
    <2>5. Local(r)
      BY <1>0, <2>2, <2>3 DEF Local
    <2>6. ~Putting(r) /\ ~Storing(r) /\ ~Deleted(r)
      BY <2>2 DEF Putting, Storing, Deleted
    <2>7. Knows(r, pending, reset, users, mailed, minted, spent)
      BY <1>0, <2>2, <2>3, <2>4, <2>6 DEF Knows, Verifier
    <2>8. \A q \in Proc \ {p} : Apart(r, req[q]) /\ Apart(req[q], r)
      <3>1. \A q \in Proc \ {p} : Storing(req[q]) => req[q].entry.code # r.code
        BY <2>1, <2>2, <2>3, Known DEF Knows
      <3> QED
        BY <2>6, <3>1 DEF Apart
    <2> QED
      BY <1>0, <2>1, <2>2, <2>5, <2>7, <2>8, QuietLemma DEF ValidateCode
  <1> QED
    BY <1>1, <1>2

LEMMA GetPendingStep ==
    ASSUME IInv, NEW p \in Proc, GetPending(p)
    PROVE  IInv'
  <1> USE DEF redis, database, clients
  <1> DEFINE e == pending[BoxOf(p)]
             l == IF req[p].op = "verify" THEN "taken" ELSE "wipe"
             r == [req[p] EXCEPT !.entry = e, !.pc = l]
  <1>0. /\ req[p] \in Request /\ Local(req[p]) /\ req[p].pc = "again"
        /\ Knows(req[p], pending, reset, users, mailed, minted, spent)
        /\ cooldown \in SUBSET Box /\ denied \in SUBSET (Login \cup Address)
    BY Known DEF GetPending, At, IInv, TypeOK
  <1>1. CASE Become(p, Idle)
    BY <1>0, <1>1, EndLemma DEF GetPending
  <1>2. CASE ~Become(p, Idle)
    <2>1. e # None /\ Become(p, r) /\ (req[p].op = "resetVerify" => e.known)
      BY <1>2 DEF GetPending
    <2>2. req[p].op \in Verifier /\ BoxOf(p) \in Box /\ BoxOf(p) = req[p].addr.box
      BY <1>0 DEF Local, BoxOf, Address
    <2>3. e \in Entry /\ e.addr.box = BoxOf(p) /\ (e.known => IsOf(e, users))
      BY <2>1, <2>2 DEF IInv, TypeOK, Entries
    <2> HIDE DEF e
    <2>4. /\ r \in Request /\ r.pc = l /\ r.op = req[p].op /\ r.entry = e
          /\ r.addr = req[p].addr /\ r.code = req[p].code
          /\ r.name = req[p].name /\ r.token = req[p].token
      BY <1>0, <2>3 DEF Request
    <2> HIDE DEF r
    <2>5. Local(r)
      BY <1>0, <2>1, <2>2, <2>3, <2>4 DEF Local, Verifier
    <2>6. ~Putting(r) /\ ~Storing(r) /\ ~Deleted(r) /\ Checked(r) /\ Checked(req[p])
      BY <1>0, <2>2, <2>4 DEF Putting, Storing, Deleted, Checked
    <2>7. Knows(r, pending, reset, users, mailed, minted, spent)
      BY <1>0, <2>2, <2>3, <2>4, <2>6 DEF Knows, Verifier
    <2>8. \A q \in Proc \ {p} : Apart(r, req[q]) /\ Apart(req[q], r)
      BY <2>4, <2>6, Known DEF Apart
    <2> QED
      BY <1>0, <2>1, <2>4, <2>5, <2>7, <2>8, QuietLemma DEF GetPending
  <1> QED
    BY <1>1, <1>2

LEMMA CheckTakenStep ==
    ASSUME IInv, NEW p \in Proc, CheckTaken(p)
    PROVE  IInv'
  <1> USE DEF redis, clients
  <1> DEFINE n == [req[p] EXCEPT !.pc = "noPassword"]
             todo == {"createUser", "deletePending", "sendWelcome"}
             r == [req[p] EXCEPT !.pc = "gather", !.todo = todo]
  <1>0. /\ req[p] \in Request /\ Local(req[p]) /\ req[p].pc = "taken"
        /\ cooldown \in SUBSET Box /\ denied \in SUBSET (Login \cup Address)
    BY Known DEF CheckTaken, At, IInv, TypeOK
  <1>1. req[p].op = "verify" /\ req[p].entry \in Entry /\ req[p].entry.login \in Login
    BY <1>0 DEF Local, Entry
  <1>2. denied' \in SUBSET (Login \cup Address)
    BY <1>0, <1>1 DEF CheckTaken, Lookup
  <1>3. CASE Become(p, Idle)
    BY <1>0, <1>2, <1>3, EndLemma DEF CheckTaken
  <1>4. CASE Goto(p, "noPassword")
    <2>1. /\ n.pc = "noPassword" /\ n.op = req[p].op /\ n.entry = req[p].entry
          /\ n.addr = req[p].addr /\ n.code = req[p].code
          /\ n.name = req[p].name /\ n.token = req[p].token
      BY <1>0 DEF Request
    <2>2. Local(n)
      <3> HIDE DEF n
      <3> QED
        BY <1>0, <2>1 DEF Local
    <2> QED
      BY <1>0, <1>2, <1>4, <2>2, GotoLemma DEF CheckTaken, Place
  <1>5. CASE Become(p, r) /\ req[p].entry.password # None
    <2>1. /\ r \in Request /\ r.pc = "gather" /\ r.op = req[p].op /\ r.entry = req[p].entry
          /\ r.addr = req[p].addr /\ r.code = req[p].code /\ r.todo = todo
          /\ r.name = req[p].name /\ r.token = req[p].token
      BY <1>0 DEF Request, Tasks
    <2> HIDE DEF r
    <2>2. req[p].entry.password \in Code
      BY <1>1, <1>5 DEF Entry
    <2>3. Local(r)
      BY <1>0, <1>1, <2>1, <2>2 DEF Local, Verifier
    <2>4. ~Putting(r) /\ ~Storing(r) /\ ~Deleted(r) /\ Checked(req[p])
      BY <1>0, <1>1, <2>1 DEF Putting, Storing, Deleted, Checked, Putter, Verifier
    <2> QED
      BY <1>0, <1>1, <1>2, <1>5, <2>1, <2>3, <2>4, GoLemma DEF CheckTaken
  <1> QED
    BY <1>3, <1>4, <1>5 DEF CheckTaken

-----------------------------------------------------------------------------
(* Users are written: none is removed and none changes its address.        *)
LEMMA UsersLemma ==
    ASSUME IInv, NEW p \in Proc, Become(p, Idle),
           UNCHANGED <<pending, cooldown, reset, denied, mailed, minted, given, sessions, spent>>,
           NEW l \in Login, NEW a \in Account, users' = [users EXCEPT ![l] = a],
           users[l] # None => a.addr = users[l].addr,
           mailed[a.by] = a.addr.box,
           a.password \in Token => reset[a.password] # None /\ reset[a.password].login = l
    PROVE  IInv'
  <1>1. TypeOK /\ users \in [Login -> Account \cup {None}]
    BY DEF IInv, TypeOK
  <1>2. /\ users' \in [Login -> Account \cup {None}] /\ users'[l] = a /\ a # None
        /\ \A k \in Login \ {l} : users'[k] = users[k]
    BY <1>1, PendingAssumption
  <1>3. \A k \in Login : users[k] # None => users'[k] # None /\ users'[k].addr = users[k].addr
    BY <1>2
  <1>4. \A e \in Entry : IsOf(e, users) => IsOf(e, users')
    BY <1>3 DEF IsOf, Entry
  <1>5. ASSUME NEW q \in Proc
        PROVE  Knows(req[q], pending, reset, users', mailed, minted, spent)
    <2>1. Knows(req[q], pending, reset, users, mailed, minted, spent) /\ req[q] \in Request
      BY DEF IInv, TypeOK
    <2>2. req[q].entry \in Entry \cup {None}
      BY <2>1 DEF Request
    <2> QED
      BY <1>4, <2>1, <2>2 DEF Knows
  <1>6. Entries(pending, users', mailed, minted)
    BY <1>1, <1>4 DEF IInv, Entries, TypeOK
  <1>7. Made(given, users', reset)
    BY <1>2 DEF IInv, Made
  <1>8. OnlyMailboxOwner'
    <2>1. Registered' = Registered \cup {l}
      BY <1>2 DEF Registered
    <2>2. ASSUME NEW k \in Registered'
          PROVE  /\ mailed[users'[k].by] = users'[k].addr.box
                 /\ users'[k].password \in Token => reset[users'[k].password].login = k
      <3>1. CASE k = l
        BY <1>2, <3>1
      <3>2. CASE k # l
        <4>1. k \in Registered /\ users'[k] = users[k]
          BY <1>2, <2>1, <3>2 DEF Registered
        <4> QED
          BY <4>1 DEF IInv, OnlyMailboxOwner
      <3> QED
        BY <3>1, <3>2
    <2>3. ASSUME NEW t \in Token, reset[t] # None
          PROVE  /\ reset[t].login \in Registered'
                 /\ mailed[reset[t].by] = users'[reset[t].login].addr.box
      <3>1. /\ reset[t].login \in Registered
            /\ mailed[reset[t].by] = users[reset[t].login].addr.box
        BY <2>3 DEF IInv, OnlyMailboxOwner
      <3>2. users'[reset[t].login].addr = users[reset[t].login].addr
        BY <1>3, <3>1 DEF Registered
      <3> QED
        BY <2>1, <3>1, <3>2
    <2> QED
      BY <2>2, <2>3 DEF OnlyMailboxOwner
  <1>9. SpentCodeIsDead' /\ Codes(mailed, minted, spent)
    BY DEF IInv, SpentCodeIsDead
  <1> QED
    BY <1>1, <1>2, <1>5, <1>6, <1>7, <1>8, <1>9, IdleLemma, StepLemma DEF TypeOK

LEMMA CommitStep ==
    ASSUME IInv, NEW p \in Proc, Commit(p)
    PROVE  IInv'
  <1> USE DEF redis, clients
  <1> DEFINE e == req[p].entry
             a == [addr |-> e.addr, password |-> e.password, by |-> req[p].code]
             r == [req[p] EXCEPT !.pc = "conflict"]
  <1>0. /\ req[p] \in Request /\ Local(req[p]) /\ req[p].pc = "commit"
        /\ Knows(req[p], pending, reset, users, mailed, minted, spent)
        /\ cooldown \in SUBSET Box /\ denied \in SUBSET (Login \cup Address)
    BY Known DEF Commit, At, IInv, TypeOK
  <1>1. /\ req[p].op = "verify" /\ e \in Entry /\ e.addr.box = req[p].addr.box
        /\ e.password \in Code /\ req[p].code \in Code
    BY <1>0 DEF Local, Verifier
  <1>2. e.login \in Login /\ a \in Account
    BY <1>1 DEF Entry, Account
  <1>3. CASE Goto(p, "conflict") /\ UNCHANGED users
    <2>1. /\ r.pc = "conflict" /\ r.op = req[p].op /\ r.entry = e
          /\ r.addr = req[p].addr /\ r.code = req[p].code
          /\ r.name = req[p].name /\ r.token = req[p].token
      BY <1>0 DEF Request
    <2>2. Local(r)
      <3> HIDE DEF r, e
      <3> QED
        BY <1>0, <1>1, <2>1 DEF Local, e
    <2> QED
      BY <1>0, <1>3, <2>2, GotoLemma DEF Commit, Place
  <1>4. CASE users[e.login] = None /\ users' = [users EXCEPT ![e.login] = a] /\ Become(p, Idle)
    <2>1. mailed[a.by] = a.addr.box
      BY <1>0, <1>1 DEF Knows, Checked, Verifier
    <2>2. a.password \notin Token
      BY <1>1, PendingAssumption
    <2> HIDE DEF a, e
    <2> QED
      BY <1>2, <1>4, <2>1, <2>2, UsersLemma DEF Commit
  <1> QED
    BY <1>3, <1>4 DEF Commit

LEMMA WipeStep ==
    ASSUME IInv, NEW p \in Proc, NEW t \in Token, WipeSessions(p, t)
    PROVE  IInv'
  <1> DEFINE n == [login |-> req[p].entry.login, by |-> req[p].code, live |-> FALSE]
             r == [req[p] EXCEPT !.pc = "gather", !.token = t,
                                 !.todo = {"storeToken", "deletePending"}]
  <1>0. /\ req[p] \in Request /\ Local(req[p]) /\ req[p].pc = "wipe"
        /\ Knows(req[p], pending, reset, users, mailed, minted, spent)
    BY Known DEF WipeSessions, At
  <1>1. /\ Become(p, r) /\ reset[t] = None /\ reset' = [reset EXCEPT ![t] = n]
        /\ sessions' \in SUBSET sessions
        /\ UNCHANGED <<pending, cooldown, users, denied, mailed, minted, given, spent>>
    BY DEF WipeSessions, database
  <1>2. /\ r \in Request /\ r.pc = "gather" /\ r.op = req[p].op /\ r.entry = req[p].entry
        /\ r.addr = req[p].addr /\ r.code = req[p].code /\ r.token = t
        /\ r.todo = {"storeToken", "deletePending"} /\ r.name = req[p].name
    BY <1>0 DEF Request, Tasks
  <1>3. /\ req[p].op = "resetVerify" /\ req[p].entry \in Entry /\ req[p].entry # None
        /\ req[p].entry.known /\ req[p].entry.addr.box = req[p].addr.box
        /\ req[p].code \in Code
    BY <1>0, PendingAssumption DEF Local, Verifier
  <1>4. n \in ResetToken /\ n # None
    <2>1. req[p].entry.login \in Login
      BY <1>3 DEF Entry
    <2>2. n \in ResetToken
      BY <1>3, <2>1 DEF ResetToken
    <2> HIDE DEF n
    <2> QED
      BY <2>2, PendingAssumption
  <1>5. /\ n.login \in Registered /\ mailed[n.by] = users[n.login].addr.box
    <2>1. IsOf(req[p].entry, users) /\ mailed[req[p].code] = req[p].addr.box
      BY <1>0, <1>3 DEF Knows, Checked, Verifier
    <2> QED
      BY <1>3, <2>1 DEF IsOf, Registered, Entry
  <1> HIDE DEF r, n
  <1>6. Local(r)
    BY <1>0, <1>2, <1>3 DEF Local, Verifier
  <1>7. reset \in [Token -> ResetToken \cup {None}]
    BY DEF IInv, TypeOK
  <1>8. /\ reset' \in [Token -> ResetToken \cup {None}] /\ reset'[t] = n
        /\ \A u \in Token \ {t} : reset'[u] = reset[u]
    BY <1>1, <1>4, <1>7
  <1>9. ~Putting(r) /\ ~Storing(r) /\ ~Deleted(r) /\ Checked(r) /\ Checked(req[p])
    BY <1>0, <1>2, <1>3 DEF Putting, Storing, Deleted, Checked, Putter, Verifier
  <1>10. Knows(r, pending, reset', users, mailed, minted, spent)
    BY <1>0, <1>2, <1>3, <1>4, <1>8, <1>9 DEF Knows
  <1>11. \A q \in Proc \ {p} : Apart(r, req[q]) /\ Apart(req[q], r)
    BY <1>2, <1>9, Known DEF Apart
  <1>12. /\ \A u \in Token : reset[u] # None =>
              /\ reset'[u] # None
              /\ reset'[u].login = reset[u].login /\ reset'[u].by = reset[u].by
         /\ \A u \in Token : reset[u] = None /\ reset'[u] # None =>
              /\ reset'[u].login \in Registered
              /\ mailed[reset'[u].by] = users[reset'[u].login].addr.box
    BY <1>1, <1>5, <1>8
  <1> QED
    BY <1>1, <1>2, <1>6, <1>8, <1>10, <1>11, <1>12, ResetLemma

-----------------------------------------------------------------------------
(* reset_password_finalize.                                                *)

LEMMA FinalizeStep ==
    ASSUME IInv, NEW p \in Proc, NEW l \in {"ttl", "update", "deleteToken", "commitPassword"},
           req[p].op = "finalize", Goto(p, l),
           UNCHANGED <<pending, cooldown, reset, users, denied, mailed, minted, given,
                       sessions, spent>>
    PROVE  IInv'
  <1> DEFINE r == [req[p] EXCEPT !.pc = l]
  <1>0. /\ req[p] \in Request /\ Local(req[p])
        /\ cooldown \in SUBSET Box /\ denied \in SUBSET (Login \cup Address)
    BY Known DEF IInv, TypeOK
  <1>1. /\ r.pc = l /\ r.op = req[p].op /\ r.entry = req[p].entry
        /\ r.addr = req[p].addr /\ r.code = req[p].code
        /\ r.name = req[p].name /\ r.token = req[p].token
    BY <1>0 DEF Request
  <1>2. Local(r) /\ req[p].pc # "validate"
    <2> HIDE DEF r
    <2> QED
      BY <1>0, <1>1 DEF Local, Putter, Verifier
  <1> QED
    BY <1>0, <1>2, GotoLemma DEF Place

LEMMA CheckTokenStep ==
    ASSUME IInv, NEW p \in Proc,
           CheckToken(p) \/ UpdatePassword(p) \/ SendChanged(p) \/ Raise(p)
    PROVE  IInv'
  <1> USE DEF redis, database, clients
  <1>0. /\ req[p] \in Request /\ Local(req[p])
        /\ cooldown \in SUBSET Box /\ denied \in SUBSET (Login \cup Address)
    BY Known DEF IInv, TypeOK
  <1>1. UNCHANGED <<pending, cooldown, reset, users, denied, mailed, minted, given, sessions,
                    spent>>
    BY DEF CheckToken, UpdatePassword, SendChanged, Raise
  <1>2. CASE Become(p, Idle)
    BY <1>0, <1>1, <1>2, EndLemma
  <1>3. CASE CheckToken(p) /\ ~Become(p, Idle)
    <2>1. req[p].op = "finalize"
      BY <1>0, <1>3 DEF CheckToken, Local
    <2> QED
      BY <1>1, <1>3, <2>1, FinalizeStep DEF CheckToken
  <1>4. CASE UpdatePassword(p) /\ ~Become(p, Idle)
    <2>1. req[p].op = "finalize"
      BY <1>0, <1>4 DEF UpdatePassword, At, Local
    <2> QED
      BY <1>1, <1>4, <2>1, FinalizeStep DEF UpdatePassword
  <1>5. CASE SendChanged(p) /\ ~Become(p, Idle)
    <2>1. req[p].op = "finalize"
      BY <1>0, <1>5 DEF SendChanged, At, Local
    <2> QED
      BY <1>1, <1>5, <2>1, FinalizeStep DEF SendChanged
  <1> QED
    BY <1>2, <1>3, <1>4, <1>5 DEF Raise

LEMMA DeleteTokenStep ==
    ASSUME IInv, NEW p \in Proc, DeleteToken(p)
    PROVE  IInv'
  <1> DEFINE t == req[p].token
             r == [req[p] EXCEPT !.pc = "sendChanged"]
  <1>0. /\ req[p] \in Request /\ Local(req[p]) /\ req[p].pc = "deleteToken"
        /\ Knows(req[p], pending, reset, users, mailed, minted, spent)
    BY Known DEF DeleteToken, At
  <1>1. /\ Become(p, r) /\ reset' = [reset EXCEPT ![t].live = FALSE]
        /\ UNCHANGED <<pending, cooldown, users, denied, mailed, minted, given, sessions, spent>>
    BY DEF DeleteToken, Goto, database, clients
  <1>2. /\ r \in Request /\ r.pc = "sendChanged" /\ r.op = req[p].op /\ r.entry = req[p].entry
        /\ r.addr = req[p].addr /\ r.code = req[p].code /\ r.token = t
        /\ r.name = req[p].name
    BY <1>0 DEF Request
  <1>3. req[p].op = "finalize" /\ t \in Token /\ reset[t] # None
    BY <1>0 DEF Local, Knows
  <1>4. reset \in [Token -> ResetToken \cup {None}] /\ reset[t] \in ResetToken
    BY <1>3 DEF IInv, TypeOK
  <1>5. /\ [reset[t] EXCEPT !.live = FALSE] \in ResetToken
        /\ [reset[t] EXCEPT !.live = FALSE].login = reset[t].login
        /\ [reset[t] EXCEPT !.live = FALSE].by = reset[t].by
    BY <1>4 DEF ResetToken
  <1>6. /\ reset' \in [Token -> ResetToken \cup {None}]
        /\ reset'[t] = [reset[t] EXCEPT !.live = FALSE] /\ reset'[t] # None
        /\ \A u \in Token \ {t} : reset'[u] = reset[u]
    BY <1>1, <1>3, <1>4, <1>5, PendingAssumption
  <1>7. /\ \A u \in Token : reset[u] # None =>
              /\ reset'[u] # None
              /\ reset'[u].login = reset[u].login /\ reset'[u].by = reset[u].by
        /\ \A u \in Token : reset[u] = None => reset'[u] = None
    BY <1>3, <1>5, <1>6
  <1> HIDE DEF r
  <1>8. Local(r) /\ ~Putting(r) /\ ~Storing(r) /\ ~Checked(r) /\ ~Deleted(r)
    BY <1>0, <1>2, <1>3 DEF Local, Putting, Storing, Checked, Deleted, Putter, Verifier
  <1>9. Knows(r, pending, reset', users, mailed, minted, spent)
    BY <1>0, <1>2, <1>3, <1>7, <1>8 DEF Knows, Verifier
  <1>10. \A q \in Proc \ {p} : Apart(r, req[q]) /\ Apart(req[q], r)
    BY <1>8 DEF Apart
  <1>11. sessions' \in SUBSET sessions
    BY <1>1
  <1> HIDE DEF t
  <1> QED
    BY <1>1, <1>2, <1>6, <1>7, <1>8, <1>9, <1>10, <1>11, ResetLemma

LEMMA CommitPasswordStep ==
    ASSUME IInv, NEW p \in Proc, CommitPassword(p)
    PROVE  IInv'
  <1> DEFINE l == req[p].name
             t == req[p].token
             a == [users[l] EXCEPT !.password = t]
  <1>0. /\ req[p] \in Request /\ Local(req[p]) /\ req[p].pc = "commitPassword"
        /\ Knows(req[p], pending, reset, users, mailed, minted, spent)
    BY Known DEF CommitPassword, At
  <1>1. /\ l \in Login /\ t \in Token /\ reset[t] # None /\ reset[t].login = l
    BY <1>0 DEF Local, Knows
  <1>2. l \in Registered
    BY <1>1 DEF IInv, OnlyMailboxOwner
  <1>3. users[l] \in Account /\ mailed[users[l].by] = users[l].addr.box
    BY <1>2 DEF IInv, TypeOK, OnlyMailboxOwner, Registered
  <1>4. /\ a \in Account /\ a.addr = users[l].addr /\ a.by = users[l].by /\ a.password = t
    BY <1>1, <1>3 DEF Account
  <1>5. /\ Become(p, Idle) /\ users' = [users EXCEPT ![l] = a]
        /\ UNCHANGED <<pending, cooldown, reset, denied, mailed, minted, given, sessions, spent>>
    BY DEF CommitPassword, redis, clients
  <1> HIDE DEF a, t, l
  <1> QED
    BY <1>1, <1>3, <1>4, <1>5, UsersLemma

-----------------------------------------------------------------------------
(* Nobody takes a step: keys expire, users log in, the server restarts.    *)
LEMMA OtherLemma ==
    ASSUME IInv, req' \in {req, [p \in Proc |-> Idle]},
           UNCHANGED <<users, mailed, minted, given, spent>>,
           pending' \in [Box -> Entry \cup {None}],
           \A b \in Box : pending'[b] \in {pending[b], None},
           reset' \in [Token -> ResetToken \cup {None}],
           \A t \in Token :
              /\ reset'[t] # None <=> reset[t] # None
              /\ reset[t] # None =>
                    reset'[t].login = reset[t].login /\ reset'[t].by = reset[t].by,
           cooldown' \in SUBSET Box, denied' \in SUBSET (Login \cup Address),
           sessions' \in SUBSET [login : Login, password : Code \cup Token]
    PROVE  IInv'
  <1>1. \A p \in Proc : req'[p] = req[p] \/ req'[p] = Idle
    OBVIOUS
  <1>2. TypeOK'
    BY IdleLemma DEF IInv, TypeOK
  <1>3. ASSUME NEW p \in Proc
        PROVE  Local(req'[p]) /\ Knows(req'[p], pending', reset', users, mailed, minted, spent)
    <2>1. Local(req[p]) /\ Knows(req[p], pending, reset, users, mailed, minted, spent)
      BY DEF IInv
    <2>2. /\ req[p].op = "finalize" => req[p].token \in Token
          /\ req[p].op = "resetVerify" /\ req[p].pc = "gather" => req[p].token \in Token
      BY <2>1 DEF Local
    <2>3. Knows(req[p], pending', reset', users, mailed, minted, spent)
      BY <2>1, <2>2 DEF Knows
    <2> QED
      BY <1>1, <2>1, <2>3, IdleLemma
  <1>4. \A p, q \in Proc : p # q => Apart(req'[p], req'[q])
    BY <1>1, IdleLemma DEF IInv
  <1>5. Entries(pending', users, mailed, minted) /\ SpentCodeIsDead'
    BY DEF IInv, Entries, SpentCodeIsDead
  <1>6. Made(given, users, reset') /\ Codes(mailed, minted, spent)
    <2>1. given \in SUBSET Token
      BY DEF IInv, TypeOK
    <2> QED
      BY <2>1 DEF IInv, Made
  <1>7. OnlyMailboxOwner'
    <2>1. ASSUME NEW l \in Registered, users[l].password \in Token
          PROVE  reset'[users[l].password].login = l
      BY <2>1 DEF IInv, OnlyMailboxOwner, Made, Registered
    <2>2. ASSUME NEW t \in Token, reset'[t] # None
          PROVE  /\ reset'[t].login \in Registered
                 /\ mailed[reset'[t].by] = users[reset'[t].login].addr.box
      BY <2>2 DEF IInv, OnlyMailboxOwner
    <2> QED
      BY <2>1, <2>2 DEF IInv, OnlyMailboxOwner, Registered
  <1> QED
    BY <1>2, <1>3, <1>4, <1>5, <1>6, <1>7 DEF IInv

LEMMA OtherStep ==
    ASSUME IInv,
           \/ \E l \in Login : LogIn(l)
           \/ \E b \in Box : ExpirePending(b) \/ ExpireCooldown(b)
           \/ \E t \in Token : ExpireToken(t)
           \/ \E x \in denied : ExpireDenied(x)
           \/ Restart
           \/ UNCHANGED vars
    PROVE  IInv'
  <1> USE DEF redis, database, clients
  <1>0. /\ TypeOK /\ cooldown \in SUBSET Box /\ denied \in SUBSET (Login \cup Address)
        /\ pending \in [Box -> Entry \cup {None}] /\ reset \in [Token -> ResetToken \cup {None}]
        /\ users \in [Login -> Account \cup {None}]
        /\ sessions \in SUBSET [login : Login, password : Code \cup Token]
    BY DEF IInv, TypeOK
  <1>1. ASSUME NEW l \in Login, LogIn(l) PROVE IInv'
    <2>1. users[l] \in Account
      BY <1>0, <1>1 DEF LogIn
    <2>2. users[l].password \in Code \cup Token
      BY <2>1 DEF Account
    <2>3. sessions' \in SUBSET [login : Login, password : Code \cup Token]
      BY <1>0, <1>1, <2>2 DEF LogIn
    <2> QED
      BY <1>0, <1>1, <2>3, OtherLemma DEF LogIn
  <1>2. ASSUME NEW b \in Box, ExpirePending(b) PROVE IInv'
    <2>1. /\ pending' \in [Box -> Entry \cup {None}]
          /\ \A a \in Box : pending'[a] \in {pending[a], None}
      BY <1>0, <1>2 DEF ExpirePending
    <2> QED
      BY <1>0, <1>2, <2>1, OtherLemma DEF ExpirePending
  <1>3. ASSUME NEW b \in Box, ExpireCooldown(b) PROVE IInv'
    <2>1. cooldown' \in SUBSET Box
      BY <1>0, <1>3 DEF ExpireCooldown
    <2> QED
      BY <1>0, <1>3, <2>1, OtherLemma DEF ExpireCooldown
  <1>4. ASSUME NEW t \in Token, ExpireToken(t) PROVE IInv'
    <2>1. reset[t] # None /\ reset[t] \in ResetToken /\ reset' = [reset EXCEPT ![t].live = FALSE]
      BY <1>0, <1>4 DEF ExpireToken
    <2>2. /\ [reset[t] EXCEPT !.live = FALSE] \in ResetToken
          /\ [reset[t] EXCEPT !.live = FALSE].login = reset[t].login
          /\ [reset[t] EXCEPT !.live = FALSE].by = reset[t].by
      BY <2>1 DEF ResetToken
    <2>3. /\ reset' \in [Token -> ResetToken \cup {None}]
          /\ reset'[t] = [reset[t] EXCEPT !.live = FALSE] /\ reset'[t] # None
          /\ \A u \in Token \ {t} : reset'[u] = reset[u]
      BY <1>0, <2>1, <2>2, PendingAssumption
    <2>4. \A u \in Token :
              /\ reset'[u] # None <=> reset[u] # None
              /\ reset[u] # None =>
                    reset'[u].login = reset[u].login /\ reset'[u].by = reset[u].by
      BY <2>1, <2>2, <2>3
    <2> QED
      BY <1>0, <1>4, <2>3, <2>4, OtherLemma DEF ExpireToken
  <1>5. ASSUME NEW x \in denied, ExpireDenied(x) PROVE IInv'
    <2>1. denied' \in SUBSET (Login \cup Address)
      BY <1>0, <1>5 DEF ExpireDenied
    <2> QED
      BY <1>0, <1>5, <2>1, OtherLemma DEF ExpireDenied
  <1>6. CASE Restart
    BY <1>0, <1>6, OtherLemma DEF Restart
  <1>7. CASE UNCHANGED vars
    BY <1>0, <1>7, OtherLemma DEF vars
  <1> QED
    BY <1>1, <1>2, <1>3, <1>4, <1>5, <1>6, <1>7

LEMMA Inductive ==
    ASSUME IInv, [Next]_vars
    PROVE  IInv'
  <1>1. ASSUME NEW p \in Proc, Step(p) PROVE IInv'
    BY <1>1, StartStep, InitStep, SetPendingStep, SendCodeStep, DeletePendingStep,
       StoreTokenStep, TaskStep, AnswerStep, ValidateStep, GetPendingStep, CheckTakenStep,
       CommitStep, WipeStep, CheckTokenStep, DeleteTokenStep, CommitPasswordStep DEF Step
  <1> QED
    BY <1>1, OtherStep DEF Next

LEMMA Initial ==
    ASSUME Init
    PROVE  IInv
  <1>1. \A p \in Proc : req[p] = Idle
    BY DEF Init
  <1>2. TypeOK
    BY IdleLemma DEF Init, TypeOK
  <1>3. \A p \in Proc : /\ Local(req[p])
                        /\ Knows(req[p], pending, reset, users, mailed, minted, spent)
    BY <1>1, IdleLemma
  <1>4. \A p, q \in Proc : p # q => Apart(req[p], req[q])
    BY <1>1, IdleLemma
  <1>5. Entries(pending, users, mailed, minted) /\ Codes(mailed, minted, spent)
        /\ Made(given, users, reset) /\ SpentCodeIsDead /\ OnlyMailboxOwner
    BY DEF Init, Entries, Codes, Made, SpentCodeIsDead, OnlyMailboxOwner, Registered
  <1> QED
    BY <1>2, <1>3, <1>4, <1>5 DEF IInv

LEMMA Invariant == Spec => []IInv
  <1>1. Init => IInv
    BY Initial
  <1>2. IInv /\ [Next]_vars => IInv'
    BY Inductive
  <1> QED
    BY <1>1, <1>2, PTL DEF Spec

-----------------------------------------------------------------------------
(* Every variable has its type: the local variables that a step uses are   *)
(* set, and only complete entries make accounts.                           *)
THEOREM TypeCorrect == Spec => []TypeOK
  <1>1. IInv => TypeOK
    BY DEF IInv
  <1> QED
    BY <1>1, Invariant, PTL

(* Who made an account or may reset it has read its mailbox.               *)
THEOREM MailboxOwners == Spec => []OnlyMailboxOwner
  <1>1. IInv => OnlyMailboxOwner
    BY DEF IInv
  <1> QED
    BY <1>1, Invariant, PTL

(* The code of an answered verification verifies nothing any more.         *)
THEOREM SpentCodes == Spec => []SpentCodeIsDead
  <1>1. IInv => SpentCodeIsDead
    BY DEF IInv
  <1> QED
    BY <1>1, Invariant, PTL
-----------------------------------------------------------------------------
(* Reset tokens are good for one password: what requests know of theirs.   *)

(* Request r has the token of an answer, which it has deleted before it    *)
(* commits; a token that is yet to be stored is in no answer.              *)
TokenOf(r, R, G) ==
    /\ r.op = "finalize" => r.token \in G
    /\ r.op = "finalize" /\ r.pc \in {"sendChanged", "commitPassword"} => ~R[r.token].live
    /\ "storeToken" \in r.todo => r.op = "resetVerify" /\ r.pc = "gather" /\ r.token \notin G

(* A request that has signed a token and not answered yet.                 *)
Signed(r) == r.op = "resetVerify" /\ r.pc = "gather"

(* The passwords that tokens have set.                                     *)
Used(U, R, G) ==
    \A l \in Login : U[l] # None /\ U[l].password \in Token =>
        U[l].password \in G /\ ~R[U[l].password].live

Tokens ==
    /\ \A p \in Proc : TokenOf(req[p], reset, given)
    /\ \A p, q \in Proc : p # q /\ Signed(req[p]) /\ Signed(req[q])
                              => req[p].token # req[q].token
    /\ Used(users, reset, given)

(* The inductive invariant of UsedTokenIsDead.                             *)
TokenInv == IInv /\ Tokens

LEMMA IdleTokens ==
    /\ \A R, G : TokenOf(Idle, R, G)
    /\ ~Signed(Idle)
    BY DEF Idle, TokenOf, Signed

(* A step of p, which may change tokens, answers and accounts.             *)
LEMMA TokensStep ==
    ASSUME TokenInv, NEW p \in Proc, NEW r, Become(p, r), TokenOf(r, reset', given'),
           \A q \in Proc \ {p} :
              /\ TokenOf(req[q], reset', given')
              /\ Signed(r) /\ Signed(req[q]) => r.token # req[q].token,
           Used(users', reset', given')
    PROVE  Tokens'
  <1>1. req' = [req EXCEPT ![p] = r] /\ req \in [Proc -> Request]
    BY DEF Become, TokenInv, IInv, TypeOK
  <1>2. req'[p] = r /\ \A q \in Proc \ {p} : req'[q] = req[q]
    BY <1>1
  <1>3. \A q \in Proc : TokenOf(req'[q], reset', given')
    BY <1>2
  <1>4. \A q, s \in Proc : q # s /\ Signed(req'[q]) /\ Signed(req'[s])
                               => req'[q].token # req'[s].token
    BY <1>2 DEF TokenInv, Tokens
  <1> QED
    BY <1>3, <1>4 DEF Tokens

(* A step of p that leaves them alone.                                     *)
LEMMA QuietTokens ==
    ASSUME TokenInv, NEW p \in Proc, NEW r, Become(p, r),
           UNCHANGED <<reset, users, given>>, TokenOf(r, reset, given),
           Signed(r) => Signed(req[p]) /\ r.token = req[p].token
    PROVE  Tokens'
  <1>1. \A q \in Proc \ {p} :
            /\ TokenOf(req[q], reset, given)
            /\ Signed(r) /\ Signed(req[q]) => r.token # req[q].token
    BY DEF TokenInv, Tokens
  <1> QED
    BY <1>1, TokensStep DEF TokenInv, Tokens

LEMMA EndTokens ==
    ASSUME TokenInv, NEW p \in Proc, Become(p, Idle), UNCHANGED <<reset, users, given>>
    PROVE  Tokens'
    BY IdleTokens, QuietTokens

(* The request goes on with its token, and has nothing new to store.       *)
LEMMA GoTokens ==
    ASSUME TokenInv, NEW p \in Proc, NEW r, Become(p, r), UNCHANGED <<reset, users, given>>,
           r.op = req[p].op, r.token = req[p].token,
           "storeToken" \in r.todo => "storeToken" \in req[p].todo /\ r.pc = req[p].pc,
           r.pc \in {"sendChanged", "commitPassword"}
              => req[p].pc \in {"sendChanged", "commitPassword"},
           r.pc = "gather" => req[p].pc = "gather" \/ r.op # "resetVerify"
    PROVE  Tokens'
  <1>1. TokenOf(req[p], reset, given)
    BY DEF TokenInv, Tokens
  <1> QED
    BY <1>1, QuietTokens DEF TokenOf, Signed

(* The request goes to a place that is neither a gather nor behind the     *)
(* deletion of its token.                                                  *)
LEMMA PlaceTokens ==
    ASSUME TokenInv, NEW p \in Proc,
           NEW l \in Place \ {"gather", "sendChanged", "commitPassword"}, Goto(p, l),
           req[p].pc # "gather", UNCHANGED <<reset, users, given>>
    PROVE  Tokens'
  <1> DEFINE r == [req[p] EXCEPT !.pc = l]
  <1>1. req[p] \in Request /\ TokenOf(req[p], reset, given)
    BY Known DEF TokenInv, Tokens
  <1>2. r.pc = l /\ r.op = req[p].op /\ r.token = req[p].token /\ r.todo = req[p].todo
    BY <1>1 DEF Request
  <1>3. Become(p, r)
    BY DEF Goto
  <1>4. "storeToken" \notin req[p].todo
    BY <1>1 DEF TokenOf
  <1> HIDE DEF r
  <1> QED
    BY <1>2, <1>3, <1>4, GoTokens

(* A task of a gather is done.                                             *)
LEMMA DoneTokens ==
    ASSUME TokenInv, NEW p \in Proc, NEW x, Did(p, x), UNCHANGED <<reset, users, given>>
    PROVE  Tokens'
  <1> DEFINE r == [req[p] EXCEPT !.todo = @ \ {x}]
  <1>1. req[p] \in Request
    BY Known DEF TokenInv
  <1>2. /\ r.pc = req[p].pc /\ r.op = req[p].op /\ r.token = req[p].token
        /\ r.todo = req[p].todo \ {x}
    BY <1>1 DEF Request
  <1>3. Become(p, r)
    BY DEF Did
  <1> HIDE DEF r
  <1> QED
    BY <1>2, <1>3, GoTokens

-----------------------------------------------------------------------------
(* Requests begin: a client only has tokens of answers.                    *)
LEMMA StartTokens ==
    ASSUME TokenInv, NEW p \in Proc, StartAny(p)
    PROVE  Tokens'
  <1>1. ASSUME NEW op, NEW pc, NEW a, NEW l, NEW c, NEW t, Start(p, op, pc, a, l, c, t),
               pc \notin {"gather", "sendChanged", "commitPassword"},
               op = "finalize" => t \in given
        PROVE  Tokens'
    <2> DEFINE r == [Idle EXCEPT !.op = op, !.pc = pc, !.addr = a, !.name = l, !.code = c,
                                 !.token = t]
    <2>1. r.op = op /\ r.pc = pc /\ r.token = t /\ r.todo = {}
      BY DEF Idle
    <2>2. Become(p, r) /\ UNCHANGED <<reset, users, given>>
      BY <1>1 DEF Start, redis, database, clients
    <2> HIDE DEF r
    <2>3. TokenOf(r, reset, given) /\ ~Signed(r)
      BY <1>1, <2>1 DEF TokenOf, Signed
    <2> QED
      BY <2>2, <2>3, QuietTokens
  <1>2. ASSUME NEW a \in Address,
               \/ \E l \in Login : Start(p, "register", "cooldown", a, l, None, None)
               \/ Start(p, "resend", "cooldown", a, None, None, None)
               \/ Start(p, "reset", "email", a, None, None, None)
        PROVE  Tokens'
    BY <1>1, <1>2
  <1>3. ASSUME NEW a \in Address, NEW c \in Code, NEW op \in {"verify", "resetVerify"},
               Start(p, op, "validate", a, None, c, None)
        PROVE  Tokens'
    BY <1>1, <1>3
  <1>4. ASSUME NEW t \in given, Start(p, "finalize", "token", None, reset[t].login, None, t)
        PROVE  Tokens'
    BY <1>1, <1>4
  <1> QED
    BY <1>2, <1>3, <1>4 DEF StartAny

(* A code is made: the request of the gather is not about a token.         *)
LEMMA PutTokens ==
    ASSUME TokenInv, NEW p \in Proc, req[p].pc \in {"email", "read"}, NEW e, NEW c, Put(p, e, c),
           UNCHANGED <<reset, users, given>>
    PROVE  Tokens'
  <1>1. req[p] \in Request /\ Local(req[p])
    BY Known DEF TokenInv
  <1>2. req[p].op # "resetVerify"
    BY <1>1 DEF Local
  <1> DEFINE r == [req[p] EXCEPT !.pc = "gather", !.entry = [e EXCEPT !.code = c],
                                 !.todo = {"setPending", "setCooldown", "sendCode"}]
  <1>3. /\ r.pc = "gather" /\ r.op = req[p].op /\ r.token = req[p].token
        /\ r.todo = {"setPending", "setCooldown", "sendCode"}
    BY <1>1 DEF Request
  <1>4. Become(p, r)
    BY DEF Put
  <1> HIDE DEF r
  <1> QED
    BY <1>2, <1>3, <1>4, GoTokens

(* What comes before the gathers, and the verifications.                   *)
LEMMA BeforeTokens ==
    ASSUME TokenInv, NEW p \in Proc,
           \/ CheckCooldown(p) \/ LookupLogin(p) \/ LookupEmail(p) \/ ResendRead(p)
           \/ ValidateCode(p) \/ GetPending(p) \/ CheckTaken(p) \/ Raise(p)
    PROVE  Tokens'
  <1>0. UNCHANGED <<reset, users, given>>
    BY DEF CheckCooldown, LookupLogin, LookupEmail, ResendRead, ValidateCode, GetPending,
       CheckTaken, Raise, redis, database, clients
  <1>1. ASSUME NEW l \in Place \ {"gather", "sendChanged", "commitPassword"}, Goto(p, l),
               req[p].pc # "gather"
        PROVE  Tokens'
    BY <1>0, <1>1, PlaceTokens
  <1>2. CASE Become(p, Idle)
    BY <1>0, <1>2, EndTokens
  <1>3. CASE CheckCooldown(p)
    BY <1>1, <1>2, <1>3 DEF CheckCooldown, At, Place
  <1>4. CASE LookupLogin(p)
    BY <1>1, <1>2, <1>4 DEF LookupLogin, At, Place
  <1>5. CASE LookupEmail(p) \/ ResendRead(p)
    <2>1. req[p].pc \in {"email", "read"}
          /\ (Become(p, Idle) \/ \E e, c : Put(p, e, c))
      BY <1>5 DEF LookupEmail, ResendRead, At
    <2> QED
      BY <1>0, <1>2, <2>1, PutTokens
  <1>6. CASE ValidateCode(p)
    BY <1>1, <1>2, <1>6 DEF ValidateCode, At, Place
  <1>7. CASE GetPending(p)
    <2>1. req[p].pc = "again" /\ req[p] \in Request /\ TokenOf(req[p], reset, given)
      BY <1>7, Known DEF GetPending, At, TokenInv, Tokens
    <2>2. CASE ~Become(p, Idle)
      <3> DEFINE e == pending[BoxOf(p)]
                 l == IF req[p].op = "verify" THEN "taken" ELSE "wipe"
                 r == [req[p] EXCEPT !.entry = e, !.pc = l]
      <3>1. Become(p, r)
        BY <1>7, <2>2 DEF GetPending
      <3>2. l \in {"taken", "wipe"}
        OBVIOUS
      <3> HIDE DEF e, l
      <3>3. r.pc = l /\ r.op = req[p].op /\ r.token = req[p].token /\ r.todo = req[p].todo
        BY <2>1 DEF Request
      <3>4. "storeToken" \notin req[p].todo
        BY <2>1 DEF TokenOf
      <3> HIDE DEF r
      <3> QED
        BY <1>0, <3>1, <3>2, <3>3, <3>4, GoTokens
    <2> QED
      BY <1>2, <2>2
  <1>8. CASE CheckTaken(p)
    <2>1. req[p].pc = "taken" /\ req[p] \in Request /\ Local(req[p])
      BY <1>8, Known DEF CheckTaken, At, TokenInv
    <2>2. ASSUME Become(p, [req[p] EXCEPT !.pc = "gather",
                               !.todo = {"createUser", "deletePending", "sendWelcome"}])
          PROVE  Tokens'
      <3> DEFINE r == [req[p] EXCEPT !.pc = "gather",
                                     !.todo = {"createUser", "deletePending", "sendWelcome"}]
      <3>1. /\ r.pc = "gather" /\ r.op = req[p].op /\ r.token = req[p].token
            /\ r.todo = {"createUser", "deletePending", "sendWelcome"}
        BY <2>1 DEF Request
      <3>2. req[p].op = "verify"
        BY <2>1 DEF Local
      <3>3. Become(p, r)
        BY <2>2
      <3> HIDE DEF r
      <3> QED
        BY <1>0, <3>1, <3>2, <3>3, GoTokens
    <2> QED
      BY <1>1, <1>2, <1>8, <2>1, <2>2 DEF CheckTaken, Place
  <1>9. CASE Raise(p)
    BY <1>2, <1>9 DEF Raise
  <1> QED
    BY <1>3, <1>4, <1>5, <1>6, <1>7, <1>8, <1>9

(* The tasks of the gathers, but the store of a token.                     *)
LEMMA TaskTokens ==
    ASSUME TokenInv, NEW p \in Proc,
           \/ SetPending(p) \/ SetCooldown(p) \/ SendCode(p) \/ CreateUser(p)
           \/ DeletePending(p) \/ SendWelcome(p) \/ MailFails(p)
    PROVE  Tokens'
  <1>0. UNCHANGED <<reset, users, given>>
    BY DEF SetPending, SetCooldown, SendCode, CreateUser, DeletePending, SendWelcome,
       MailFails, redis, database, clients
  <1>1. ASSUME NEW x, Did(p, x) PROVE Tokens'
    BY <1>0, <1>1, DoneTokens
  <1>2. CASE MailFails(p)
    <2> PICK x \in {"sendCode", "sendWelcome"} :
            Become(p, [req[p] EXCEPT !.todo = @ \ {x}, !.failed = TRUE])
      BY <1>2 DEF MailFails
    <2> DEFINE r == [req[p] EXCEPT !.todo = @ \ {x}, !.failed = TRUE]
    <2>1. req[p] \in Request
      BY Known DEF TokenInv
    <2>2. /\ r.pc = req[p].pc /\ r.op = req[p].op /\ r.token = req[p].token
          /\ r.todo = req[p].todo \ {x}
      BY <2>1 DEF Request
    <2>3. Become(p, r)
      OBVIOUS
    <2> HIDE DEF r
    <2> QED
      BY <1>0, <2>2, <2>3, GoTokens
  <1> QED
    BY <1>1, <1>2 DEF SetPending, SetCooldown, SendCode, CreateUser, DeletePending, SendWelcome

(* Only live changes of a reset token.                                     *)
LEMMA LiveLemma ==
    ASSUME IInv, NEW t \in Token, reset[t] # None, NEW b \in BOOLEAN,
           reset' = [reset EXCEPT ![t].live = b]
    PROVE  /\ reset'[t].live = b
           /\ \A u \in Token \ {t} : reset'[u] = reset[u]
  <1>1. reset \in [Token -> ResetToken \cup {None}] /\ reset[t] \in ResetToken
    BY DEF IInv, TypeOK
  <1>2. [reset[t] EXCEPT !.live = b].live = b
    BY <1>1 DEF ResetToken
  <1>3. reset'[t] = [reset[t] EXCEPT !.live = b] /\ \A u \in Token \ {t} : reset'[u] = reset[u]
    BY <1>1
  <1> QED
    BY <1>2, <1>3

(* A token is dead for good once it is in an answer: what others know of   *)
(* theirs survives a deletion, and the store of a token not yet given.     *)
LEMMA OthersTokens ==
    ASSUME TokenInv, NEW t \in Token, reset[t] # None, NEW b \in BOOLEAN,
           reset' = [reset EXCEPT ![t].live = b], b => t \notin given
    PROVE  /\ \A q \in Proc : TokenOf(req[q], reset', given)
           /\ Used(users, reset', given)
  <1>1. /\ reset'[t].live = b
        /\ \A u \in Token \ {t} : reset'[u] = reset[u]
    BY LiveLemma DEF TokenInv
  <1>2. given \subseteq Token
    BY DEF TokenInv, IInv, TypeOK
  <1>3. \A u \in given : ~reset[u].live => ~reset'[u].live
    BY <1>1, <1>2
  <1>4. ASSUME NEW q \in Proc PROVE TokenOf(req[q], reset', given)
    BY <1>3 DEF TokenInv, Tokens, TokenOf
  <1>5. Used(users, reset', given)
    BY <1>3 DEF TokenInv, Tokens, Used
  <1> QED
    BY <1>4, <1>5

(* storeToken comes before the answer.                                     *)
LEMMA StoreTokens ==
    ASSUME TokenInv, NEW p \in Proc, StoreToken(p)
    PROVE  Tokens'
  <1> DEFINE t == req[p].token
             r == [req[p] EXCEPT !.todo = @ \ {"storeToken"}]
  <1>1. /\ req[p] \in Request /\ Local(req[p])
        /\ Knows(req[p], pending, reset, users, mailed, minted, spent)
        /\ TokenOf(req[p], reset, given)
        /\ req[p].pc = "gather" /\ "storeToken" \in req[p].todo
    BY Known DEF StoreToken, Task, At, TokenInv, Tokens
  <1>2. req[p].op = "resetVerify" /\ t \in Token /\ reset[t] # None /\ t \notin given
    BY <1>1 DEF Local, Knows, TokenOf
  <1>3. /\ reset' = [reset EXCEPT ![t].live = TRUE] /\ Become(p, r)
        /\ UNCHANGED <<users, given>>
    BY DEF StoreToken, Did, database, clients
  <1>4. /\ r.pc = req[p].pc /\ r.op = req[p].op /\ r.token = t
        /\ r.todo = req[p].todo \ {"storeToken"}
    BY <1>1 DEF Request
  <1>5. /\ \A q \in Proc : TokenOf(req[q], reset', given)
        /\ Used(users, reset', given)
    BY <1>2, <1>3, OthersTokens
  <1> HIDE DEF r, t
  <1>6. TokenOf(r, reset', given)
    BY <1>2, <1>4, <1>5 DEF TokenOf
  <1>7. \A q \in Proc \ {p} : Signed(r) /\ Signed(req[q]) => r.token # req[q].token
    BY <1>1, <1>2, <1>4 DEF Signed, TokenInv, Tokens, t
  <1> QED
    BY <1>3, <1>5, <1>6, <1>7, TokensStep

(* An answer gives a token away, which nobody is to store any more.        *)
LEMMA AnswerTokens ==
    ASSUME TokenInv, NEW p \in Proc, Answer(p)
    PROVE  Tokens'
  <1>1. /\ req[p] \in Request /\ Local(req[p]) /\ TokenOf(req[p], reset, given)
        /\ req[p].pc = "gather" /\ req[p].todo = {}
    BY Known DEF Answer, At, TokenInv, Tokens
  <1>2. UNCHANGED <<reset, users>>
    BY DEF Answer, redis, database
  <1>3. given \subseteq given'
    BY DEF Answer
  <1>4. ASSUME NEW q \in Proc \ {p} PROVE TokenOf(req[q], reset', given')
    <2>1. TokenOf(req[q], reset, given)
      BY DEF TokenInv, Tokens
    <2>2. ASSUME "storeToken" \in req[q].todo PROVE req[q].token \notin given'
      <3>1. Signed(req[q]) /\ req[q].token \notin given
        BY <2>1, <2>2 DEF TokenOf, Signed
      <3>2. req[p].op = "resetVerify" => req[p].token # req[q].token
        BY <1>1, <3>1 DEF Signed, TokenInv, Tokens
      <3> QED
        BY <3>1, <3>2 DEF Answer
    <2> QED
      BY <1>2, <1>3, <2>1, <2>2 DEF TokenOf
  <1>5. Used(users', reset', given')
    BY <1>2, <1>3 DEF TokenInv, Tokens, Used
  <1>6. CASE Become(p, Idle)
    BY <1>4, <1>5, <1>6, IdleTokens, TokensStep
  <1>7. CASE Goto(p, "commit") /\ req[p].op = "verify"
    <2> DEFINE r == [req[p] EXCEPT !.pc = "commit"]
    <2>1. r.pc = "commit" /\ r.op = "verify" /\ r.todo = {}
      BY <1>1, <1>7 DEF Request
    <2>2. Become(p, r)
      BY <1>7 DEF Goto
    <2> HIDE DEF r
    <2>3. TokenOf(r, reset', given') /\ ~Signed(r)
      BY <2>1 DEF TokenOf, Signed
    <2> QED
      BY <1>4, <1>5, <2>2, <2>3, TokensStep
  <1> QED
    BY <1>6, <1>7 DEF Answer

(* The account of a registration has no password of a token.               *)
LEMMA CommitTokens ==
    ASSUME TokenInv, NEW p \in Proc, Commit(p)
    PROVE  Tokens'
  <1>1. /\ req[p] \in Request /\ Local(req[p]) /\ TokenOf(req[p], reset, given)
        /\ req[p].pc = "commit" /\ req[p].op = "verify"
        /\ req[p].entry \in Entry /\ req[p].entry.password \in Code
    BY Known DEF Commit, At, TokenInv, Tokens, Local
  <1>2. UNCHANGED <<reset, given>>
    BY DEF Commit, redis, clients
  <1>3. Used(users', reset', given')
    <2>1. users \in [Login -> Account \cup {None}] /\ req[p].entry.login \in Login
      BY <1>1 DEF TokenInv, IInv, TypeOK, Entry
    <2>2. \A l \in Login : users'[l] = users[l] \/ users'[l].password = req[p].entry.password
      BY <2>1 DEF Commit
    <2>3. req[p].entry.password \notin Token
      BY <1>1, PendingAssumption
    <2> QED
      BY <1>2, <2>2, <2>3 DEF Used, TokenInv, Tokens
  <1>4. \A q \in Proc : TokenOf(req[q], reset', given')
    BY <1>2 DEF TokenInv, Tokens
  <1>5. CASE Become(p, Idle)
    BY <1>3, <1>4, <1>5, IdleTokens, TokensStep
  <1>6. CASE Goto(p, "conflict")
    <2> DEFINE r == [req[p] EXCEPT !.pc = "conflict"]
    <2>1. r.pc = "conflict" /\ r.op = "verify" /\ r.todo = req[p].todo
      BY <1>1 DEF Request
    <2>2. Become(p, r)
      BY <1>6 DEF Goto
    <2> HIDE DEF r
    <2>3. TokenOf(r, reset', given') /\ ~Signed(r)
      BY <1>1, <2>1 DEF TokenOf, Signed
    <2> QED
      BY <1>3, <1>4, <2>2, <2>3, TokensStep
  <1> QED
    BY <1>5, <1>6 DEF Commit

(* A signed token is a new one.                                            *)
LEMMA WipeTokens ==
    ASSUME TokenInv, NEW p \in Proc, NEW t \in Token, WipeSessions(p, t)
    PROVE  Tokens'
  <1> DEFINE r == [req[p] EXCEPT !.pc = "gather", !.token = t,
                                 !.todo = {"storeToken", "deletePending"}]
  <1>1. req[p] \in Request /\ Local(req[p]) /\ req[p].pc = "wipe"
    BY Known DEF WipeSessions, At, TokenInv
  <1>2. req[p].op = "resetVerify"
    BY <1>1 DEF Local
  <1>3. /\ r.pc = "gather" /\ r.op = "resetVerify" /\ r.token = t
    BY <1>1, <1>2 DEF Request
  <1>4. Become(p, r) /\ UNCHANGED <<users, given>> /\ reset[t] = None
        /\ \A u \in Token \ {t} : reset'[u] = reset[u]
    <2>1. reset \in [Token -> ResetToken \cup {None}]
      BY DEF TokenInv, IInv, TypeOK
    <2>2. PICK v : reset' = [reset EXCEPT ![t] = v]
      BY DEF WipeSessions
    <2> QED
      BY <2>1, <2>2 DEF WipeSessions, database
  <1> HIDE DEF r
  <1>5. t \notin given /\ given \subseteq Token
    BY <1>4 DEF TokenInv, IInv, Made, TypeOK
  <1>6. \A u \in given : reset'[u] = reset[u]
    BY <1>4, <1>5
  <1>7. TokenOf(r, reset', given')
    BY <1>3, <1>4, <1>5 DEF TokenOf
  <1>8. ASSUME NEW q \in Proc \ {p}
        PROVE  /\ TokenOf(req[q], reset', given')
               /\ Signed(r) /\ Signed(req[q]) => r.token # req[q].token
    <2>1. TokenOf(req[q], reset, given)
          /\ Knows(req[q], pending, reset, users, mailed, minted, spent)
      BY Known DEF TokenInv, Tokens
    <2>2. TokenOf(req[q], reset', given')
      BY <1>4, <1>6, <2>1 DEF TokenOf
    <2>3. Signed(req[q]) => req[q].token # t
      BY <1>4, <2>1 DEF Signed, Knows
    <2> QED
      BY <1>3, <2>2, <2>3
  <1>9. Used(users', reset', given')
    BY <1>4, <1>6 DEF Used, TokenInv, Tokens
  <1> QED
    BY <1>4, <1>7, <1>8, <1>9, TokensStep

-----------------------------------------------------------------------------
(* reset_password_finalize, up to the deletion and after it.               *)
LEMMA FinalizeTokens ==
    ASSUME TokenInv, NEW p \in Proc, CheckToken(p) \/ UpdatePassword(p) \/ SendChanged(p)
    PROVE  Tokens'
  <1>0. UNCHANGED <<reset, users, given>>
    BY DEF CheckToken, UpdatePassword, SendChanged, redis, database, clients
  <1>1. CASE Become(p, Idle)
    BY <1>0, <1>1, EndTokens
  <1>2. ASSUME NEW l \in {"ttl", "update", "deleteToken"}, Goto(p, l),
               req[p].pc # "gather"
        PROVE  Tokens'
    BY <1>0, <1>2, PlaceTokens DEF Place
  <1>3. CASE Goto(p, "commitPassword") /\ req[p].pc = "sendChanged"
    <2> DEFINE r == [req[p] EXCEPT !.pc = "commitPassword"]
    <2>1. req[p] \in Request /\ TokenOf(req[p], reset, given)
      BY Known DEF TokenInv, Tokens
    <2>2. /\ r.pc = "commitPassword" /\ r.op = req[p].op /\ r.token = req[p].token
          /\ r.todo = req[p].todo
      BY <2>1 DEF Request
    <2>3. Become(p, r) /\ "storeToken" \notin req[p].todo
      BY <1>3, <2>1 DEF Goto, TokenOf
    <2> HIDE DEF r
    <2> QED
      BY <1>0, <1>3, <2>2, <2>3, GoTokens
  <1>4. CASE CheckToken(p)
    BY <1>1, <1>2, <1>4 DEF CheckToken, At
  <1>5. CASE UpdatePassword(p)
    BY <1>1, <1>2, <1>5 DEF UpdatePassword, At
  <1>6. CASE SendChanged(p)
    BY <1>1, <1>3, <1>6 DEF SendChanged, At
  <1> QED
    BY <1>4, <1>5, <1>6

LEMMA DeleteTokens ==
    ASSUME TokenInv, NEW p \in Proc, DeleteToken(p)
    PROVE  Tokens'
  <1> DEFINE t == req[p].token
             r == [req[p] EXCEPT !.pc = "sendChanged"]
  <1>1. /\ req[p] \in Request /\ Local(req[p]) /\ TokenOf(req[p], reset, given)
        /\ req[p].pc = "deleteToken"
    BY Known DEF DeleteToken, At, TokenInv, Tokens
  <1>2. req[p].op = "finalize" /\ t \in Token /\ t \in given
    BY <1>1 DEF Local, TokenOf
  <1>3. reset[t] # None
    BY <1>2 DEF TokenInv, IInv, Made
  <1>4. /\ reset' = [reset EXCEPT ![t].live = FALSE] /\ Become(p, r)
        /\ UNCHANGED <<users, given>>
    BY DEF DeleteToken, Goto, database, clients
  <1>5. r.pc = "sendChanged" /\ r.op = "finalize" /\ r.token = t /\ r.todo = req[p].todo
    BY <1>1, <1>2 DEF Request
  <1>6. /\ \A q \in Proc : TokenOf(req[q], reset', given)
        /\ Used(users, reset', given)
    BY <1>2, <1>3, <1>4, OthersTokens
  <1>7. ~reset'[t].live
    BY <1>2, <1>3, <1>4, LiveLemma DEF TokenInv
  <1> HIDE DEF r, t
  <1>8. TokenOf(r, reset', given) /\ ~Signed(r)
    BY <1>1, <1>2, <1>5, <1>7 DEF TokenOf, Signed
  <1> QED
    BY <1>4, <1>6, <1>8, TokensStep

LEMMA PasswordTokens ==
    ASSUME TokenInv, NEW p \in Proc, CommitPassword(p)
    PROVE  Tokens'
  <1> DEFINE t == req[p].token
             l == req[p].name
  <1>1. /\ req[p] \in Request /\ Local(req[p]) /\ TokenOf(req[p], reset, given)
        /\ Knows(req[p], pending, reset, users, mailed, minted, spent)
        /\ req[p].pc = "commitPassword"
    BY Known DEF CommitPassword, At, TokenInv, Tokens
  <1>2. /\ req[p].op = "finalize" /\ t \in given /\ ~reset[t].live
        /\ l \in Login
    BY <1>1 DEF Local, TokenOf
  <1>3. /\ users' = [users EXCEPT ![l].password = t] /\ Become(p, Idle)
        /\ UNCHANGED <<reset, given>>
    BY DEF CommitPassword, redis, clients
  <1>4. Used(users', reset', given')
    <2>1. users \in [Login -> Account \cup {None}]
      BY DEF TokenInv, IInv, TypeOK
    <2>2. t \in Token /\ reset[t] # None /\ reset[t].login = l
      BY <1>1, <1>2 DEF Local, Knows
    <2>3. users[l] \in Account
      BY <2>1, <2>2, <1>2 DEF TokenInv, IInv, OnlyMailboxOwner, Registered
    <2>4. [users[l] EXCEPT !.password = t].password = t
      BY <2>3 DEF Account
    <2>5. users'[l].password = t /\ \A k \in Login \ {l} : users'[k] = users[k]
      BY <1>2, <1>3, <2>1, <2>4
    <2> HIDE DEF t, l
    <2> QED
      BY <1>2, <1>3, <2>5 DEF Used, TokenInv, Tokens
  <1>5. \A q \in Proc : TokenOf(req[q], reset', given')
    BY <1>3 DEF TokenInv, Tokens
  <1> QED
    BY <1>3, <1>4, <1>5, IdleTokens, TokensStep

(* Logins, TTLs and restarts.                                              *)
LEMMA OtherTokens ==
    ASSUME TokenInv,
           \/ \E l \in Login : LogIn(l)
           \/ \E b \in Box : ExpirePending(b) \/ ExpireCooldown(b)
           \/ \E t \in Token : ExpireToken(t)
           \/ \E x \in denied : ExpireDenied(x)
           \/ Restart
           \/ UNCHANGED vars
    PROVE  Tokens'
  <1>1. ASSUME NEW t \in Token, ExpireToken(t) PROVE Tokens'
    <2>1. /\ reset[t] # None /\ reset' = [reset EXCEPT ![t].live = FALSE]
          /\ UNCHANGED <<users, given, req>>
      BY <1>1 DEF ExpireToken, database, clients
    <2>2. /\ \A q \in Proc : TokenOf(req[q], reset', given)
          /\ Used(users, reset', given)
      BY <2>1, OthersTokens
    <2> QED
      BY <2>1, <2>2 DEF TokenInv, Tokens
  <1>2. CASE Restart
    <2>1. UNCHANGED <<reset, users, given>> /\ \A q \in Proc : req'[q] = Idle
      BY <1>2 DEF Restart, redis, database, clients
    <2> QED
      BY <2>1, IdleTokens DEF TokenInv, Tokens
  <1>3. CASE UNCHANGED <<reset, users, given, req>>
    BY <1>3 DEF TokenInv, Tokens
  <1> QED
    BY <1>1, <1>2, <1>3 DEF LogIn, ExpirePending, ExpireCooldown, ExpireDenied, redis,
       database, clients, vars

LEMMA TokenInductive ==
    ASSUME TokenInv, [Next]_vars
    PROVE  TokenInv'
  <1>1. IInv'
    BY Inductive DEF TokenInv
  <1>2. ASSUME NEW p \in Proc, Step(p) PROVE Tokens'
    BY <1>2, StartTokens, BeforeTokens, TaskTokens, StoreTokens, AnswerTokens, CommitTokens,
       WipeTokens, FinalizeTokens, DeleteTokens, PasswordTokens DEF Step
  <1>3. Tokens'
    BY <1>2, OtherTokens DEF Next
  <1> QED
    BY <1>1, <1>3 DEF TokenInv

LEMMA TokenInitial ==
    ASSUME Init
    PROVE  TokenInv
  <1>1. \A p \in Proc : req[p] = Idle
    BY DEF Init
  <1>2. Tokens
    BY <1>1, IdleTokens DEF Init, Tokens, Used
  <1> QED
    BY <1>2, Initial DEF TokenInv

(* A reset token that has set a password is refused from then on, however  *)
(* many requests hold it and in whatever order gathers end.                *)
THEOREM UsedTokens == Spec => []UsedTokenIsDead
  <1>1. Init => TokenInv
    BY TokenInitial
  <1>2. TokenInv /\ [Next]_vars => TokenInv'
    BY TokenInductive
  <1>3. TokenInv => UsedTokenIsDead
    BY DEF TokenInv, Tokens, Used, UsedTokenIsDead, Registered
  <1> QED
    BY <1>1, <1>2, <1>3, PTL DEF Spec
=============================================================================
