-------------------------- MODULE UserLookupProofs --------------------------
(***************************************************************************)
(* Proofs about UserLookup, for any number of requests, made and in flight *)
(***************************************************************************)
EXTENDS UserHistory, TLAPS

(* What the local variables of a request say about the history h, when w   *)
(* rows have been written by the time c.                                   *)
Local(r, h, w, c) ==
    /\ r.seen \in h
    /\ r.pc \in {"get", "select", "set"} => r.mine = NoRow
    /\ r.began <= c
    /\ r.mine # NoRow => /\ r.mine.ver \in 1 .. w
                         /\ r.mine.date <= c
                         /\ \A s \in h : s.ver # r.mine.ver

(* Cached and committed rows are of the past, where a version is one row.  *)
Sourced ==
    /\ NoRow \in past
    /\ row \in past
    /\ \A k \in Key : cache[k] # Miss => cache[k] \in past
    /\ \A s \in past : s.ver <= written /\ s.date <= clock
    /\ \A s, t \in past : s.ver = t.ver => s = t

(* Two requests never write the same version.                              *)
Apart ==
    \A p, q \in Proc :
        p # q /\ req[p].mine # NoRow /\ req[q].mine # NoRow
        => req[p].mine.ver # req[q].mine.ver

(* A token is of a committed password, and newer than its date.            *)
Signed ==
    \A t \in tokens : \E u \in past : u.ver = t.ver /\ u.ver # 0 /\ u.date < t.iat

IInv ==
    /\ TypeOK
    /\ \A p \in Proc : Local(req[p], past, written, clock)
    /\ Sourced
    /\ Apart
    /\ Signed

LEMMA IdleType == Idle \in Request /\ Idle.mine = NoRow /\ Idle.seen = NoRow /\ Idle.began = 0
  <1>1. NoRow \in Row /\ NoToken \in Token
    BY DEF NoRow, Row, NoToken, Token
  <1> QED
    BY <1>1 DEF Idle, Request

(* A step of request p that commits nothing.                               *)
LEMMA StepLemma ==
    ASSUME IInv, NEW p \in Proc, NEW r \in Request, Become(p, r), UNCHANGED <<row, past>>,
           clock' \in Nat, clock <= clock', written' \in Nat, written <= written',
           started' \in 0 .. MaxReq, tokens' \in SUBSET Token, Signed',
           cache' \in [Key -> Row \cup {Miss}],
           \A k \in Key : cache'[k] # Miss => cache'[k] \in past,
           r.seen \in past, r.pc \in {"get", "select", "set"} => r.mine = NoRow,
           r.began <= clock',
           \/ r.mine = NoRow
           \/ r.mine = req[p].mine
           \/ r.mine.ver = written + 1 /\ written' = written + 1 /\ r.mine.date <= clock'
    PROVE  IInv'
  <1>1. req' = [req EXCEPT ![p] = r] /\ req \in [Proc -> Request]
    BY DEF Become, IInv, TypeOK
  <1>2. req' \in [Proc -> Request] /\ req'[p] = r /\ \A q \in Proc \ {p} : req'[q] = req[q]
    BY <1>1
  <1>3. /\ clock \in Nat /\ written \in Nat /\ past \in SUBSET Row
        /\ \A s \in Row : s.ver \in Nat /\ s.date \in Nat
    BY DEF IInv, TypeOK, Row
  <1>4. \A q \in Proc : Local(req[q], past, written, clock) /\ req[q].mine \in Row /\ req[q].began \in Nat
    BY DEF IInv, TypeOK, Request
  <1>5. ASSUME NEW q \in Proc PROVE Local(req'[q], past', written', clock')
    <2>1. CASE q # p
      <3>1. Local(req[q], past, written, clock) /\ req'[q] = req[q] /\ past' = past
        BY <1>2, <1>4, <2>1
      <3> QED
        BY <1>3, <1>4, <3>1 DEF Local
    <2>2. CASE q = p
      <3>1. CASE r.mine = NoRow
        BY <1>2, <2>2, <3>1 DEF Local
      <3>2. CASE r.mine = req[p].mine
        <4>1. r.mine # NoRow => /\ r.mine.ver \in 1 .. written' /\ r.mine.date <= clock'
                                /\ \A s \in past : s.ver # r.mine.ver
          BY <1>3, <1>4, <3>2 DEF Local
        <4> QED
          BY <1>2, <2>2, <4>1 DEF Local
      <3>3. CASE r.mine.ver = written + 1 /\ written' = written + 1 /\ r.mine.date <= clock'
        <4>1. \A s \in past : s.ver <= written
          BY DEF IInv, Sourced
        <4>2. \A s \in past : s.ver # r.mine.ver
          BY <1>3, <3>3, <4>1
        <4>3. r.mine.ver \in 1 .. written'
          BY <1>3, <3>3
        <4> QED
          BY <1>2, <2>2, <3>3, <4>2, <4>3 DEF Local
      <3> QED
        BY <3>1, <3>2, <3>3
    <2> QED
      BY <2>1, <2>2
  <1>6. Sourced'
    <2>1. \A s \in past : s.ver <= written' /\ s.date <= clock'
      BY <1>3 DEF IInv, Sourced
    <2> QED
      BY <2>1 DEF IInv, Sourced
  <1>7. Apart'
    <2>1. \A q \in Proc \ {p} : req[q].mine # NoRow /\ r.mine # NoRow
                                => req[q].mine.ver # r.mine.ver
      <3> SUFFICES ASSUME NEW q \in Proc \ {p}, req[q].mine # NoRow, r.mine # NoRow
                   PROVE  req[q].mine.ver # r.mine.ver
        OBVIOUS
      <3>1. req[q].mine.ver \in 1 .. written
        BY <1>4 DEF Local
      <3>2. CASE r.mine = req[p].mine
        BY <3>2 DEF IInv, Apart
      <3>3. CASE r.mine.ver = written + 1
        BY <1>3, <3>1, <3>3
      <3> QED
        BY <3>2, <3>3
    <2> QED
      BY <1>2, <2>1 DEF IInv, Apart
  <1> QED
    BY <1>2, <1>5, <1>6, <1>7 DEF IInv, TypeOK

(* A step that only changes the local variables, and the time.             *)
LEMMA LocalLemma ==
    ASSUME IInv, NEW p \in Proc, NEW r \in Request, Become(p, r),
           UNCHANGED <<row, past, cache, tokens, written>>, started' \in 0 .. MaxReq,
           clock' \in Nat, clock <= clock',
           r.seen \in past, r.pc \in {"get", "select", "set"} => r.mine = NoRow,
           r.began <= clock', r.mine = NoRow \/ r.mine = req[p].mine
    PROVE  IInv'
  <1>1. Signed' /\ \A k \in Key : cache'[k] # Miss => cache'[k] \in past
    BY DEF IInv, Signed, Sourced
  <1>2. written' \in Nat /\ written <= written'
    BY DEF IInv, TypeOK
  <1> QED
    BY <1>1, <1>2, StepLemma DEF IInv, TypeOK

(* What is known of a request's record.                                    *)
LEMMA Record ==
    ASSUME IInv, NEW p \in Proc
    PROVE  /\ req[p] \in Request
           /\ req[p].seen \in past
           /\ req[p].pc \in {"get", "select", "set"} => req[p].mine = NoRow
           /\ req[p].began \in Nat
           /\ req[p].began <= clock
           /\ clock \in Nat /\ written \in Nat /\ NoRow \in past /\ row \in past
           /\ past \in SUBSET Row /\ 0 <= clock
    BY DEF IInv, TypeOK, Local, Sourced, Request

(* The handler takes the answer of its lookup, a row of the past.          *)
LEMMA LearnLemma ==
    ASSUME IInv, NEW p \in Proc, NEW u \in past, At(p, "get") \/ At(p, "set"), Learn(p, u),
           UNCHANGED <<row, past, written, started>>,
           cache' \in [Key -> Row \cup {Miss}],
           \A k \in Key : cache'[k] # Miss => cache'[k] \in past
    PROVE  IInv'
  <1>0. /\ req[p] \in Request /\ req[p].seen \in past /\ req[p].mine = NoRow
        /\ req[p].began \in Nat /\ req[p].began <= clock /\ clock \in Nat /\ written \in Nat
        /\ NoRow \in past /\ u \in Row /\ 0 <= clock /\ written' <= written'
    BY Record DEF At
  <1>1. ASSUME NEW r \in Request, Become(p, r), UNCHANGED <<tokens, clock>>,
               r.seen \in past, r.mine = NoRow, r.began <= clock
        PROVE  IInv'
    <2>1. Signed'
      BY <1>1 DEF IInv, Signed
    <2> QED
      BY <1>0, <1>1, <2>1, StepLemma DEF IInv, TypeOK
  <1>2. ASSUME Give(p, Idle) PROVE IInv'
    BY <1>0, <1>1, <1>2, IdleType DEF Give
  <1>3. ASSUME NEW pc \in {"get", "accepted", "write"},
               \/ Give(p, [req[p] EXCEPT !.pc = pc])
               \/ Give(p, [req[p] EXCEPT !.pc = pc, !.again = TRUE])
        PROVE  IInv'
    <2> DEFINE r1 == [req[p] EXCEPT !.pc = pc]
               r2 == [req[p] EXCEPT !.pc = pc, !.again = TRUE]
    <2>1. /\ r1 \in Request /\ r1.seen \in past /\ r1.mine = NoRow /\ r1.began <= clock
          /\ r2 \in Request /\ r2.seen \in past /\ r2.mine = NoRow /\ r2.began <= clock
      BY <1>0 DEF Request
    <2> QED
      BY <1>1, <1>3, <2>1 DEF Give
  <1>4. CASE FoundByEmail(p)
    BY <1>2, <1>4 DEF FoundByEmail
  <1>5. CASE CheckPassword(p, u)
    <2>1. CASE u.ver # 0 /\ u.ver = req[p].pw
      <3> DEFINE t == CreateToken(u)
                 r == [req[p] EXCEPT !.pc = "accepted", !.token = t]
      <3>1. t \in Token /\ t.iat = clock + 1 /\ t.ver = u.ver
        BY <1>0 DEF CreateToken, Token, Row
      <3>2. Become(p, r) /\ clock' = clock + 1 /\ tokens' = tokens \cup {t}
        BY <1>5, <2>1, <3>1 DEF CheckPassword
      <3>3. /\ r \in Request /\ r.seen \in past /\ r.mine = NoRow /\ r.pc = "accepted"
            /\ r.began = req[p].began
        BY <1>0, <3>1 DEF Request
      <3>8. r.began <= clock'
        BY <1>0, <3>2, <3>3
      <3>4. u.date < t.iat
        BY <1>0, <3>1 DEF IInv, Sourced, Row
      <3>5. Signed'
        BY <2>1, <3>1, <3>2, <3>4 DEF IInv, Signed
      <3>6. clock' \in Nat /\ clock <= clock' /\ tokens' \in SUBSET Token
        BY <1>0, <3>1, <3>2 DEF IInv, TypeOK
      <3>7. started' \in 0 .. MaxReq /\ written' \in Nat /\ written <= written'
        BY <1>0 DEF IInv, TypeOK
      <3> QED
        BY <3>2, <3>3, <3>5, <3>6, <3>7, <3>8, StepLemma
    <2>2. CASE ~(u.ver # 0 /\ u.ver = req[p].pw)
      BY <1>2, <1>5, <2>2 DEF CheckPassword
    <2> QED
      BY <2>1, <2>2
  <1>6. CASE CheckToken(p, u)
    <2>1. CASE ~Accepts(u, req[p].token)
      BY <1>2, <1>6, <2>1 DEF CheckToken
    <2>2. CASE Accepts(u, req[p].token) /\ req[p].op = "access"
      BY <1>3, <1>6, <2>2 DEF CheckToken
    <2>3. CASE Accepts(u, req[p].token) /\ req[p].op # "access"
      BY <1>3, <1>6, <2>3 DEF CheckToken
    <2> QED
      BY <2>1, <2>2, <2>3
  <1>7. CASE CheckWrite(p, u)
    <2>1. CASE MayWrite(p, u)
      BY <1>3, <1>7, <2>1 DEF CheckWrite
    <2>2. CASE ~MayWrite(p, u)
      BY <1>2, <1>7, <2>2 DEF CheckWrite
    <2> QED
      BY <2>1, <2>2
  <1> QED
    BY <1>4, <1>5, <1>6, <1>7 DEF Learn

-----------------------------------------------------------------------------
LEMMA StartStep ==
    ASSUME IInv, NEW p \in Proc, StartAny(p)
    PROVE  IInv'
  <1>1. PICK op \in Ops :
           \E t \in IF op \in {"access", "change"} THEN tokens ELSE {NoToken} :
              \E w \in IF op \in {"login", "change"} THEN 1 .. written ELSE {0} :
                 Start(p, op, t, w)
    BY DEF StartAny
  <1>2. PICK t \in IF op \in {"access", "change"} THEN tokens ELSE {NoToken} :
              \E w \in IF op \in {"login", "change"} THEN 1 .. written ELSE {0} :
                 Start(p, op, t, w)
    BY <1>1
  <1>3. PICK w \in IF op \in {"login", "change"} THEN 1 .. written ELSE {0} :
                 Start(p, op, t, w)
    BY <1>2
  <1> DEFINE r == [Idle EXCEPT !.op = op, !.pc = "get", !.token = t, !.pw = w,
                               !.floor = row.ver]
  <1>4. op \in Operations /\ t \in Token /\ w \in Nat /\ row.ver \in Nat
    <2>1. NoToken \in Token /\ tokens \in SUBSET Token /\ written \in Nat /\ row \in Row
      BY DEF NoToken, Token, IInv, TypeOK
    <2> QED
      BY <1>1, <2>1, LookupAssumption DEF Row
  <1>5. r \in Request /\ r.seen = NoRow /\ r.mine = NoRow /\ r.began = 0
    BY <1>4, IdleType DEF Request
  <1>6. Become(p, r) /\ UNCHANGED <<row, past, cache, tokens, clock, written>>
    BY <1>3 DEF Start
  <1>7. started' \in 0 .. MaxReq
    BY <1>3, LookupAssumption DEF Start, IInv, TypeOK
  <1>8. NoRow \in past /\ 0 <= clock /\ clock \in Nat /\ clock <= clock
    BY Record
  <1> QED
    BY <1>5, <1>6, <1>7, <1>8, LocalLemma

LEMMA LookupStep ==
    ASSUME IInv, NEW p \in Proc,
           LookupHit(p) \/ LookupMiss(p) \/ LookupSelect(p) \/ LookupSet(p)
    PROVE  IInv'
  <1>0. /\ req[p] \in Request /\ req[p].seen \in past /\ req[p].began \in Nat
        /\ req[p].began <= clock /\ clock \in Nat /\ row \in past /\ past \in SUBSET Row
    BY Record
  <1>1. KeyOf(p) \in Key /\ cache \in [Key -> Row \cup {Miss}] /\ started \in 0 .. MaxReq
    BY DEF KeyOf, Key, IInv, TypeOK
  <1>2. \A k \in Key : cache[k] # Miss => cache[k] \in past
    BY DEF IInv, Sourced
  <1>3. CASE LookupHit(p)
    BY <1>1, <1>2, <1>3, LearnLemma DEF LookupHit
  <1>4. CASE LookupMiss(p)
    <2> DEFINE r == [req[p] EXCEPT !.pc = "select"]
    <2>1. /\ r \in Request /\ r.seen \in past /\ r.mine = NoRow /\ r.began <= clock
          /\ clock <= clock
      BY <1>0, <1>4, Record DEF LookupMiss, At, Request
    <2> QED
      BY <1>0, <1>1, <1>4, <2>1, LocalLemma DEF LookupMiss
  <1>5. CASE LookupSelect(p)
    <2>1. req[p].mine = NoRow /\ Visible(p) = row
      BY <1>5, Record DEF LookupSelect, At, Visible
    <2> DEFINE r1 == [req[p] EXCEPT !.pc = "set", !.seen = row]
               r2 == [r1 EXCEPT !.began = clock + 1]
    <2>2. /\ r1 \in Request /\ r1.seen \in past /\ r1.mine = NoRow /\ r1.began <= clock
          /\ r2 \in Request /\ r2.seen \in past /\ r2.mine = NoRow /\ r2.began = clock + 1
      <3>1. r1 \in Request /\ r1.seen = row /\ r1.mine = NoRow /\ r1.began = req[p].began
        BY <1>0, <2>1 DEF Request
      <3>2. clock + 1 \in Nat
        BY <1>0
      <3> HIDE DEF r1
      <3>3. r2 \in Request /\ r2.seen = row /\ r2.mine = NoRow /\ r2.began = clock + 1
        BY <3>1, <3>2 DEF Request
      <3> QED
        BY <1>0, <3>1, <3>3
    <2>3. \/ Become(p, r1) /\ clock' = clock
          \/ Become(p, r2) /\ clock' = clock + 1
      BY <1>5, <2>1 DEF LookupSelect, Begin
    <2>4. clock' \in Nat /\ clock <= clock'
      BY <1>0, <2>3
    <2>5. UNCHANGED <<row, past, cache, tokens, written, started>>
      BY <1>5 DEF LookupSelect
    <2>6. CASE Become(p, r1) /\ clock' = clock
      BY <1>1, <2>2, <2>4, <2>5, <2>6, LocalLemma
    <2>7. CASE Become(p, r2) /\ clock' = clock + 1
      <3>1. r2.began <= clock'
        BY <1>0, <2>2, <2>7
      <3> QED
        BY <1>1, <2>2, <2>4, <2>5, <2>7, <3>1, LocalLemma
    <2> QED
      BY <2>3, <2>6, <2>7
  <1>6. CASE LookupSet(p)
    <2>1. cache' \in [Key -> Row \cup {Miss}]
          /\ \A k \in Key : cache'[k] # Miss => cache'[k] \in past
      BY <1>0, <1>1, <1>2, <1>6 DEF LookupSet
    <2> QED
      BY <1>0, <1>6, <2>1, LearnLemma DEF LookupSet
  <1> QED
    BY <1>3, <1>4, <1>5, <1>6

LEMMA WriteStep ==
    ASSUME IInv, NEW p \in Proc, WriteSelect(p) \/ Update(p) \/ Create(p)
    PROVE  IInv'
  <1>0. /\ req[p] \in Request /\ req[p].seen \in past /\ req[p].began \in Nat
        /\ req[p].began <= clock /\ clock \in Nat /\ written \in Nat
        /\ started \in 0 .. MaxReq
    BY Record DEF IInv, TypeOK
  <1>1. CASE WriteSelect(p)
    <2> DEFINE r1 == [req[p] EXCEPT !.pc = "update"]
               r2 == [r1 EXCEPT !.began = clock + 1]
    <2>1. /\ r1 \in Request /\ r1.seen \in past /\ r1.mine = req[p].mine
          /\ r1.began <= clock /\ r1.pc = "update"
          /\ r2 \in Request /\ r2.seen \in past /\ r2.mine = req[p].mine
          /\ r2.began = clock + 1 /\ r2.pc = "update"
      <3>1. /\ r1 \in Request /\ r1.seen \in past /\ r1.mine = req[p].mine
            /\ r1.began <= clock /\ r1.pc = "update"
        BY <1>0 DEF Request
      <3>2. clock + 1 \in Nat
        BY <1>0
      <3> HIDE DEF r1
      <3> QED
        BY <3>1, <3>2 DEF Request
    <2>2. \/ Become(p, r1) /\ clock' = clock
          \/ Become(p, r2) /\ clock' = clock + 1
      BY <1>1 DEF WriteSelect, Begin
    <2>3. clock' \in Nat /\ clock <= clock' /\ (clock' = clock + 1 => r2.began <= clock')
      BY <1>0, <2>1, <2>2
    <2>4. UNCHANGED <<row, past, cache, tokens, written, started>>
      BY <1>1 DEF WriteSelect
    <2>5. CASE Become(p, r1) /\ clock' = clock
      BY <1>0, <2>1, <2>3, <2>4, <2>5, LocalLemma
    <2>6. CASE Become(p, r2) /\ clock' = clock + 1
      BY <1>0, <2>1, <2>3, <2>4, <2>6, LocalLemma
    <2> QED
      BY <2>2, <2>5, <2>6
  <1>2. ASSUME NEW d \in Nat, d <= clock, NEW pc \in {"drop", "dropEmail"},
               Become(p, [req[p] EXCEPT !.pc = pc, !.mine = [ver |-> written + 1, date |-> d]]),
               written' = written + 1, UNCHANGED <<row, past, cache, tokens, clock, started>>
        PROVE  IInv'
    <2> DEFINE m == [ver |-> written + 1, date |-> d]
               r == [req[p] EXCEPT !.pc = pc, !.mine = m]
    <2>1. m \in Row
      BY <1>0 DEF Row
    <2>2. /\ r \in Request /\ r.seen \in past /\ r.mine = m /\ r.began <= clock /\ r.pc = pc
      BY <1>0, <2>1 DEF Request
    <2>3. Signed' /\ cache' \in [Key -> Row \cup {Miss}]
          /\ \A k \in Key : cache'[k] # Miss => cache'[k] \in past
      BY <1>2 DEF IInv, Signed, Sourced, TypeOK
    <2>4. written' \in Nat /\ written <= written' /\ clock' = clock /\ clock <= clock'
      BY <1>0, <1>2
    <2>5. r.mine.ver = written + 1 /\ r.mine.date <= clock'
      BY <1>2, <2>2, <2>4
    <2>6. tokens' \in SUBSET Token
      BY <1>2 DEF IInv, TypeOK
    <2> HIDE DEF r
    <2> QED
      BY <1>0, <1>2, <2>2, <2>3, <2>4, <2>5, <2>6, StepLemma DEF r
  <1>3. CASE Update(p)
    BY <1>0, <1>2, <1>3 DEF Update
  <1>4. CASE Create(p)
    <2>1. 0 \in Nat /\ 0 <= clock /\ "dropEmail" \in {"drop", "dropEmail"}
      BY <1>0
    <2>2. /\ Become(p, [req[p] EXCEPT !.pc = "dropEmail",
                                      !.mine = [ver |-> written + 1, date |-> 0]])
          /\ written' = written + 1 /\ UNCHANGED <<row, past, cache, tokens, clock, started>>
      BY <1>4 DEF Create
    <2> QED
      BY <1>2, <2>1, <2>2
  <1> QED
    BY <1>1, <1>3, <1>4

(* Invalidations, answers and rollbacks.                                   *)
LEMMA EndStep ==
    ASSUME IInv, NEW p \in Proc, Drop(p) \/ CreateDrop(p) \/ AnswerAccepted(p) \/ Rollback(p)
    PROVE  IInv'
  <1>0. /\ req[p] \in Request /\ req[p].seen \in past /\ req[p].began \in Nat
        /\ req[p].began <= clock /\ clock \in Nat /\ written \in Nat
        /\ started \in 0 .. MaxReq /\ NoRow \in past /\ 0 <= clock
        /\ written <= written /\ clock <= clock
    BY Record DEF IInv, TypeOK
  <1>1. ASSUME NEW pc \in {"commit", "dropLogin"}, Become(p, [req[p] EXCEPT !.pc = pc]),
               UNCHANGED <<row, past, tokens, clock, written, started>>,
               cache' \in [Key -> Row \cup {Miss}],
               \A k \in Key : cache'[k] \in {cache[k], Miss}
        PROVE  IInv'
    <2> DEFINE r == [req[p] EXCEPT !.pc = pc]
    <2>1. /\ r \in Request /\ r.seen \in past /\ r.mine = req[p].mine /\ r.began <= clock
          /\ r.pc = pc
      BY <1>0 DEF Request
    <2>2. Signed' /\ \A k \in Key : cache'[k] # Miss => cache'[k] \in past
      BY <1>1 DEF IInv, Signed, Sourced
    <2>3. tokens' \in SUBSET Token
      BY <1>1 DEF IInv, TypeOK
    <2> HIDE DEF r
    <2> QED
      BY <1>0, <1>1, <2>1, <2>2, <2>3, StepLemma DEF r
  <1>2. cache \in [Key -> Row \cup {Miss}]
    BY DEF IInv, TypeOK
  <1>3. CASE Drop(p)
    BY <1>1, <1>2, <1>3 DEF Drop
  <1>4. CASE CreateDrop(p)
    BY <1>1, <1>2, <1>4 DEF CreateDrop
  <1>5. CASE AnswerAccepted(p) \/ Rollback(p)
    <2>1. Become(p, Idle) /\ UNCHANGED <<row, past, cache, tokens, clock, written, started>>
      BY <1>5 DEF AnswerAccepted, Rollback
    <2> QED
      BY <1>0, <2>1, IdleType, LocalLemma
  <1> QED
    BY <1>3, <1>4, <1>5

(* The row of a commit has a version that no row and no other request has. *)
LEMMA CommitStep ==
    ASSUME IInv, NEW p \in Proc, Commit(p)
    PROVE  IInv'
  <1>0. /\ req[p] \in Request /\ clock \in Nat /\ written \in Nat /\ past \in SUBSET Row
        /\ started \in 0 .. MaxReq /\ NoRow \in past /\ 0 <= clock /\ clock <= clock
        /\ req[p].mine \in Row
    BY Record DEF IInv, TypeOK, Request
  <1>1. Become(p, Idle) /\ UNCHANGED <<cache, tokens, clock, written, started>>
    BY DEF Commit
  <1>2. CASE UNCHANGED <<row, past>>
    BY <1>0, <1>1, <1>2, IdleType, LocalLemma
  <1>3. CASE row' = req[p].mine /\ past' = past \cup {req[p].mine}
    <2> DEFINE m == req[p].mine
    <2>1. req' = [req EXCEPT ![p] = Idle] /\ req \in [Proc -> Request]
      BY <1>1 DEF Become, IInv, TypeOK
    <2>2. TypeOK'
      BY <1>0, <1>1, <1>3, <2>1, IdleType DEF IInv, TypeOK
    <2>3. CASE m = NoRow
      <3>1. past' = past
        BY <1>0, <1>3, <2>3
      <3>2. \A q \in Proc : Local(req'[q], past', written', clock')
        BY <1>0, <1>1, <2>1, <3>1, IdleType DEF IInv, Local
      <3>3. Sourced' /\ Signed'
        BY <1>1, <1>3, <2>3, <3>1 DEF IInv, Sourced, Signed
      <3>4. Apart'
        BY <2>1, IdleType DEF IInv, Apart
      <3> QED
        BY <2>2, <3>2, <3>3, <3>4 DEF IInv
    <2>4. CASE m # NoRow
      <3>1. m.ver \in 1 .. written /\ m.date <= clock /\ \A s \in past : s.ver # m.ver
        BY <2>4 DEF IInv, Local
      <3>2. ASSUME NEW q \in Proc PROVE Local(req'[q], past', written', clock')
        <4>1. CASE q = p
          BY <1>0, <1>1, <1>3, <2>1, <4>1, IdleType DEF Local
        <4>2. CASE q # p
          <5>1. req'[q] = req[q] /\ Local(req[q], past, written, clock)
            BY <2>1, <4>2 DEF IInv
          <5>2. req[q].mine # NoRow => req[q].mine.ver # m.ver
            BY <2>4, <4>2 DEF IInv, Apart
          <5> QED
            BY <1>1, <1>3, <5>1, <5>2 DEF Local
        <4> QED
          BY <4>1, <4>2
      <3>3. Sourced'
        <4>1. m.ver <= written /\ m.date <= clock
          BY <1>0, <3>1
        <4> QED
          BY <1>1, <1>3, <3>1, <4>1 DEF IInv, Sourced
      <3>4. Signed' /\ Apart'
        BY <1>1, <1>3, <2>1, IdleType DEF IInv, Signed, Apart
      <3> QED
        BY <2>2, <3>2, <3>3, <3>4 DEF IInv
    <2> QED
      BY <2>3, <2>4
  <1> QED
    BY <1>2, <1>3 DEF Commit

LEMMA OtherStep ==
    ASSUME IInv, (\E k \in Key : Expire(k)) \/ Restart \/ UNCHANGED vars
    PROVE  IInv'
  <1>1. ASSUME NEW k \in Key, Expire(k) PROVE IInv'
    <2>1. /\ cache' = [cache EXCEPT ![k] = Miss]
          /\ UNCHANGED <<row, past, req, tokens, clock, written, started>>
      BY <1>1 DEF Expire
    <2>2. TypeOK' /\ Sourced'
      BY <2>1 DEF IInv, TypeOK, Sourced
    <2>3. Apart' /\ Signed' /\ \A p \in Proc : Local(req'[p], past', written', clock')
      BY <2>1 DEF IInv, Apart, Signed, Local
    <2> QED
      BY <2>2, <2>3 DEF IInv
  <1>2. CASE Restart
    <2>1. /\ req' = [p \in Proc |-> Idle]
          /\ UNCHANGED <<row, past, cache, tokens, clock, written, started>>
      BY <1>2 DEF Restart
    <2>2. TypeOK' /\ Sourced' /\ Signed'
      BY <2>1, IdleType DEF IInv, TypeOK, Sourced, Signed
    <2>3. Apart' /\ \A p \in Proc : Local(req'[p], past', written', clock')
      BY <2>1, IdleType DEF IInv, TypeOK, Apart, Local, Sourced
    <2> QED
      BY <2>2, <2>3 DEF IInv
  <1>3. CASE UNCHANGED vars
    BY <1>3 DEF vars, IInv, TypeOK, Sourced, Apart, Signed, Local
  <1> QED
    BY <1>1, <1>2, <1>3

(* Every step keeps the invariant: one lemma per group of actions.         *)
LEMMA Inductive == IInv /\ [Next]_vars => IInv'
    BY StartStep, LookupStep, WriteStep, EndStep, CommitStep, OtherStep DEF Next, Step

LEMMA Initial == Init => IInv
  <1> SUFFICES ASSUME Init PROVE IInv
    OBVIOUS
  <1>1. NoRow \in Row /\ NoRow.ver = 0 /\ NoRow.date = 0
    BY DEF NoRow, Row
  <1>2. TypeOK
    BY <1>1, IdleType, LookupAssumption DEF Init, TypeOK
  <1> QED
    BY <1>1, <1>2, IdleType DEF Init, IInv, Sourced, Apart, Signed, Local

LEMMA Invariance == Spec => []IInv
    BY Initial, Inductive, PTL DEF Spec

-----------------------------------------------------------------------------
(* The variables keep their types, for all values of the constants.        *)
THEOREM TypeCorrect == Spec => []TypeOK
  <1>1. IInv => TypeOK
    BY DEF IInv
  <1> QED
    BY <1>1, Invariance, PTL

(* No request decides on a row that was never committed, and none is in    *)
(* the cache, whatever transactions are rolled back.                       *)
THEOREM Committed == Spec => []OnlyCommitted
  <1>1. IInv => OnlyCommitted
    BY DEF IInv, Sourced, Local, OnlyCommitted
  <1> QED
    BY <1>1, Invariance, PTL

(* Nobody is locked out: the token of a login with the committed password  *)
(* is newer than the date of the row.                                      *)
THEOREM TokensAccepted == Spec => []NewTokenAccepted
  <1>1. IInv => NewTokenAccepted
    <2> SUFFICES ASSUME IInv, NEW t \in tokens, t.ver = row.ver PROVE Accepts(row, t)
      BY DEF NewTokenAccepted
    <2>1. PICK u \in past : u.ver = t.ver /\ u.ver # 0 /\ u.date < t.iat
      BY DEF IInv, Signed
    <2>2. u = row
      BY <2>1 DEF IInv, Sourced
    <2> QED
      BY <2>1, <2>2 DEF Accepts
  <1> QED
    BY <1>1, Invariance, PTL

(* A step that commits nothing changes cached answers only, and what it    *)
(* caches is a row of the past.                                            *)
LEMMA ChangeLemma ==
    ASSUME IInv, IInv', UNCHANGED <<row, past>>
    PROVE  Promise!Change
  <1>1. cache' \in [Key -> Row \cup {Miss}]
    BY DEF IInv, TypeOK
  <1>2. \A k \in Key : cache'[k] # Miss => cache'[k] \in past
    BY DEF IInv, Sourced
  <1> QED
    BY <1>1, <1>2 DEF Promise!Change

LEMMA CommitLemma ==
    ASSUME IInv, NEW p \in Proc, Commit(p)
    PROVE  Promise!Commit \/ UNCHANGED <<row, past>>
  <1> SUFFICES ASSUME row' = req[p].mine, past' = past \cup {req[p].mine}
               PROVE  Promise!Commit
    BY DEF Commit
  <1>1. row' \in Row /\ cache' = cache
    BY DEF Commit, IInv, TypeOK, Request
  <1>2. [k \in Key |-> row'] \in [Key -> Row]
    BY <1>1
  <1>3. [k \in Key |-> past'] =
           [k \in Key |-> [j \in Key |-> past][k] \cup {[j \in Key |-> row'][k]}]
    OBVIOUS
  <1> QED
    BY <1>1, <1>2, <1>3 DEF Promise!Commit

(* UserLookup implements ReadThrough: each step of a request is a commit, a *)
(* change of cached answers to answers of the past, or a stutter.          *)
THEOREM LookupRefinement == Spec => ReadThroughRefined
  <1>1. Init => Promise!Init
    BY DEF Init, Promise!Init, NoRow, Row
  <1>2. IInv /\ IInv' /\ [Next]_vars => [Promise!Next]_Promise!vars
    <2> SUFFICES ASSUME IInv, IInv', [Next]_vars PROVE [Promise!Next]_Promise!vars
      OBVIOUS
    <2>1. CASE \E p \in Proc : Commit(p)
      BY <2>1, CommitLemma, ChangeLemma DEF Promise!Next
    <2>2. CASE ~\E p \in Proc : Commit(p)
      <3>1. UNCHANGED <<row, past>>
        BY <2>2 DEF Next, Step, vars, StartAny, Start, LookupHit, LookupMiss, LookupSelect,
                    LookupSet, WriteSelect, Update, Drop, Create, CreateDrop,
                    AnswerAccepted, Rollback, Expire, Restart
      <3> QED
        BY <3>1, ChangeLemma DEF Promise!Next
    <2> QED
      BY <2>1, <2>2
  <1> QED
    BY <1>1, <1>2, Invariance, PTL DEF Spec, ReadThroughRefined, Promise!Spec
-----------------------------------------------------------------------------
(* UserHistory.  What a step makes of the request that takes it.           *)

(* The request that takes a step is still the same one.                    *)
Goes(p) ==
    /\ req'[p].op = req[p].op
    /\ req'[p].pw = req[p].pw
    /\ req'[p].floor = req[p].floor

(* p decides on u, the answer of its lookup.                               *)
Decides(p, u) ==
    /\ u \in past
    /\ \/ LookupHit(p) /\ u = cache[KeyOf(p)]
       \/ LookupSet(p) /\ u = req[p].seen
    /\ req'[p].mine = NoRow
    /\ \/ req'[p].pc = "get"
       \/ req'[p].pc = "accepted" /\ (req[p].op = "login" => req[p].pw = u.ver)
       \/ /\ req'[p].pc = "write"
          /\ req[p].op \in {"change", "reset", "create"}
          /\ req[p].op # "create" => u.ver # 0
          /\ req[p].op = "change" => req[p].pw = u.ver

(* p goes on, within its lookup or its transaction.                        *)
Proceeds(p) ==
    \/ /\ LookupMiss(p) /\ req'[p].pc = "select"
       /\ req'[p].mine = req[p].mine
    \/ /\ LookupSelect(p) /\ req'[p].pc = "set"
       /\ req'[p].mine = req[p].mine /\ req'[p].seen = row
    \/ /\ WriteSelect(p) /\ req'[p].pc = "update"
       /\ req'[p].mine = req[p].mine
    \/ /\ Update(p) /\ req'[p].pc = "drop"
       /\ req'[p].mine # NoRow /\ req'[p].mine.ver = written + 1
    \/ /\ Drop(p) /\ req'[p].pc = "commit"
       /\ req'[p].mine = req[p].mine
    \/ /\ Create(p) /\ req'[p].pc = "dropEmail"
       /\ req'[p].mine # NoRow
    \/ /\ CreateDrop(p) /\ At(p, "dropEmail") /\ req'[p].pc = "dropLogin"
       /\ req'[p].mine = req[p].mine /\ cache'["email"] = Miss
    \/ /\ CreateDrop(p) /\ At(p, "dropLogin") /\ req'[p].pc = "commit"
       /\ req'[p].mine = req[p].mine /\ cache' = [cache EXCEPT !["login"] = Miss]

Begins(p) ==
    /\ req'[p].pc = "get"
    /\ req'[p].mine = NoRow
    /\ req'[p].floor = row.ver

Turn(p) ==
    \/ req'[p] = Idle
    \/ At(p, "idle") /\ Begins(p)
    \/ Goes(p) /\ \E u \in past : Decides(p, u)
    \/ Goes(p) /\ Proceeds(p)

(* The handler decides, or the request is over.                            *)
LEMMA LearnTurn ==
    ASSUME IInv, NEW p \in Proc, NEW u \in past, At(p, "get") \/ At(p, "set"), Learn(p, u)
    PROVE  \/ req'[p] = Idle
           \/ /\ Goes(p)
              /\ req'[p].mine = NoRow
              /\ \/ req'[p].pc = "get"
                 \/ req'[p].pc = "accepted" /\ (req[p].op = "login" => req[p].pw = u.ver)
                 \/ /\ req'[p].pc = "write"
                    /\ req[p].op \in {"change", "reset", "create"}
                    /\ req[p].op # "create" => u.ver # 0
                    /\ req[p].op = "change" => req[p].pw = u.ver
  <1>0. /\ req \in [Proc -> Request] /\ req[p] \in Request /\ req[p].mine = NoRow
    BY Record DEF At, IInv, TypeOK
  <1>1. CASE FoundByEmail(p)
    BY <1>0, <1>1 DEF FoundByEmail, Give, Become
  <1>2. CASE CheckPassword(p, u)
    <2>1. CASE u.ver # 0 /\ u.ver = req[p].pw
      <3>1. req' = [req EXCEPT ![p] = [req[p] EXCEPT !.pc = "accepted", !.token = CreateToken(u)]]
        BY <1>2, <2>1 DEF CheckPassword, Become
      <3> QED
        BY <1>0, <2>1, <3>1 DEF Request, Goes
    <2>2. CASE ~(u.ver # 0 /\ u.ver = req[p].pw)
      BY <1>0, <1>2, <2>2 DEF CheckPassword, Give, Become
    <2> QED
      BY <2>1, <2>2
  <1>3. CASE CheckToken(p, u)
    <2>0. req[p].op # "login"
      BY <1>3 DEF CheckToken
    <2>1. CASE ~Accepts(u, req[p].token)
      BY <1>0, <1>3, <2>1 DEF CheckToken, Give, Become
    <2>2. CASE Accepts(u, req[p].token) /\ req[p].op = "access"
      <3>1. req' = [req EXCEPT ![p] = [req[p] EXCEPT !.pc = "accepted"]]
        BY <1>3, <2>2 DEF CheckToken, Give, Become
      <3> QED
        BY <1>0, <2>0, <3>1 DEF Request, Goes
    <2>3. CASE Accepts(u, req[p].token) /\ req[p].op # "access"
      <3>1. req' = [req EXCEPT ![p] = [req[p] EXCEPT !.pc = "get", !.again = TRUE]]
        BY <1>3, <2>3 DEF CheckToken, Give, Become
      <3> QED
        BY <1>0, <3>1 DEF Request, Goes
    <2> QED
      BY <2>1, <2>2, <2>3
  <1>4. CASE CheckWrite(p, u)
    <2>1. CASE MayWrite(p, u)
      <3>1. req' = [req EXCEPT ![p] = [req[p] EXCEPT !.pc = "write"]]
        BY <1>4, <2>1 DEF CheckWrite, Give, Become
      <3>2. /\ req[p].op \in {"change", "reset", "create"}
            /\ req[p].op # "create" => u.ver # 0
            /\ req[p].op = "change" => req[p].pw = u.ver
        BY <2>1 DEF MayWrite
      <3> QED
        BY <1>0, <3>1, <3>2 DEF Request, Goes
    <2>2. CASE ~MayWrite(p, u)
      BY <1>0, <1>4, <2>2 DEF CheckWrite, Give, Become
    <2> QED
      BY <2>1, <2>2
  <1> QED
    BY <1>1, <1>2, <1>3, <1>4 DEF Learn

(* What a request becomes by its own step.                                 *)
LEMMA OwnTurn ==
    ASSUME IInv, NEW p \in Proc, StartAny(p) \/ Step(p) \/ Rollback(p)
    PROVE  Turn(p)
  <1>0. /\ req \in [Proc -> Request] /\ req[p] \in Request /\ past \in SUBSET Row
        /\ req[p].seen \in past /\ cache \in [Key -> Row \cup {Miss}] /\ written \in Nat
        /\ KeyOf(p) \in Key /\ (cache[KeyOf(p)] # Miss => cache[KeyOf(p)] \in past)
    BY Record DEF IInv, TypeOK, Sourced, KeyOf, Key
  <1>1. CASE StartAny(p)
    <2>1. PICK op, t, w : Start(p, op, t, w)
      BY <1>1 DEF StartAny
    <2>2. req'[p].pc = "get" /\ req'[p].mine = NoRow /\ req'[p].floor = row.ver
      BY <1>0, <2>1 DEF Start, Become, Idle
    <2> QED
      BY <2>1, <2>2 DEF Start, Turn, Begins
  <1>2. CASE LookupHit(p)
    <2>1. PICK u \in past : u = cache[KeyOf(p)] /\ Learn(p, u) /\ At(p, "get")
      BY <1>0, <1>2 DEF LookupHit
    <2> QED
      BY <1>2, <2>1, LearnTurn DEF Turn, Decides
  <1>3. CASE LookupSet(p)
    <2>1. PICK u \in past : u = req[p].seen /\ Learn(p, u) /\ At(p, "set")
      BY <1>0, <1>3 DEF LookupSet
    <2> QED
      BY <1>3, <2>1, LearnTurn DEF Turn, Decides
  <1>4. CASE LookupMiss(p)
    BY <1>0, <1>4 DEF LookupMiss, Become, Request, Turn, Goes, Proceeds
  <1>5. CASE LookupSelect(p)
    <2>1. req[p].mine = NoRow /\ Visible(p) = row
      BY <1>5, Record DEF LookupSelect, At, Visible
    <2>2. PICK b : req' = [req EXCEPT ![p] = [[req[p] EXCEPT !.pc = "set", !.seen = row]
                                                EXCEPT !.began = b]]
      <3> DEFINE r == [req[p] EXCEPT !.pc = "set", !.seen = row]
      <3>1. \/ req' = [req EXCEPT ![p] = [r EXCEPT !.began = clock + 1]]
            \/ req' = [req EXCEPT ![p] = r]
        BY <1>5, <2>1 DEF LookupSelect, Begin, Become
      <3>2. r = [r EXCEPT !.began = r.began]
        BY <1>0 DEF Request
      <3> HIDE DEF r
      <3> QED
        BY <3>1, <3>2 DEF r
    <2>3. /\ req'[p].pc = "set" /\ req'[p].seen = row /\ req'[p].mine = req[p].mine
          /\ Goes(p)
      BY <1>0, <2>2 DEF Request, Goes
    <2> QED
      BY <1>5, <2>3 DEF Turn, Proceeds
  <1>6. CASE WriteSelect(p)
    <2>1. PICK b : req' = [req EXCEPT ![p] = [[req[p] EXCEPT !.pc = "update"] EXCEPT !.began = b]]
      <3> DEFINE r == [req[p] EXCEPT !.pc = "update"]
      <3>1. \/ req' = [req EXCEPT ![p] = [r EXCEPT !.began = clock + 1]]
            \/ req' = [req EXCEPT ![p] = r]
        BY <1>6 DEF WriteSelect, Begin, Become
      <3>2. r = [r EXCEPT !.began = r.began]
        BY <1>0 DEF Request
      <3> HIDE DEF r
      <3> QED
        BY <3>1, <3>2 DEF r
    <2>2. req'[p].pc = "update" /\ req'[p].mine = req[p].mine /\ Goes(p)
      BY <1>0, <2>1 DEF Request, Goes
    <2> QED
      BY <1>6, <2>2 DEF Turn, Proceeds
  <1>7. CASE Update(p) \/ Create(p)
    <2>1. \E c, d : req' = [req EXCEPT ![p] = [req[p] EXCEPT !.pc = c,
                                                 !.mine = [ver |-> written + 1, date |-> d]]]
      <3>1. CASE Update(p)
        BY <3>1 DEF Update, Become
      <3>2. CASE Create(p)
        BY <3>2 DEF Create, Become
      <3> QED
        BY <1>7, <3>1, <3>2
    <2> PICK c, d : req' = [req EXCEPT ![p] = [req[p] EXCEPT !.pc = c,
                                                 !.mine = [ver |-> written + 1, date |-> d]]]
      BY <2>1
    <2>2. req'[p].mine.ver = written + 1 /\ Goes(p)
      BY <1>0 DEF Request, Goes
    <2>3. req'[p].mine # NoRow
      BY <1>0, <2>2 DEF NoRow
    <2>4. (Update(p) => req'[p].pc = "drop") /\ (Create(p) => req'[p].pc = "dropEmail")
      BY <1>0 DEF Update, Create, Become, Request
    <2> QED
      BY <1>7, <2>2, <2>3, <2>4 DEF Turn, Proceeds
  <1>8. CASE Drop(p)
    BY <1>0, <1>8 DEF Drop, Become, Request, Turn, Goes, Proceeds
  <1>9. CASE CreateDrop(p)
    <2>1. CASE /\ At(p, "dropEmail")
               /\ cache' = [cache EXCEPT !["email"] = Miss]
               /\ Become(p, [req[p] EXCEPT !.pc = "dropLogin"])
      <3>1. cache'["email"] = Miss
        BY <1>0, <2>1 DEF Key
      <3> QED
        BY <1>0, <1>9, <2>1, <3>1 DEF Become, Request, Turn, Goes, Proceeds
    <2>2. CASE /\ At(p, "dropLogin")
               /\ cache' = [cache EXCEPT !["login"] = Miss]
               /\ Become(p, [req[p] EXCEPT !.pc = "commit"])
      BY <1>0, <1>9, <2>2 DEF Become, Request, Turn, Goes, Proceeds
    <2> QED
      BY <1>9, <2>1, <2>2 DEF CreateDrop
  <1>10. CASE Commit(p) \/ AnswerAccepted(p) \/ Rollback(p)
    BY <1>0, <1>10 DEF Commit, AnswerAccepted, Rollback, Become, Turn
  <1> QED
    BY <1>1, <1>2, <1>3, <1>4, <1>5, <1>6, <1>7, <1>8, <1>9, <1>10 DEF Step

(* Of a request that takes no step nothing changes.                        *)
LEMMA OtherTurn ==
    ASSUME IInv, NEW p \in Proc, StartAny(p) \/ Step(p) \/ Rollback(p), NEW q \in Proc, q # p
    PROVE  req'[q] = req[q]
  <1>1. req \in [Proc -> Request]
    BY DEF IInv, TypeOK
  <1>2. \A u : Learn(p, u) => req'[q] = req[q]
    BY <1>1 DEF Learn, FoundByEmail, CheckPassword, CheckToken, CheckWrite, Give, Become
  <1>3. LookupHit(p) \/ LookupSet(p) => req'[q] = req[q]
    BY <1>2 DEF LookupHit, LookupSet
  <1>4. LookupSelect(p) \/ WriteSelect(p) => req'[q] = req[q]
    BY <1>1 DEF LookupSelect, WriteSelect, Begin, Become
  <1>5. StartAny(p) => req'[q] = req[q]
    BY <1>1 DEF StartAny, Start, Become
  <1> QED
    BY <1>1, <1>3, <1>4, <1>5
       DEF Step, LookupMiss, Update, Drop, Create, CreateDrop, Commit, AnswerAccepted,
           Rollback, Become

(* The requests after a step: one has taken a turn, or all have ended.     *)
LEMMA Turns ==
    ASSUME IInv, [Next]_vars, NEW p \in Proc
    PROVE  req'[p] = req[p] \/ Turn(p)
  <1>1. ASSUME NEW q \in Proc, StartAny(q) \/ Step(q) \/ Rollback(q)
        PROVE  req'[p] = req[p] \/ Turn(p)
    BY <1>1, OwnTurn, OtherTurn
  <1>2. CASE UNCHANGED req
    BY <1>2
  <1>3. CASE Restart
    BY <1>3 DEF Restart, Turn
  <1> QED
    BY <1>1, <1>2, <1>3 DEF Next, Expire, vars

(* Only a commit changes the committed row.                                *)
LEMMA RowStays ==
    ASSUME [Next]_vars, row' # row
    PROVE  \E p \in Proc : Commit(p)
  BY DEF Next, Step, vars, StartAny, Start, LookupHit, LookupMiss, LookupSelect, LookupSet,
         WriteSelect, Update, Drop, Create, CreateDrop, AnswerAccepted, Rollback, Expire,
         Restart

(* Entries are filled by lookups, and dropped by everybody.                *)
LEMMA EntryStep ==
    ASSUME IInv, [Next]_vars, NEW k \in Key
    PROVE  \/ cache'[k] \in {cache[k], Miss} /\ ~ \E p \in Proc : Fills(p, k)
           \/ \E p \in Proc : Fills(p, k) /\ cache'[k] = req[p].seen /\ row' = row
  <1>0. cache \in [Key -> Row \cup {Miss}]
    BY DEF IInv, TypeOK
  <1>1. ASSUME NEW p \in Proc, Fills(p, k)
        PROVE  cache'[k] = req[p].seen /\ row' = row
    BY <1>0, <1>1 DEF Fills, LookupSet
  <1>2. ASSUME NEW p \in Proc, LookupSet(p), KeyOf(p) # k
        PROVE  cache'[k] = cache[k]
    BY <1>0, <1>2 DEF LookupSet
  <1>3. ASSUME ~ \E p \in Proc : LookupSet(p)
        PROVE  cache'[k] \in {cache[k], Miss}
    <2>1. ASSUME NEW p \in Proc, Drop(p) \/ CreateDrop(p)
          PROVE  cache'[k] \in {cache[k], Miss}
      BY <1>0, <2>1 DEF Drop, CreateDrop
    <2>2. ASSUME NEW j \in Key, Expire(j)
          PROVE  cache'[k] \in {cache[k], Miss}
      BY <1>0, <2>2 DEF Expire
    <2> QED
      BY <1>3, <2>1, <2>2
         DEF Next, Step, vars, StartAny, Start, LookupHit, LookupMiss, LookupSelect,
             WriteSelect, Update, Create, Commit, AnswerAccepted, Rollback, Restart
  <1> QED
    BY <1>1, <1>2, <1>3 DEF Fills
-----------------------------------------------------------------------------
(* The races.  Until its SET a lookup that no commit has overtaken has the *)
(* committed row; what a writer has invalidated stays out of the cache     *)
(* until its commit, unless it is filled meanwhile.                        *)
Prompt(p) == At(p, "set") /\ p \notin overtaken => req[p].seen = row

Cleared(p) == \A k \in Key : Dropped(p, k) => cache[k] = Miss \/ k \in raced

RaceInv ==
    /\ IInv
    /\ StaleOnlyByRace
    /\ \A p \in Proc : Prompt(p) /\ Cleared(p)

(* A fill that no commit and no writer races gives the committed row.      *)
LEMMA FillStep ==
    ASSUME RaceInv, HNext, NEW k \in Key, cache'[k] # Miss, k \notin raced'
    PROVE  cache'[k] = row /\ \A q \in Proc : ~(Dropped(q, k) /\ row' # row)
  <1>0. IInv /\ [Next]_vars /\ StaleOnlyByRace /\ \A p \in Proc : Prompt(p) /\ Cleared(p)
    BY DEF RaceInv, HNext
  <1>1. raced' = {j \in Key : cache'[j] # Miss /\
                               IF \E p \in Proc : Fills(p, j)
                               THEN \/ \E p \in overtaken : Fills(p, j)
                                    \/ \E q \in Proc : Dropped(q, j)
                               ELSE j \in raced}
    BY DEF HNext
  <1>2. CASE \E p \in Proc : Fills(p, k) /\ cache'[k] = req[p].seen /\ row' = row
    <2>1. PICK p \in Proc : Fills(p, k) /\ cache'[k] = req[p].seen /\ row' = row
      BY <1>2
    <2>2. p \notin overtaken
      BY <1>1, <2>1
    <2> QED
      BY <1>0, <2>1, <2>2 DEF Prompt, Fills, LookupSet
  <1>3. CASE cache'[k] \in {cache[k], Miss} /\ ~ \E p \in Proc : Fills(p, k)
    <2>1. k \notin raced
      BY <1>1, <1>3
    <2> QED
      BY <1>0, <1>3, <2>1 DEF StaleOnlyByRace, Cleared
  <1> QED
    BY <1>0, <1>2, <1>3, EntryStep

(* The three parts of RaceInv hold after a step.                           *)
LEMMA RaceStep ==
    ASSUME RaceInv, HNext
    PROVE  StaleOnlyByRace' /\ \A p \in Proc : Prompt(p)' /\ Cleared(p)'
  <1>0. IInv /\ [Next]_vars /\ StaleOnlyByRace /\ \A p \in Proc : Prompt(p) /\ Cleared(p)
    BY DEF RaceInv, HNext
  <1>1. ASSUME NEW k \in Key, cache'[k] # Miss, k \notin raced'
        PROVE  cache'[k] = row'
    <2>1. cache'[k] = row /\ \A q \in Proc : ~(Dropped(q, k) /\ row' # row)
      BY <1>1, FillStep
    <2>2. row' # row => \E p \in Proc : Dropped(p, k)
      BY <1>0, RowStays DEF Commit, Dropped
    <2> QED
      BY <2>1, <2>2
  <1>2. ASSUME NEW p \in Proc, req'[p].pc = "set", p \notin overtaken'
        PROVE  req'[p].seen = row'
    <2>1. CASE req'[p] = req[p]
      BY <1>0, <1>2, <2>1 DEF HNext, Prompt, At
    <2>2. CASE Turn(p)
      <3>1. LookupSelect(p) /\ req'[p].seen = row
        BY <1>2, <2>2 DEF Turn, Idle, Begins, Decides, Proceeds
      <3> QED
        BY <3>1 DEF LookupSelect
    <2> QED
      BY <1>0, <2>1, <2>2, Turns
  <1>3. ASSUME NEW p \in Proc, NEW k \in Key, Dropped(p, k)', cache'[k] # Miss
        PROVE  k \in raced'
    <2>1. CASE Dropped(p, k)
      <3>1. raced' = {j \in Key : cache'[j] # Miss /\
                                   IF \E q \in Proc : Fills(q, j)
                                   THEN \/ \E q \in overtaken : Fills(q, j)
                                        \/ \E q \in Proc : Dropped(q, j)
                                   ELSE j \in raced}
        BY DEF HNext
      <3> QED
        BY <1>0, <1>3, <2>1, <3>1, EntryStep DEF Cleared
    <2>2. CASE ~Dropped(p, k)
      <3>1. Turn(p)
        BY <1>0, <1>3, <2>2, Turns DEF Dropped, At
      <3>2. /\ \/ Drop(p)
               \/ At(p, "dropEmail") /\ cache'["email"] = Miss /\ req'[p].pc = "dropLogin"
               \/ At(p, "dropLogin") /\ cache' = [cache EXCEPT !["login"] = Miss]
        BY <1>3, <3>1 DEF Turn, Idle, Begins, Decides, Proceeds, Dropped, At
      <3>3. CASE Drop(p)
        BY <1>3, <3>3 DEF Drop
      <3>4. CASE At(p, "dropEmail") /\ cache'["email"] = Miss /\ req'[p].pc = "dropLogin"
        BY <1>3, <3>4 DEF Dropped, At
      <3>5. CASE At(p, "dropLogin") /\ cache' = [cache EXCEPT !["login"] = Miss]
        <4>1. cache \in [Key -> Row \cup {Miss}]
          BY <1>0 DEF IInv, TypeOK
        <4> QED
          BY <1>3, <2>2, <3>5, <4>1 DEF Dropped, Key
      <3> QED
        BY <3>2, <3>3, <3>4, <3>5
    <2> QED
      BY <2>1, <2>2
  <1> QED
    BY <1>1, <1>2, <1>3 DEF StaleOnlyByRace, Prompt, Cleared, At

(* RaceInv holds in the beginning ...                                      *)
LEMMA RaceInit == HInit => RaceInv
    BY Initial DEF HInit, Init, RaceInv, StaleOnlyByRace, Prompt, Cleared, Dropped, At, Idle

(* ... and after every step.                                               *)
LEMMA RaceStays == RaceInv /\ [HNext]_hvars => RaceInv'
  <1> SUFFICES ASSUME RaceInv, [HNext]_hvars PROVE RaceInv'
    OBVIOUS
  <1>1. IInv'
    BY Inductive DEF RaceInv, HNext, hvars
  <1>2. CASE HNext
    BY <1>1, <1>2, RaceStep DEF RaceInv
  <1>3. CASE UNCHANGED hvars
    BY <1>1, <1>3 DEF hvars, vars, RaceInv, StaleOnlyByRace, Prompt, Cleared, Dropped, At
  <1> QED
    BY <1>2, <1>3

(* A cached answer is the committed one, unless a lookup raced a writer.   *)
THEOREM RacesOnly == HSpec => []StaleOnlyByRace
  <1>1. RaceInv => StaleOnlyByRace
    BY DEF RaceInv
  <1> QED
    BY <1>1, RaceInit, RaceStays, PTL DEF HSpec

-----------------------------------------------------------------------------
(* Versions only grow: the row lock orders the writers, and an account is  *)
(* created once.                                                           *)

(* What the label of a request says of the row it has written and of the   *)
(* committed one, x.                                                       *)
Stage(r, x) ==
    /\ r.pc \in {"idle", "get", "select", "set", "write", "update", "accepted"} => r.mine = NoRow
    /\ r.pc \in {"drop", "dropEmail", "dropLogin", "commit"} => r.mine # NoRow
    /\ r.pc \in {"update", "drop"} => r.op # "create"
    /\ r.pc \in {"dropEmail", "dropLogin"} => r.op = "create"
    /\ r.pc \in {"write", "update", "drop", "commit"} /\ r.op # "create" => x # NoRow
    /\ r.mine # NoRow /\ r.op # "create" => r.mine.ver > x.ver
    /\ r.pc # "idle" => r.floor <= x.ver
    /\ r.pc = "set" => r.floor <= r.seen.ver

(* Only one request holds the row lock.                                    *)
Exclusive ==
    \A p, q \in Proc :
        p # q /\ req[p].mine # NoRow /\ req[q].mine # NoRow
        => "create" \in {req[p].op, req[q].op}

(* The password with which request r was let through.                      *)
Took(r) ==
    \/ r.op = "login" /\ r.pc = "accepted"
    \/ r.op = "change" /\ r.pc \in {"write", "update", "drop", "commit"}

PasswordInv ==
    /\ RaceInv
    /\ \A p \in Proc : Stage(req[p], row)
    /\ row = NoRow => past = {NoRow}
    /\ Exclusive
    /\ \A p \in Proc \ misled : Took(req[p]) => req[p].pw >= req[p].floor

(* The versions and times are numbers.                                     *)
LEMMA Numbers ==
    ASSUME IInv, NEW p \in Proc
    PROVE  /\ req[p].mine.ver \in Nat /\ req[p].seen.ver \in Nat /\ req[p].pw \in Nat
           /\ req[p].floor \in Nat
           /\ row.ver \in Nat /\ written \in Nat /\ row.ver <= written
           /\ \A u \in past : u.ver \in Nat
  BY DEF IInv, TypeOK, Request, Row, Sourced

(* A commit that changes the row raises its version.                       *)
LEMMA RowGrows ==
    ASSUME PasswordInv, [Next]_vars
    PROVE  row' = row \/ (row' # NoRow /\ row'.ver > row.ver)
  <1> SUFFICES ASSUME row' # row PROVE row' # NoRow /\ row'.ver > row.ver
    OBVIOUS
  <1>1. PICK p \in Proc : Commit(p)
    BY RowStays
  <1>2. /\ row' = req[p].mine /\ At(p, "commit")
        /\ req[p].op = "create" => row = NoRow
    BY <1>1 DEF Commit
  <1>3. Stage(req[p], row) /\ IInv /\ req[p].mine # NoRow
    BY <1>2 DEF PasswordInv, RaceInv, Stage, At
  <1>4. req[p].mine.ver \in 1 .. written /\ NoRow.ver = 0
    BY <1>3 DEF IInv, Local, NoRow
  <1> QED
    BY <1>2, <1>3, <1>4, Numbers DEF Stage

(* The request that takes a turn keeps to its stage.                       *)
LEMMA StageTurn ==
    ASSUME PasswordInv, [Next]_vars, NEW p \in Proc, Turn(p), row' = row
    PROVE  Stage(req'[p], row)
  <1>0. /\ IInv /\ Stage(req[p], row) /\ (row = NoRow => past = {NoRow})
        /\ NoRow.ver = 0
    BY DEF PasswordInv, RaceInv, NoRow
  <1>n. /\ req[p].mine.ver \in Nat /\ req[p].seen.ver \in Nat
        /\ req[p].floor \in Nat
        /\ row.ver \in Nat /\ written \in Nat /\ row.ver <= written
    BY <1>0, Numbers
  <1>1. CASE req'[p] = Idle
    BY <1>1, IdleType DEF Stage, Idle
  <1>2. CASE At(p, "idle") /\ Begins(p)
    BY <1>2, <1>n DEF Begins, Stage
  <1>3. ASSUME Goes(p), NEW u \in past, Decides(p, u)
        PROVE  Stage(req'[p], row)
    <2>1. req[p].pc # "idle" /\ req[p].floor <= row.ver
      BY <1>0, <1>3 DEF Decides, LookupHit, LookupSet, At, Stage
    <2>2. req'[p].pc = "write" /\ req[p].op # "create" => row # NoRow
      BY <1>0, <1>3 DEF Decides
    <2> QED
      BY <1>3, <2>1, <2>2 DEF Decides, Goes, Stage
  <1>4. CASE Goes(p) /\ Proceeds(p)
    <2>1. CASE LookupMiss(p) /\ req'[p].pc = "select" /\ req'[p].mine = req[p].mine
      BY <1>0, <1>4, <2>1 DEF LookupMiss, At, Goes, Stage
    <2>2. CASE /\ LookupSelect(p) /\ req'[p].pc = "set"
               /\ req'[p].mine = req[p].mine /\ req'[p].seen = row
      BY <1>0, <1>4, <2>2 DEF LookupSelect, At, Goes, Stage
    <2>3. CASE WriteSelect(p) /\ req'[p].pc = "update" /\ req'[p].mine = req[p].mine
      BY <1>0, <1>4, <2>3 DEF WriteSelect, Writer, At, Goes, Stage
    <2>4. CASE /\ Update(p) /\ req'[p].pc = "drop"
               /\ req'[p].mine # NoRow /\ req'[p].mine.ver = written + 1
      <3>1. req'[p].mine.ver > row.ver
        BY <1>n, <2>4
      <3> QED
        BY <1>0, <1>4, <2>4, <3>1 DEF Update, At, Goes, Stage
    <2>5. CASE Drop(p) /\ req'[p].pc = "commit" /\ req'[p].mine = req[p].mine
      BY <1>0, <1>4, <2>5 DEF Drop, At, Goes, Stage
    <2>6. CASE Create(p) /\ req'[p].pc = "dropEmail" /\ req'[p].mine # NoRow
      BY <1>0, <1>4, <2>6 DEF Create, At, Goes, Stage
    <2>7. CASE /\ CreateDrop(p) /\ At(p, "dropEmail") /\ req'[p].pc = "dropLogin"
               /\ req'[p].mine = req[p].mine
      BY <1>0, <1>4, <2>7 DEF At, Goes, Stage
    <2>8. CASE /\ CreateDrop(p) /\ At(p, "dropLogin") /\ req'[p].pc = "commit"
               /\ req'[p].mine = req[p].mine
      BY <1>0, <1>4, <2>8 DEF At, Goes, Stage
    <2> QED
      BY <1>4, <2>1, <2>2, <2>3, <2>4, <2>5, <2>6, <2>7, <2>8 DEF Proceeds
  <1> QED
    BY <1>1, <1>2, <1>3, <1>4 DEF Turn

(* All requests keep to their stages, also when another one commits.       *)
LEMMA StageStep ==
    ASSUME PasswordInv, [Next]_vars, NEW p \in Proc
    PROVE  Stage(req'[p], row')
  <1>0. /\ IInv /\ Stage(req[p], row) /\ Exclusive /\ RaceInv
    BY DEF PasswordInv, RaceInv
  <1>1. CASE row' = row
    BY <1>0, <1>1, Turns, StageTurn
  <1>2. ASSUME NEW q \in Proc, Commit(q), row' # row
        PROVE  Stage(req'[p], row')
    <2>1. /\ row' # NoRow /\ row'.ver > row.ver /\ row' = req[q].mine
          /\ req \in [Proc -> Request] /\ req' = [req EXCEPT ![q] = Idle]
          /\ req[q].op = "create" => row = NoRow
      BY <1>0, <1>2, RowGrows DEF Commit, Become, IInv, TypeOK
    <2>2. CASE p = q
      BY <2>1, <2>2, IdleType DEF Stage, Idle
    <2>3. CASE p # q
      <3>1. req'[p] = req[p]
        BY <2>1, <2>3
      <3>2. ~(req[p].mine # NoRow /\ req[p].op # "create")
        <4>1. SUFFICES ASSUME req[p].mine # NoRow, req[p].op # "create" PROVE FALSE
          OBVIOUS
        <4>2. req[q].mine # NoRow
          BY <2>1
        <4>3. req[q].op = "create"
          BY <1>0, <2>3, <4>1, <4>2 DEF Exclusive
        <4>4. req[p].pc \in {"drop", "commit"}
          BY <1>0, <4>1 DEF Stage, IInv, TypeOK, Request
        <4> QED
          BY <1>0, <2>1, <4>1, <4>3, <4>4 DEF Stage
      <3>3. row.ver \in Nat /\ row'.ver \in Nat /\ req[p].floor \in Nat
        BY <1>0, <2>1, Numbers
      <3> QED
        BY <1>0, <2>1, <3>1, <3>2, <3>3 DEF Stage
    <2> QED
      BY <2>2, <2>3
  <1> QED
    BY <1>1, <1>2, RowStays

(* Of two writers one waits for the lock.                                  *)
LEMMA ExclusiveStep ==
    ASSUME PasswordInv, [Next]_vars
    PROVE  Exclusive'
  <1>0. IInv /\ Exclusive /\ \A p \in Proc : Stage(req[p], row)
    BY DEF PasswordInv, RaceInv
  <1>1. ASSUME NEW p \in Proc, req'[p].mine # NoRow
        PROVE  /\ req'[p].op = req[p].op
               /\ req[p].mine # NoRow \/ Update(p) \/ Create(p)
    <2>1. req'[p] = req[p] \/ (Goes(p) /\ Proceeds(p))
      BY <1>0, <1>1, Turns, IdleType DEF Turn, Begins, Decides
    <2> QED
      BY <1>1, <2>1 DEF Goes, Proceeds
  <1>2. ASSUME NEW p \in Proc, NEW q \in Proc, p # q, Update(p) \/ Create(p),
               req'[p].mine # NoRow, req'[q].mine # NoRow
        PROVE  "create" \in {req'[p].op, req'[q].op}
    <2>1. req'[q] = req[q]
      BY <1>0, <1>2, OtherTurn DEF Step
    <2>2. CASE Update(p)
      BY <1>2, <2>1, <2>2 DEF Update, Locked
    <2>3. CASE Create(p)
      BY <1>1, <1>2, <2>3 DEF Create
    <2> QED
      BY <1>2, <2>2, <2>3
  <1> QED
    BY <1>0, <1>1, <1>2 DEF Exclusive

(* A password that was taken was committed after its request had arrived.  *)
LEMMA TookStep ==
    ASSUME PasswordInv, HNext, NEW p \in Proc, p \notin misled', Took(req'[p])
    PROVE  req'[p].pw >= req'[p].floor
  <1>0. /\ IInv /\ RaceInv /\ [Next]_vars /\ Stage(req[p], row) /\ row \in past
        /\ req'[p].pc # "idle"
    BY DEF PasswordInv, RaceInv, HNext, Took, IInv, Sourced
  <1>1. p \notin misled /\ ~(LookupHit(p) /\ KeyOf(p) \in raced)
    BY <1>0 DEF HNext
  <1>2. Took(req[p]) => req[p].pw >= req[p].floor
    BY <1>1 DEF PasswordInv
  <1>3. CASE req'[p] = req[p]
    BY <1>2, <1>3
  <1>4. ASSUME Goes(p), NEW u \in past, Decides(p, u)
        PROVE  req'[p].pw >= req'[p].floor
    <2>1. req[p].pw = u.ver
      BY <1>4 DEF Decides, Goes, Took
    <2>2. CASE LookupHit(p) /\ u = cache[KeyOf(p)]
      <3>1. u = row
        BY <1>0, <1>1, <2>2 DEF RaceInv, StaleOnlyByRace, LookupHit, KeyOf, Key
      <3>2. req[p].floor <= row.ver
        BY <1>0, <2>2 DEF LookupHit, At, Stage
      <3> QED
        BY <1>0, <1>4, <2>1, <3>1, <3>2, Numbers DEF Goes
    <2>3. CASE LookupSet(p) /\ u = req[p].seen
      <3>1. req[p].floor <= u.ver
        BY <1>0, <2>3 DEF LookupSet, At, Stage
      <3> QED
        BY <1>0, <1>4, <2>1, <3>1, Numbers DEF Goes
    <2> QED
      BY <1>4, <2>2, <2>3 DEF Decides
  <1>5. CASE Goes(p) /\ Proceeds(p)
    <2>1. Took(req[p])
      BY <1>0, <1>5 DEF Goes, Proceeds, Took, WriteSelect, Update, Drop, At, Stage
    <2> QED
      BY <1>2, <1>5, <2>1 DEF Goes
  <1>6. ~(At(p, "idle") /\ Begins(p)) /\ req'[p] # Idle
    BY <1>0 DEF Begins, Took, Idle
  <1> QED
    BY <1>0, <1>3, <1>4, <1>5, <1>6, Turns DEF Turn

(* PasswordInv holds in the beginning ...                                  *)
LEMMA PasswordInit == HInit => PasswordInv
    BY RaceInit, IdleType DEF HInit, Init, PasswordInv, Stage, Exclusive, Took, Idle

(* ... and after every step.                                               *)
LEMMA PasswordStays == PasswordInv /\ [HNext]_hvars => PasswordInv'
  <1> SUFFICES ASSUME PasswordInv, [HNext]_hvars PROVE PasswordInv'
    OBVIOUS
  <1>0. [Next]_vars
    BY DEF HNext, hvars
  <1>1. RaceInv'
    BY RaceStays DEF PasswordInv
  <1>2. \A p \in Proc : Stage(req'[p], row')
    BY <1>0, StageStep
  <1>3. row' = NoRow => past' = {NoRow}
    <2>1. CASE \E p \in Proc : Commit(p)
      <3>1. PICK p \in Proc : Commit(p)
        BY <2>1
      <3>2. req[p].mine # NoRow
        BY <3>1 DEF Commit, At, PasswordInv, Stage
      <3> QED
        BY <3>1, <3>2 DEF Commit, PasswordInv
    <2>2. CASE ~ \E p \in Proc : Commit(p)
      <3>1. UNCHANGED <<row, past>>
        BY <1>0, <2>2
           DEF Next, Step, vars, StartAny, Start, LookupHit, LookupMiss, LookupSelect,
               LookupSet, WriteSelect, Update, Drop, Create, CreateDrop,
               AnswerAccepted, Rollback, Expire, Restart
      <3> QED
        BY <3>1 DEF PasswordInv
    <2> QED
      BY <2>1, <2>2
  <1>4. Exclusive'
    BY <1>0, ExclusiveStep
  <1>5. \A p \in Proc \ misled' : Took(req'[p]) => req'[p].pw >= req'[p].floor
    <2>1. CASE HNext
      BY <2>1, TookStep
    <2>2. CASE UNCHANGED hvars
      BY <2>2 DEF hvars, vars, PasswordInv
    <2> QED
      BY <2>1, <2>2
  <1> QED
    BY <1>1, <1>2, <1>3, <1>4, <1>5 DEF PasswordInv

(* Nobody is let through with a password that was changed before he came,  *)
(* unless he has read an entry that a race left behind.                    *)
THEOREM OldPasswords == HSpec => []OldPasswordOnlyByRace
  <1>1. PasswordInv => OldPasswordOnlyByRace
    BY DEF PasswordInv, Took, OldPasswordOnlyByRace, At
  <1> QED
    BY <1>1, PasswordInit, PasswordStays, PTL DEF HSpec
=============================================================================
