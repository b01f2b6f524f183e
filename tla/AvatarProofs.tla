---------------------------- MODULE AvatarProofs ----------------------------
(***************************************************************************)
(* Proofs about Avatar, for any number of names and requests in flight.    *)
(***************************************************************************)
EXTENDS Avatar, TLAPS

(* Every copy of the recorded name was recorded at some time.              *)
Known ==
    /\ None \in past
    /\ recorded \in past
    /\ cache \in past \cup {Miss}
    /\ \A p \in Proc : req[p].old \in past

IInv == TypeOK /\ Known

(* An idle slot has no name.                                               *)
LEMMA IdleType == Idle \in Request /\ Idle.old = None
    BY DEF Idle, Request

(* What a step of request p must show: its record is well formed, its copy *)
(* of the name was recorded, and the other variables keep their types.     *)
LEMMA StepLemma ==
    ASSUME IInv, NEW p \in Proc, NEW r \in Request, Become(p, r), r.old \in past,
           recorded' \in past', past \subseteq past', past' \in SUBSET (Name \cup {None}),
           stored' \in [Name -> Content], urls' \in SUBSET Name,
           cache' \in past \cup {Miss}
    PROVE  IInv'
  <1>1. req' = [req EXCEPT ![p] = r] /\ req \in [Proc -> Request]
    BY DEF Become, IInv, TypeOK
  <1>2. req' \in [Proc -> Request]
    BY <1>1
  <1>3. \A q \in Proc : req'[q].old \in past'
    BY <1>1 DEF IInv, Known
  <1>4. cache' \in Name \cup {None, Miss} /\ recorded' \in Name \cup {None}
    OBVIOUS
  <1> QED
    BY <1>2, <1>3, <1>4 DEF IInv, TypeOK, Known

(* The lookup ends with a name that was recorded.                          *)
LEMMA LearnLemma ==
    ASSUME IInv, NEW p \in Proc, NEW a \in past, Learn(p, a),
           UNCHANGED <<recorded, past, stored, urls>>, cache' \in past \cup {Miss}
    PROVE  IInv'
  <1> DEFINE r == IF req[p].op = "get" THEN Idle ELSE [req[p] EXCEPT !.pc = "update", !.old = a]
  <1>1. r \in Request /\ r.old \in past
    BY IdleType DEF IInv, TypeOK, Known, Request
  <1>2. Become(p, r)
    BY DEF Learn
  <1> QED
    BY <1>1, <1>2, StepLemma DEF IInv, TypeOK, Known

(* Every step keeps the invariant: one case per action.                    *)
LEMMA Inductive == IInv /\ [Next]_vars => IInv'
  <1> SUFFICES ASSUME IInv, [Next]_vars PROVE IInv'
    OBVIOUS
  <1> USE DEF IInv, TypeOK, Known
  <1>1. ASSUME NEW n \in Name, GetUploadUrl(n) \/ \E c \in Content : Put(n, c)
        PROVE  IInv'
    <2>1. stored' \in [Name -> Content] /\ urls' \in SUBSET Name
      BY <1>1 DEF GetUploadUrl, Put
    <2>2. UNCHANGED <<recorded, past, cache, req>>
      BY <1>1 DEF GetUploadUrl, Put
    <2> QED
      BY <2>1, <2>2
  <1>2. ASSUME NEW p \in Proc,
               \/ GetAvatar(p)
               \/ \E n \in Name : CheckObject(p, n)
               \/ Reject(p)
               \/ LookupGet(p) \/ LookupSelect(p) \/ LookupSet(p)
               \/ Update(p) \/ Drop(p) \/ RemoveOld(p) \/ Commit(p) \/ Fail(p)
        PROVE  IInv'
    <2>0. req[p] \in Request
      OBVIOUS
    <2>1. CASE GetAvatar(p)
      <3> DEFINE r == [Idle EXCEPT !.op = "get", !.pc = "get"]
      <3>1. r \in Request /\ r.old \in past /\ Become(p, r)
        BY <2>1 DEF GetAvatar, Idle, Request
      <3> QED
        BY <2>1, <3>1, StepLemma DEF GetAvatar
    <2>2. ASSUME NEW n \in Name, CheckObject(p, n)
          PROVE  IInv'
      <3> DEFINE r == [Idle EXCEPT !.op = "complete", !.name = n,
                                   !.pc = IF stored[n] = "bad" THEN "reject" ELSE "get"]
      <3>1. r \in Request /\ r.old \in past /\ Become(p, r)
        BY <2>2 DEF CheckObject, Idle, Request
      <3> QED
        BY <2>2, <3>1, StepLemma DEF CheckObject
    <2>11. CASE Reject(p)
      <3>1. stored' \in [Name -> Content]
        BY <2>11 DEF Reject, Content
      <3> QED
        BY <2>11, <3>1, IdleType, StepLemma DEF Reject
    <2>3. CASE LookupGet(p)
      <3>1. CASE cache = Miss
        <4> DEFINE r == [req[p] EXCEPT !.pc = "select"]
        <4>1. r \in Request /\ r.old \in past /\ Become(p, r)
          BY <2>0, <2>3, <3>1 DEF LookupGet, Request
        <4> QED
          BY <2>3, <4>1, StepLemma DEF LookupGet
      <3>2. CASE cache # Miss
        BY <2>3, <3>2, LearnLemma DEF LookupGet
      <3> QED
        BY <3>1, <3>2
    <2>4. CASE LookupSelect(p)
      <3> DEFINE r == [req[p] EXCEPT !.pc = "set", !.old = recorded]
      <3>1. r \in Request /\ r.old \in past /\ Become(p, r)
        BY <2>0, <2>4 DEF LookupSelect, Request
      <3> QED
        BY <2>4, <3>1, StepLemma DEF LookupSelect
    <2>5. CASE LookupSet(p)
      BY <2>5, LearnLemma DEF LookupSet
    <2>6. CASE Update(p)
      <3> DEFINE r == [req[p] EXCEPT !.pc = "drop"]
      <3>1. r \in Request /\ r.old \in past /\ Become(p, r)
        BY <2>0, <2>6 DEF Update, Request
      <3> QED
        BY <2>6, <3>1, StepLemma DEF Update
    <2>7. CASE Drop(p)
      <3> DEFINE r == [req[p] EXCEPT !.pc = "remove"]
      <3>1. r \in Request /\ r.old \in past /\ Become(p, r)
        BY <2>0, <2>7 DEF Drop, Request
      <3> QED
        BY <2>7, <3>1, StepLemma DEF Drop
    <2>8. CASE RemoveOld(p)
      <3> DEFINE r == [req[p] EXCEPT !.pc = "commit"]
      <3>1. r \in Request /\ r.old \in past /\ Become(p, r)
        BY <2>0, <2>8 DEF RemoveOld, Request
      <3>2. stored' \in [Name -> Content]
        BY <2>8 DEF RemoveOld, Content
      <3> QED
        BY <2>8, <3>1, <3>2, StepLemma DEF RemoveOld
    <2>9. CASE Commit(p)
      <3>1. req[p].name \in Name \cup {None}
        BY <2>0 DEF Request
      <3> QED
        BY <2>9, <3>1, IdleType, StepLemma DEF Commit
    <2>10. CASE Fail(p)
      BY <2>10, IdleType, StepLemma DEF Fail
    <2> QED
      BY <1>2, <2>1, <2>2, <2>3, <2>4, <2>5, <2>6, <2>7, <2>8, <2>9, <2>10, <2>11
  <1>3. CASE Expire
    BY <1>3 DEF Expire
  <1>4. CASE UNCHANGED vars
    BY <1>4 DEF vars
  <1> QED
    BY <1>1, <1>2, <1>3, <1>4 DEF Next

(* The initial state satisfies the invariant.                              *)
LEMMA Initial == Init => IInv
  <1> SUFFICES ASSUME Init PROVE IInv
    OBVIOUS
  <1> QED
    BY IdleType DEF Init, IInv, TypeOK, Known, Content

(* Types, and where names come from, for all values of the constants.      *)
THEOREM TypeCorrect == Spec => []TypeOK
  <1>1. IInv => TypeOK
    BY DEF IInv
  <1> QED
    BY <1>1, Initial, Inductive, PTL DEF Spec

(* Who may remove the object n: a completion that has found a bad one      *)
(* there, and that ends with the step.                                     *)
Rejected(n) == \E p \in Proc : At(p, "reject") /\ req[p].name = n /\ req'[p] = Idle

(* Else the removal hits a name that was recorded: what a request takes    *)
(* for the old avatar was the avatar once.                                 *)
LEMMA RemovalStep ==
    ASSUME IInv, Next, NEW n \in Name, stored[n] = "good", stored'[n] = "none"
    PROVE  n \in past \/ Rejected(n)
  <1> USE DEF IInv, TypeOK, Known
  <1>1. ASSUME NEW m \in Name, GetUploadUrl(m) \/ \E c \in Content : Put(m, c)
        PROVE  n \in past
    BY <1>1 DEF GetUploadUrl, Put, Content
  <1>2. ASSUME NEW p \in Proc, Reject(p)
        PROVE  Rejected(n)
    <2>1. At(p, "reject") /\ Become(p, Idle) /\ req[p].name = n
      BY <1>2 DEF Reject
    <2>2. req'[p] = Idle
      BY <2>1 DEF Become
    <2> QED
      BY <2>1, <2>2 DEF Rejected
  <1>3. ASSUME NEW p \in Proc, RemoveOld(p)
        PROVE  n \in past
    BY <1>3 DEF RemoveOld
  <1>4. ASSUME NEW p \in Proc,
               \/ GetAvatar(p) \/ \E m \in Name : CheckObject(p, m)
               \/ LookupGet(p) \/ LookupSelect(p) \/ LookupSet(p)
               \/ Update(p) \/ Drop(p) \/ Commit(p) \/ Fail(p)
        PROVE  UNCHANGED stored
    BY <1>4 DEF GetAvatar, CheckObject, LookupGet, LookupSelect, LookupSet, Update, Drop,
                Commit, Fail
  <1>5. CASE Expire
    BY <1>5 DEF Expire
  <1> QED
    BY <1>1, <1>2, <1>3, <1>4, <1>5 DEF Next

(* No completion, whenever it read the old name, removes a good upload     *)
(* that never was the avatar, unless it found a bad one under that name.   *)
THEOREM OwedRemovals == Spec => RemovalsAreOwed
  <1>1. IInv /\ [Next]_vars =>
           [\A n \in Name : stored[n] = "good" /\ stored'[n] = "none" =>
              \/ n \in past
              \/ \E p \in Proc : At(p, "reject") /\ req[p].name = n /\ req'[p] = Idle]_vars
    <2> SUFFICES ASSUME IInv, Next, NEW n \in Name, stored[n] = "good", stored'[n] = "none"
                 PROVE  n \in past \/ Rejected(n)
      BY DEF vars, Rejected
    <2> QED
      BY RemovalStep
  <1> QED
    BY <1>1, Initial, Inductive, PTL DEF Spec, RemovalsAreOwed
=============================================================================
