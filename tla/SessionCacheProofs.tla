------------------------ MODULE SessionCacheProofs ------------------------
(***************************************************************************)
(* Proofs about SessionCache, for any number of tokens, devices and        *)
(* requests in flight, in four parts: types, writers of tokens and the     *)
(* refinement of TokenLifecycle; what requests have read and will still    *)
(* do; the copies of families; and, with the history of SessionHistory,    *)
(* that a session keeps to one family.                                     *)
(***************************************************************************)
EXTENDS SessionHistory, TLAPS

(* The commands a request may have under way, and the local variables that *)
(* it has set by the time it reads them.                                   *)
LocalsOK(r) ==
    /\ r.todo # {} => r.pc \in {"store", "revoking", "wipe"}
    /\ r.pc = "store" => r.todo \subseteq {"deleteOld", "getFamily", "setToken", "setFamily"}
    /\ r.pc = "revoking" => r.todo \subseteq {"deleteKeys", "deleteFamily"}
    /\ r.pc = "wipe" => r.todo \subseteq {"deleteOld", "scanTokens", "unlinkTokens",
                                        "scanFamilies", "unlinkFamilies"}
    /\ r.pc \in {"verify", "ttl", "rotate", "rotateVerify", "revoke", "revoking"}
          => r.old \in Token /\ r.fam \in Device
    /\ r.pc \in {"clean", "rotate", "rotateVerify", "store"} => r.new \in Token
    /\ r.pc \in {"verify", "ttl", "clean", "rotate", "rotateVerify", "store"} => r.dev \in Device
    /\ r.pc \in {"clean", "store"} => r.fam \in Device

Locals == \A p \in Proc : LocalsOK(req[p])

(* A well formed record in place of one request keeps them all well formed. *)
LEMMA BecomeLemma ==
    ASSUME req \in [Proc -> Request], Locals, NEW p \in Proc, NEW r \in Request,
           LocalsOK(r), Become(p, r)
    PROVE  /\ req' \in [Proc -> Request]
           /\ Locals'
    BY DEF Become, Locals, LocalsOK

(* An idle slot is well formed.                                            *)
LEMMA IdleType == Idle \in Request /\ LocalsOK(Idle)
    BY DEF Idle, Request, LocalsOK, Operations, Commands

(* Deletions keep the types of the store.                                  *)
LEMMA DropKeysType ==
    ASSUME tokenKey \in [Token -> SessionData \cup {Absent}], NEW K, DropKeys(K)
    PROVE  tokenKey' \in [Token -> SessionData \cup {Absent}]
    BY DEF DropKeys

(* The same for the keys of families.                                      *)
LEMMA DropFamiliesType ==
    ASSUME family \in [Device -> FamilyData \cup {Absent}], NEW F, DropFamilies(F)
    PROVE  family' \in [Device -> FamilyData \cup {Absent}]
    BY DEF DropFamilies

(* What a step of request p must show: its record is well formed, and the  *)
(* other variables keep their types.                                       *)
LEMMA StepLemma ==
    ASSUME TypeOK, Locals, NEW p \in Proc, NEW r \in Request, LocalsOK(r), Become(p, r),
           tokenKey' \in [Token -> SessionData \cup {Absent}],
           family' \in [Device -> FamilyData \cup {Absent}],
           minted' \in SUBSET Token, issued' \in SUBSET Token,
           ends' \in [Proc -> SUBSET Token], stale' \in SUBSET Proc
    PROVE  TypeOK' /\ Locals'
  <1>1. req' \in [Proc -> Request] /\ Locals'
    BY BecomeLemma DEF TypeOK
  <1> QED
    BY <1>1 DEF TypeOK

(* An answer leaves the request slot idle.                                 *)
LEMMA AnswerType ==
    ASSUME TypeOK, Locals, NEW p \in Proc, Answer(p), UNCHANGED minted, issued' \in SUBSET Token
    PROVE  TypeOK' /\ Locals'
  <1>1. Become(p, Idle) /\ ends' \in [Proc -> SUBSET Token] /\ stale' \in SUBSET Proc
    BY DEF Answer, TypeOK
  <1> QED
    BY <1>1, IdleType, StepLemma DEF Answer, TypeOK, store

(* Every step keeps the types: one case per action.                        *)
LEMMA TypeStep == TypeOK /\ Locals /\ [Next]_vars => TypeOK' /\ Locals'
  <1> SUFFICES ASSUME TypeOK, Locals, [Next]_vars
               PROVE  TypeOK' /\ Locals'
    OBVIOUS
  <1> USE DEF store, clients, history
  <1>1. ASSUME NEW p \in Proc, Step(p)
        PROVE  TypeOK' /\ Locals'
    <2> DEFINE r == req[p]
    <2>0. r \in Request /\ LocalsOK(r)
      BY DEF TypeOK, Locals
    <2>1. ASSUME NEW d \in Device, NEW n \in Token,
                 LoginStart(p, d, n)
          PROVE  TypeOK' /\ Locals'
      <3> DEFINE s == [Idle EXCEPT !.op = "login", !.pc = "clean", !.new = n,
                                   !.dev = d, !.fam = d, !.keys = KeysOf(d)]
      <3>1. s \in Request /\ LocalsOK(s)
        BY <2>1 DEF LoginStart, At, Request, LocalsOK, KeysOf, Keys, Idle, Operations
      <3> QED
        BY <2>1, <3>1, StepLemma DEF LoginStart, TypeOK
    <2>2. CASE LoginClean(p)
      <3> DEFINE s == [r EXCEPT !.pc = "store", !.keys = {}, !.todo = {"getFamily"}]
      <3>1. s \in Request /\ LocalsOK(s)
        BY <2>0, <2>2 DEF LoginClean, At, Request, LocalsOK, Commands
      <3>2. tokenKey' \in [Token -> SessionData \cup {Absent}]
        BY <2>2, DropKeysType DEF LoginClean, TypeOK
      <3> QED
        BY <2>2, <3>1, <3>2, StepLemma DEF LoginClean, TypeOK
    <2>3. CASE StoreGetFamily(p)
      <3> DEFINE s == [Did(p, "getFamily") EXCEPT
                         !.chain = (IF family[r.fam] = Absent THEN {} ELSE family[r.fam].tokens)
                                       \cup {r.new},
                         !.todo = @ \cup {"setToken", "setFamily"}]
      <3>1. s \in Request /\ LocalsOK(s)
        BY <2>0, <2>3 DEF StoreGetFamily, Pending, Did, Request, LocalsOK, Commands, TypeOK, FamilyData
      <3> QED
        BY <2>3, <3>1, StepLemma DEF StoreGetFamily, TypeOK
    <2>4. CASE StoreSetToken(p)
      <3> DEFINE s == Did(p, "setToken")
      <3>1. s \in Request /\ LocalsOK(s)
        BY <2>0, <2>4 DEF StoreSetToken, Pending, Did, Request, LocalsOK, Commands
      <3>2. tokenKey' \in [Token -> SessionData \cup {Absent}]
        BY <2>0, <2>4 DEF StoreSetToken, TypeOK, SessionData, Pending, LocalsOK
      <3> QED
        BY <2>4, <3>1, <3>2, StepLemma DEF StoreSetToken, TypeOK
    <2>5. CASE StoreSetFamily(p)
      <3> DEFINE s == [Did(p, "setFamily") EXCEPT !.chain = {}]
      <3>1. s \in Request /\ LocalsOK(s)
        BY <2>0, <2>5 DEF StoreSetFamily, Pending, Did, Request, LocalsOK, Commands
      <3>2. family' \in [Device -> FamilyData \cup {Absent}]
        BY <2>0, <2>5 DEF StoreSetFamily, TypeOK, FamilyData, Pending, LocalsOK, Request
      <3> QED
        BY <2>5, <3>1, <3>2, StepLemma DEF StoreSetFamily, TypeOK
    <2>6. CASE AnswerToken(p)
      BY <2>0, <2>6, AnswerType DEF AnswerToken, TypeOK, Request, LocalsOK, Done, At
    <2>7. ASSUME NEW op \in Ops \cap {"refresh", "change"}, NEW t \in Token, NEW d \in Device,
                 PresentToken(p, op, t, d)
          PROVE  TypeOK' /\ Locals'
      <3> DEFINE s == IF tokenKey[t] = Absent
                    THEN [Idle EXCEPT !.op = op, !.old = t, !.dev = d, !.pc = "reject"]
                    ELSE [Idle EXCEPT !.op = op, !.old = t, !.dev = d, !.pc = "verify",
                                      !.fam = tokenKey[t].fam]
      <3>1. s \in Request /\ LocalsOK(s)
        BY <2>7 DEF PresentToken, At, Request, LocalsOK, TypeOK, SessionData, Idle, Operations
      <3> QED
        BY <2>7, <3>1, StepLemma DEF PresentToken, TypeOK
    <2>8. CASE VerifyFamily(p)
      <3> DEFINE s == [r EXCEPT !.pc = "ttl"]
      <3>1. s \in Request /\ LocalsOK(s)
        BY <2>0, <2>8 DEF VerifyFamily, At, Request, LocalsOK
      <3> QED
        BY <2>8, <3>1, StepLemma DEF VerifyFamily, TypeOK
    <2>9. CASE NotCurrent(p)
      <3> DEFINE s == [r EXCEPT !.pc = IF family[r.fam] = Absent THEN "reject" ELSE "revoke"]
      <3>1. s \in Request /\ LocalsOK(s)
        BY <2>0, <2>9 DEF NotCurrent, At, Request, LocalsOK
      <3> QED
        BY <2>9, <3>1, StepLemma DEF NotCurrent, TypeOK
    <2>10. CASE TtlGone(p)
      <3> DEFINE s == [r EXCEPT !.pc = "reject"]
      <3>1. s \in Request /\ LocalsOK(s)
        BY <2>0, <2>10 DEF TtlGone, At, Request, LocalsOK
      <3> QED
        BY <2>10, <3>1, StepLemma DEF TtlGone, TypeOK
    <2>11. ASSUME NEW n \in Token,
                 TtlRefresh(p, n)
          PROVE  TypeOK' /\ Locals'
      <3> DEFINE s == [r EXCEPT !.pc = "rotate", !.new = n]
      <3>1. s \in Request /\ LocalsOK(s)
        BY <2>0, <2>11 DEF TtlRefresh, At, Request, LocalsOK
      <3> QED
        BY <2>11, <3>1, StepLemma DEF TtlRefresh, TypeOK
    <2>12. CASE RotateGetToken(p)
      <3> DEFINE s == IF tokenKey[r.old] = Absent THEN [r EXCEPT !.pc = "reject"]
                    ELSE [r EXCEPT !.pc = "rotateVerify", !.fam = tokenKey[r.old].fam]
      <3>1. s \in Request /\ LocalsOK(s)
        BY <2>0, <2>12 DEF RotateGetToken, At, Request, LocalsOK, TypeOK, SessionData
      <3> QED
        BY <2>12, <3>1, StepLemma DEF RotateGetToken, TypeOK
    <2>13. CASE RotateVerify(p)
      <3> DEFINE s == [r EXCEPT !.pc = "store", !.todo = {"deleteOld", "getFamily"}]
      <3>1. s \in Request /\ LocalsOK(s)
        BY <2>0, <2>13 DEF RotateVerify, At, Request, LocalsOK, Commands
      <3> QED
        BY <2>0, <2>13, <3>1, StepLemma DEF RotateVerify, TypeOK, At, LocalsOK
    <2>14. CASE DeleteOld(p)
      <3> DEFINE s == Did(p, "deleteOld")
      <3>1. s \in Request /\ LocalsOK(s)
        BY <2>0, <2>14 DEF DeleteOld, Pending, Did, Request, LocalsOK, Commands
      <3>2. tokenKey' \in [Token -> SessionData \cup {Absent}]
        BY <2>14, DropKeysType DEF DeleteOld, TypeOK
      <3> QED
        BY <2>14, <3>1, <3>2, StepLemma DEF DeleteOld, TypeOK
    <2>15. CASE Reject(p)
      BY <2>0, <2>15, AnswerType DEF Reject, TypeOK, Request
    <2>16. CASE RevokeGetFamily(p)
      <3> DEFINE s == IF family[r.fam] = Absent THEN [r EXCEPT !.pc = "reject"]
                    ELSE [r EXCEPT !.pc = "revoking", !.keys = family[r.fam].tokens,
                                   !.todo = {"deleteKeys", "deleteFamily"}]
      <3>1. s \in Request /\ LocalsOK(s)
        BY <2>0, <2>16 DEF RevokeGetFamily, At, Request, LocalsOK, Commands, TypeOK, FamilyData
      <3> QED
        BY <2>16, <3>1, StepLemma DEF RevokeGetFamily, TypeOK
    <2>17. CASE RevokeDeleteKeys(p)
      <3> DEFINE s == [Did(p, "deleteKeys") EXCEPT !.keys = {}]
      <3>1. s \in Request /\ LocalsOK(s)
        BY <2>0, <2>17 DEF RevokeDeleteKeys, Pending, Did, Request, LocalsOK, Commands
      <3>2. tokenKey' \in [Token -> SessionData \cup {Absent}]
        BY <2>17, DropKeysType DEF RevokeDeleteKeys, TypeOK
      <3> QED
        BY <2>17, <3>1, <3>2, StepLemma DEF RevokeDeleteKeys, TypeOK
    <2>18. CASE RevokeDeleteFamily(p)
      <3> DEFINE s == Did(p, "deleteFamily")
      <3>1. s \in Request /\ LocalsOK(s)
        BY <2>0, <2>18 DEF RevokeDeleteFamily, Pending, Did, Request, LocalsOK, Commands
      <3>2. family' \in [Device -> FamilyData \cup {Absent}]
        BY <2>18, DropFamiliesType DEF RevokeDeleteFamily, TypeOK
      <3> QED
        BY <2>18, <3>1, <3>2, StepLemma DEF RevokeDeleteFamily, TypeOK
    <2>19. CASE ChangePassword(p)
      <3> DEFINE s == [r EXCEPT !.pc = "wipe", !.todo = {"deleteOld", "scanTokens", "scanFamilies"}]
      <3>1. s \in Request /\ LocalsOK(s)
        BY <2>0, <2>19 DEF ChangePassword, At, Request, LocalsOK, Commands, Wipe
      <3> QED
        BY <2>19, <3>1, StepLemma DEF ChangePassword, TypeOK, Wipe
    <2>20. CASE RefusePassword(p)
      BY <2>0, <2>20, AnswerType DEF RefusePassword, TypeOK, Request
    <2>21. CASE VerifyReset(p)
      <3> DEFINE s == [[Idle EXCEPT !.op = "reset"] EXCEPT !.pc = "wipe",
                                   !.todo = {"scanTokens", "scanFamilies"}]
      <3>1. s \in Request /\ LocalsOK(s)
        BY <2>21 DEF VerifyReset, At, Request, LocalsOK, Commands, Wipe, Idle, Operations
      <3> QED
        BY <2>21, <3>1, StepLemma DEF VerifyReset, TypeOK, Wipe
    <2>22. CASE WipeScanTokens(p)
      <3> DEFINE s == [Did(p, "scanTokens") EXCEPT !.keys = Keys, !.todo = @ \cup {"unlinkTokens"}]
      <3>1. s \in Request /\ LocalsOK(s)
        BY <2>0, <2>22 DEF WipeScanTokens, Pending, Did, Request, LocalsOK, Commands, Keys
      <3> QED
        BY <2>22, <3>1, StepLemma DEF WipeScanTokens, TypeOK
    <2>23. CASE WipeUnlinkTokens(p)
      <3> DEFINE s == [Did(p, "unlinkTokens") EXCEPT !.keys = {}]
      <3>1. s \in Request /\ LocalsOK(s)
        BY <2>0, <2>23 DEF WipeUnlinkTokens, Pending, Did, Request, LocalsOK, Commands
      <3>2. tokenKey' \in [Token -> SessionData \cup {Absent}]
        BY <2>23, DropKeysType DEF WipeUnlinkTokens, TypeOK
      <3> QED
        BY <2>23, <3>1, <3>2, StepLemma DEF WipeUnlinkTokens, TypeOK
    <2>24. CASE WipeScanFamilies(p)
      <3> DEFINE s == [Did(p, "scanFamilies") EXCEPT !.fams = Families,
                                                     !.todo = @ \cup {"unlinkFamilies"}]
      <3>1. s \in Request /\ LocalsOK(s)
        BY <2>0, <2>24 DEF WipeScanFamilies, Pending, Did, Request, LocalsOK, Commands, Families
      <3> QED
        BY <2>24, <3>1, StepLemma DEF WipeScanFamilies, TypeOK
    <2>25. CASE WipeUnlinkFamilies(p)
      <3> DEFINE s == [Did(p, "unlinkFamilies") EXCEPT !.fams = {}]
      <3>1. s \in Request /\ LocalsOK(s)
        BY <2>0, <2>25 DEF WipeUnlinkFamilies, Pending, Did, Request, LocalsOK, Commands
      <3>2. family' \in [Device -> FamilyData \cup {Absent}]
        BY <2>25, DropFamiliesType DEF WipeUnlinkFamilies, TypeOK
      <3> QED
        BY <2>25, <3>1, <3>2, StepLemma DEF WipeUnlinkFamilies, TypeOK
    <2>26. CASE AnswerWipe(p)
      BY <2>0, <2>26, AnswerType DEF AnswerWipe, TypeOK, Request
    <2> QED
      BY <1>1, <2>1, <2>2, <2>3, <2>4, <2>5, <2>6, <2>7, <2>8, <2>9, <2>10, <2>11, <2>12, <2>13, <2>14, <2>15, <2>16, <2>17, <2>18, <2>19, <2>20, <2>21, <2>22, <2>23, <2>24, <2>25, <2>26 DEF Step
  <1>2. ASSUME NEW t \in Token, Logout(t) \/ ExpireToken(t)
        PROVE  TypeOK' /\ Locals'
    BY <1>2, DropKeysType DEF Logout, ExpireToken, TypeOK, Locals
  <1>3. ASSUME NEW f \in Device, ExpireFamily(f)
        PROVE  TypeOK' /\ Locals'
    BY <1>3, DropFamiliesType DEF ExpireFamily, TypeOK, Locals
  <1>4. CASE Restart
    BY <1>4, IdleType DEF Restart, TypeOK, Locals
  <1>5. CASE UNCHANGED vars
    BY <1>5 DEF vars, TypeOK, Locals
  <1> QED
    BY <1>1, <1>2, <1>3, <1>4, <1>5 DEF Next

(* The initial state has the types.                                        *)
LEMMA InitType == Init => TypeOK /\ Locals
  BY IdleType DEF Init, TypeOK, Locals

(* Every behaviour keeps the types of the store and of the requests.       *)
THEOREM TypeCorrect == Spec => [](TypeOK /\ Locals)
  BY InitType, TypeStep, PTL DEF Spec

-----------------------------------------------------------------------------
(* Who may write a token.  A request names the token it mints in "new" and *)
(* no other request ever does; a client holds no token that is still being *)
(* written.                                                                *)
Ownership ==
    /\ \A p \in Proc : req[p].new \in minted \cup {NoToken}
    /\ \A p, q \in Proc : req[p].new = req[q].new /\ req[p].new # NoToken => p = q
    /\ \A t \in issued : Settled(t)

Only(p) == req' = [req EXCEPT ![p] = req'[p]]

(* The three kinds of steps of a request: it goes on with its token, it    *)
(* ends or begins without one, it mints one.                               *)
Keeps(p) ==
    /\ Only(p)
    /\ req'[p].new = req[p].new
    /\ UNCHANGED clients

Drops(p) ==
    /\ Only(p)
    /\ req'[p].new = NoToken
    /\ minted' = minted
    /\ issued' = issued \/ (req[p].new \in Token /\ issued' = issued \cup {req[p].new})
    /\ UNCHANGED store

Mints(p, n) ==
    /\ Only(p)
    /\ req'[p].new = n
    /\ n \notin minted
    /\ minted' = minted \cup {n}
    /\ UNCHANGED <<store, issued>>

(* Every step of a request is of one of the three kinds.                   *)
LEMMA StepKinds ==
    ASSUME TypeOK, Locals, NEW p \in Proc, Step(p)
    PROVE  Keeps(p) \/ Drops(p) \/ \E n \in Token : Mints(p, n)
  <1> USE DEF store, clients, history
  <1>0. req \in [Proc -> Request] /\ req[p] \in Request /\ LocalsOK(req[p])
    BY DEF TypeOK, Locals
  <1>1. ASSUME NEW d \in Device, NEW n \in Token, LoginStart(p, d, n)
       PROVE  Mints(p, n)
    BY <1>0, <1>1 DEF LoginStart, Mints, Idle, Request, Become, Only
  <1>2. ASSUME LoginClean(p)
       PROVE  Keeps(p)
    BY <1>0, <1>2 DEF LoginClean, Keeps, Request, Become, Only
  <1>3. ASSUME StoreGetFamily(p)
       PROVE  Keeps(p)
    BY <1>0, <1>3 DEF StoreGetFamily, Keeps, Did, Request, Become, Only
  <1>4. ASSUME StoreSetToken(p)
       PROVE  Keeps(p)
    BY <1>0, <1>4 DEF StoreSetToken, Keeps, Did, Request, Become, Only
  <1>5. ASSUME StoreSetFamily(p)
       PROVE  Keeps(p)
    BY <1>0, <1>5 DEF StoreSetFamily, Keeps, Did, Request, Become, Only
  <1>6. ASSUME AnswerToken(p)
       PROVE  Drops(p)
    BY <1>0, <1>6 DEF AnswerToken, Drops, Answer, Idle, Done, At, LocalsOK, Request, Become, Only
  <1>7. ASSUME NEW op \in Ops \cap {"refresh", "change"}, NEW t \in Token, NEW d \in Device, PresentToken(p, op, t, d)
       PROVE  Drops(p)
    BY <1>0, <1>7 DEF PresentToken, Drops, Idle, Request, Become, Only
  <1>8. ASSUME VerifyFamily(p)
       PROVE  Keeps(p)
    BY <1>0, <1>8 DEF VerifyFamily, Keeps, Request, Become, Only
  <1>9. ASSUME NotCurrent(p)
       PROVE  Keeps(p)
    BY <1>0, <1>9 DEF NotCurrent, Keeps, Request, Become, Only
  <1>10. ASSUME TtlGone(p)
       PROVE  Keeps(p)
    BY <1>0, <1>10 DEF TtlGone, Keeps, Request, Become, Only
  <1>11. ASSUME NEW n \in Token, TtlRefresh(p, n)
       PROVE  Mints(p, n)
    BY <1>0, <1>11 DEF TtlRefresh, Mints, Request, Become, Only
  <1>12. ASSUME RotateGetToken(p)
       PROVE  Keeps(p)
    BY <1>0, <1>12 DEF RotateGetToken, Keeps, Request, Become, Only
  <1>13. ASSUME RotateVerify(p)
       PROVE  Keeps(p)
    BY <1>0, <1>13 DEF RotateVerify, Keeps, Request, Become, Only
  <1>14. ASSUME DeleteOld(p)
       PROVE  Keeps(p)
    BY <1>0, <1>14 DEF DeleteOld, Keeps, Did, Request, Become, Only
  <1>15. ASSUME Reject(p)
       PROVE  Drops(p)
    BY <1>0, <1>15 DEF Reject, Drops, Answer, Idle, Request, Become, Only
  <1>16. ASSUME RevokeGetFamily(p)
       PROVE  Keeps(p)
    <2>1. CASE family[req[p].fam] = Absent
      <3>1. Become(p, [req[p] EXCEPT !.pc = "reject"])
        BY <1>16, <2>1 DEF RevokeGetFamily
      <3> QED
        BY <1>0, <1>16, <3>1 DEF RevokeGetFamily, Keeps, Request, Become, Only
    <2>2. CASE family[req[p].fam] # Absent
      <3>1. Become(p, [req[p] EXCEPT !.pc = "revoking", !.keys = family[req[p].fam].tokens,
                                     !.todo = {"deleteKeys", "deleteFamily"}])
        BY <1>16, <2>2 DEF RevokeGetFamily
      <3>2. UNCHANGED clients
        BY <1>16 DEF RevokeGetFamily
      <3> QED
        BY <1>0, <3>1, <3>2 DEF Keeps, Request, Become, Only
    <2> QED
      BY <2>1, <2>2
  <1>17. ASSUME RevokeDeleteKeys(p)
       PROVE  Keeps(p)
    BY <1>0, <1>17 DEF RevokeDeleteKeys, Keeps, Did, Request, Become, Only
  <1>18. ASSUME RevokeDeleteFamily(p)
       PROVE  Keeps(p)
    BY <1>0, <1>18 DEF RevokeDeleteFamily, Keeps, Did, Request, Become, Only
  <1>19. ASSUME ChangePassword(p)
       PROVE  Keeps(p)
    BY <1>0, <1>19 DEF ChangePassword, Keeps, Wipe, Request, Become, Only
  <1>20. ASSUME RefusePassword(p)
       PROVE  Drops(p)
    BY <1>0, <1>20 DEF RefusePassword, Drops, Answer, Idle, Request, Become, Only
  <1>21. ASSUME VerifyReset(p)
       PROVE  Drops(p)
    BY <1>0, <1>21 DEF VerifyReset, Drops, Idle, Wipe, Request, Become, Only
  <1>22. ASSUME WipeScanTokens(p)
       PROVE  Keeps(p)
    BY <1>0, <1>22 DEF WipeScanTokens, Keeps, Did, Request, Become, Only
  <1>23. ASSUME WipeUnlinkTokens(p)
       PROVE  Keeps(p)
    BY <1>0, <1>23 DEF WipeUnlinkTokens, Keeps, Did, Request, Become, Only
  <1>24. ASSUME WipeScanFamilies(p)
       PROVE  Keeps(p)
    BY <1>0, <1>24 DEF WipeScanFamilies, Keeps, Did, Request, Become, Only
  <1>25. ASSUME WipeUnlinkFamilies(p)
       PROVE  Keeps(p)
    BY <1>0, <1>25 DEF WipeUnlinkFamilies, Keeps, Did, Request, Become, Only
  <1>26. ASSUME AnswerWipe(p)
       PROVE  Drops(p)
    BY <1>0, <1>26 DEF AnswerWipe, Drops, Answer, Idle, Request, Become, Only
  <1> QED
    BY <1>1, <1>2, <1>3, <1>4, <1>5, <1>6, <1>7, <1>8, <1>9, <1>10, <1>11, <1>12, <1>13, <1>14, <1>15, <1>16, <1>17, <1>18, <1>19, <1>20, <1>21, <1>22, <1>23, <1>24, <1>25, <1>26 DEF Step

(* Ownership is inductive, and a settled token stays settled.              *)
LEMMA OwnershipStep ==
    ASSUME TypeOK, Locals, Ownership, [Next]_vars
    PROVE  /\ Ownership'
           /\ \A t \in Token : Settled(t) => Settled(t)'
  <1> USE DEF store, clients, history
  <1>0. req \in [Proc -> Request]
    BY DEF TypeOK
  <1>1. ASSUME NEW p \in Proc, Step(p)
        PROVE  Ownership' /\ \A t \in Token : Settled(t) => Settled(t)'
    <2>1. CASE Keeps(p)
      <3>1. \A q \in Proc : req'[q].new = req[q].new
        BY <1>0, <2>1 DEF Keeps, Only
      <3> QED
        BY <2>1, <3>1 DEF Keeps, Ownership, Settled
    <2>2. CASE Drops(p)
      <3>1. /\ \A q \in Proc \ {p} : req'[q].new = req[q].new
            /\ req'[p].new = NoToken
        BY <1>0, <2>2 DEF Drops, Only
      <3>2. \A t \in Token : Settled(t) => Settled(t)'
        BY <2>2, <3>1, NullAssumption DEF Drops, Settled
      <3>3. ASSUME NEW t \in Token, t = req[p].new
            PROVE  Settled(t)'
        BY <2>2, <3>1, <3>3, NullAssumption DEF Drops, Ownership, Settled
      <3>4. \A t \in issued' : Settled(t)'
        BY <2>2, <3>2, <3>3 DEF Drops, Ownership, TypeOK
      <3> QED
        BY <2>2, <3>1, <3>2, <3>4 DEF Drops, Ownership
    <2>3. ASSUME NEW n \in Token, Mints(p, n)
          PROVE  Ownership' /\ \A t \in Token : Settled(t) => Settled(t)'
      <3>1. /\ \A q \in Proc \ {p} : req'[q].new = req[q].new
            /\ req'[p].new = n
        BY <1>0, <2>3 DEF Mints, Only
      <3>2. \A t \in Token : Settled(t) => Settled(t)'
        BY <2>3, <3>1 DEF Mints, Settled
      <3>3. \A t \in issued' : Settled(t)'
        BY <2>3, <3>2 DEF Mints, Ownership, TypeOK
      <3>4. \A q \in Proc \ {p} : req'[q].new # n
        BY <2>3, <3>1, NullAssumption DEF Mints, Ownership
      <3>5. \A q \in Proc : req'[q].new \in minted' \cup {NoToken}
        BY <2>3, <3>1 DEF Mints, Ownership
      <3>6. \A q1, q2 \in Proc :
               req'[q1].new = req'[q2].new /\ req'[q1].new # NoToken => q1 = q2
        BY <2>3, <3>1, <3>4 DEF Mints, Ownership
      <3> QED
        BY <3>2, <3>3, <3>5, <3>6 DEF Ownership
    <2> QED
      BY <1>1, <2>1, <2>2, <2>3, StepKinds
  <1>2. CASE UNCHANGED <<req, clients>>
    BY <1>2 DEF Ownership, Settled
  <1>3. CASE Restart
    <2>1. \A q \in Proc : req'[q].new = NoToken
      BY <1>3 DEF Restart, Idle
    <2>2. \A t \in Token : Settled(t) => Settled(t)'
      BY <1>3, <2>1, NullAssumption DEF Restart, Settled
    <2> QED
      BY <1>3, <2>1, <2>2 DEF Restart, Ownership, TypeOK
  <1> QED
    BY <1>1, <1>2, <1>3 DEF Next, Logout, ExpireToken, ExpireFamily, vars

-----------------------------------------------------------------------------
(* What a step may do to the keys of a token that no request is minting:   *)
(* delete its key, and delete or take over its family.                     *)
Untouched(t) ==
    /\ tokenKey'[t] \in {tokenKey[t], Absent}
    /\ \A f \in Device : \/ family'[f] \in {family[f], Absent}
                         \/ family'[f].current # t

LEMMA DropUntouched ==
    ASSUME TypeOK, NEW K, NEW F, NEW t \in Token,
           DropKeys(K) \/ UNCHANGED tokenKey,
           DropFamilies(F) \/ UNCHANGED family
    PROVE  Untouched(t)
  BY DEF TypeOK, DropKeys, DropFamilies, Untouched

(* The two commands that write keys, and all others.                       *)
LEMMA StoreKinds ==
    ASSUME NEW p \in Proc, Step(p)
    PROVE  \/ UNCHANGED store
           \/ UNCHANGED family /\ \E K : DropKeys(K)
           \/ UNCHANGED tokenKey /\ \E F : DropFamilies(F)
           \/ StoreSetToken(p)
           \/ StoreSetFamily(p)
  BY DEF store, clients, history,
         Step, LoginStart, LoginClean, StoreGetFamily, AnswerToken, PresentToken,
         VerifyFamily, NotCurrent, TtlGone, TtlRefresh, RotateGetToken, RotateVerify,
         DeleteOld, Reject, RevokeGetFamily, RevokeDeleteKeys, RevokeDeleteFamily,
         ChangePassword, RefusePassword, VerifyReset, Wipe, WipeScanTokens,
         WipeUnlinkTokens, WipeScanFamilies, WipeUnlinkFamilies, AnswerWipe, Answer

(* No step does more than this to a settled token.                         *)
LEMMA StoreEffect ==
    ASSUME TypeOK, Locals, [Next]_vars, NEW t \in Token, Settled(t)
    PROVE  Untouched(t)
  <1> USE DEF store, clients, history
  <1>1. ASSUME UNCHANGED store
        PROVE  Untouched(t)
    BY <1>1 DEF Untouched
  <1>2. ASSUME NEW p \in Proc, Step(p)
        PROVE  Untouched(t)
    <2>1. CASE UNCHANGED family /\ \E K : DropKeys(K)
      BY <2>1, DropUntouched
    <2>2. CASE UNCHANGED tokenKey /\ \E F : DropFamilies(F)
      BY <2>2, DropUntouched
    <2>3. CASE StoreSetToken(p)
      BY <2>3 DEF StoreSetToken, Untouched, Settled, TypeOK
    <2>4. CASE StoreSetFamily(p)
      BY <2>4 DEF StoreSetFamily, Untouched, Settled, TypeOK
    <2> QED
      BY <1>1, <1>2, <2>1, <2>2, <2>3, <2>4, StoreKinds
  <1>3. ASSUME NEW u \in Token, Logout(u) \/ ExpireToken(u)
        PROVE  Untouched(t)
    BY <1>3, DropUntouched DEF Logout, ExpireToken
  <1>4. ASSUME NEW f \in Device, ExpireFamily(f)
        PROVE  Untouched(t)
    BY <1>4, DropUntouched DEF ExpireFamily
  <1> QED
    BY <1>1, <1>2, <1>3, <1>4 DEF Next, Restart, vars

(* A settled token that is accepted after a step was accepted before it,   *)
(* and its key says the same.                                              *)
LEMMA ValidBackwards ==
    ASSUME TypeOK, Locals, [Next]_vars, NEW t \in Token, Settled(t), Valid(t)'
    PROVE  Valid(t) /\ tokenKey'[t] = tokenKey[t]
  <1>1. Untouched(t)
    BY StoreEffect
  <1>2. tokenKey[t] # Absent /\ tokenKey'[t] = tokenKey[t] /\ tokenKey[t].fam \in Device
    BY <1>1 DEF Untouched, Valid, TypeOK, SessionData
  <1> QED
    BY <1>1, <1>2 DEF Untouched, Valid, IsCurrent

(* Initially no token has a writer.                                        *)
LEMMA OwnershipInit == Init => Ownership
  BY DEF Init, Ownership, Idle

IInv == TypeOK /\ Locals /\ Ownership

(* IInv is inductive.                                                      *)
LEMMA Invariance == Spec => []IInv
  <1>1. Init => IInv
    BY InitType, OwnershipInit DEF IInv
  <1>2. IInv /\ [Next]_vars => IInv'
    BY TypeStep, OwnershipStep DEF IInv
  <1> QED
    BY <1>1, <1>2, PTL DEF Spec

(* No step of any request makes a dead settled token accepted again.       *)
THEOREM DeadForever == Spec => DeadStaysDead
  <1>1. IInv /\ [Next]_vars
          => [\A t \in Token : Settled(t) /\ ~Valid(t) => ~Valid(t)']_vars
    BY ValidBackwards DEF IInv
  <1> QED
    BY <1>1, Invariance, PTL DEF Spec, DeadStaysDead

-----------------------------------------------------------------------------
(* The refinement of TokenLifecycle.  A step either leaves the store alone *)
(* or lets no request take or give up a token: the first kind settles      *)
(* tokens, the second ends them.                                           *)
LEMMA StoreOrOwners ==
    ASSUME TypeOK, Locals, [Next]_vars
    PROVE  UNCHANGED store \/ \A t \in Token : Settled(t)' <=> Settled(t)
  <1>1. ASSUME NEW p \in Proc, Keeps(p)
        PROVE  \A t \in Token : Settled(t)' <=> Settled(t)
    <2>1. \A q \in Proc : req'[q].new = req[q].new
      BY <1>1 DEF Keeps, Only, TypeOK
    <2> QED
      BY <1>1, <2>1 DEF Keeps, Settled, clients
  <1>2. ASSUME NEW p \in Proc, Step(p)
        PROVE  UNCHANGED store \/ \A t \in Token : Settled(t)' <=> Settled(t)
    BY <1>1, <1>2, StepKinds DEF Drops, Mints, store
  <1>3. CASE UNCHANGED <<req, minted>>
    BY <1>3 DEF Settled
  <1> QED
    BY <1>2, <1>3 DEF Next, Logout, ExpireToken, ExpireFamily, Restart, clients, store, vars

(* Every step is one of TokenLifecycle, or none, under the mapping Life.   *)
LEMMA LifecycleStep ==
    ASSUME IInv, [Next]_vars
    PROVE  [Lifecycle!Next]_Life
  <1>1. \A t \in Token : Life[t] = IF ~Settled(t) THEN "pending"
                                   ELSE IF Valid(t) THEN "active" ELSE "dead"
    BY DEF Life
  <1>2. \A t \in Token : Life'[t] = IF ~Settled(t)' THEN "pending"
                                    ELSE IF Valid(t)' THEN "active" ELSE "dead"
    BY DEF Life
  <1>3. \A t \in Token : Settled(t) => Settled(t)'
    BY OwnershipStep DEF IInv
  <1>4. \A t \in Token : Settled(t) /\ Valid(t)' => Valid(t)
    BY ValidBackwards DEF IInv
  <1>5. Life' = [t \in Token |-> Life'[t]]
    BY DEF Life
  <1>6. CASE UNCHANGED store
    <2> DEFINE A == {t \in Token : Life[t] = "pending" /\ Life'[t] = "active"}
               D == {t \in Token : Life[t] = "pending" /\ Life'[t] = "dead"}
    <2>1. \A t \in Token : Valid(t)' <=> Valid(t)
      BY <1>6 DEF store, Valid, IsCurrent
    <2>2. \A t \in Token : Life'[t] = IF t \in A THEN "active"
                                      ELSE IF t \in D THEN "dead" ELSE Life[t]
      BY <1>1, <1>2, <1>3, <2>1
    <2>3. Lifecycle!Settle(A, D)
      BY <1>5, <2>2 DEF Lifecycle!Settle, Lifecycle!In
    <2> QED
      BY <2>3 DEF Lifecycle!Next
  <1>7. CASE \A t \in Token : Settled(t)' <=> Settled(t)
    <2> DEFINE S == {t \in Token : Life[t] = "active" /\ Life'[t] = "dead"}
    <2>1. \A t \in Token : Life'[t] = IF t \in S THEN "dead" ELSE Life[t]
      BY <1>1, <1>2, <1>4, <1>7
    <2>2. Lifecycle!End(S)
      BY <1>5, <2>1 DEF Lifecycle!End, Lifecycle!In
    <2> QED
      BY <2>2 DEF Lifecycle!Next
  <1> QED
    BY <1>6, <1>7, StoreOrOwners DEF IInv

(* The store, with every interleaving of its requests, implements the life *)
(* of tokens that TokenLifecycle specifies.                                *)
THEOREM LifecycleRefinement == Spec => ImplementsLifecycle
  <1>1. Init => Lifecycle!Init
    BY DEF Init, Lifecycle!Init, Life, Settled
  <1>2. IInv /\ [Next]_vars => [Lifecycle!Next]_Life
    BY LifecycleStep
  <1> QED
    BY <1>1, <1>2, Invariance, PTL DEF Spec, ImplementsLifecycle, Lifecycle!Spec

-----------------------------------------------------------------------------
(* A step of one request leaves the others alone.                          *)
LEMMA OthersStay ==
    ASSUME TypeOK, Locals, NEW p \in Proc, Step(p), NEW q \in Proc, q # p
    PROVE  /\ req'[q] = req[q]
           /\ ends'[q] = ends[q]
           /\ q \in stale' => q \in stale
  BY DEF TypeOK, store, clients, history, Become, Answer, Wipe,
         Step, LoginStart, LoginClean, StoreGetFamily, StoreSetToken, StoreSetFamily,
         AnswerToken, PresentToken, VerifyFamily, NotCurrent, TtlGone, TtlRefresh,
         RotateGetToken, RotateVerify, DeleteOld, Reject, RevokeGetFamily,
         RevokeDeleteKeys, RevokeDeleteFamily, ChangePassword, RefusePassword,
         VerifyReset, WipeScanTokens, WipeUnlinkTokens, WipeScanFamilies,
         WipeUnlinkFamilies, AnswerWipe

(* The steps that no request takes change no request, except a restart,    *)
(* which ends them all.                                                    *)
LEMMA NoRequestSteps ==
    ASSUME [Next]_vars, ~ \E p \in Proc : Step(p)
    PROVE  UNCHANGED <<req, clients, history>> \/ Restart
  BY DEF Next, Logout, ExpireToken, ExpireFamily, vars, clients, history

-----------------------------------------------------------------------------
(* A request carries a token that some client was given.                   *)
Presented(p) == req[p].old \in issued \cup {NoToken}

(* A request whose token was dead on arrival cannot pass the check it is   *)
(* at: the token will not become current again.                            *)
StaleFails(p) ==
    p \in stale => /\ req[p].pc \in {"verify", "reject", "revoke", "revoking"}
                   /\ At(p, "verify") => ~IsCurrent(req[p].old, req[p].fam)

(* The command of request p that will end token t, if t is still accepted. *)
Remaining(p, t) ==
    \/ /\ At(p, "clean")
       /\ t \in req[p].keys \/ tokenKey[t].fam = req[p].fam
    \/ /\ At(p, "store")
       /\ Pending(p, "deleteOld")
       /\ t = req[p].old
    \/ /\ At(p, "store")
       /\ Pending(p, "getFamily") \/ Pending(p, "setFamily")
       /\ tokenKey[t].fam = req[p].fam
    \/ /\ At(p, "revoking")
       /\ Pending(p, "deleteFamily")
       /\ tokenKey[t].fam = req[p].fam
    \/ /\ At(p, "wipe")
       /\ Pending(p, "scanTokens") \/ (Pending(p, "unlinkTokens") /\ t \in req[p].keys)

Ending(p) == \A t \in ends[p] : t \in issued /\ (Valid(t) => Remaining(p, t))

Sound(p) == Presented(p) /\ StaleFails(p) /\ Ending(p)

(* What a step may not do to a token that a client was given.              *)
LEMMA GivenTokens ==
    ASSUME IInv, [Next]_vars
    PROVE  /\ issued \subseteq issued'
           /\ \A t \in issued : Valid(t)' => Valid(t) /\ tokenKey'[t] = tokenKey[t]
           /\ \A t \in issued, f \in Device : IsCurrent(t, f)' => IsCurrent(t, f)
  <1>1. issued \subseteq issued'
    <2>1. \A p \in Proc : Step(p) => issued \subseteq issued'
      BY StepKinds DEF IInv, Keeps, Drops, Mints, clients
    <2> QED
      BY <2>1 DEF Next, Logout, ExpireToken, ExpireFamily, Restart, vars, clients
  <1>2. \A t \in issued : t \in Token /\ Settled(t)
    BY DEF IInv, TypeOK, Ownership
  <1>3. \A t \in issued : Untouched(t)
    BY <1>2, StoreEffect DEF IInv
  <1>4. \A t \in issued, f \in Device : IsCurrent(t, f)' => IsCurrent(t, f)
    BY <1>3 DEF Untouched, IsCurrent
  <1> QED
    BY <1>1, <1>2, <1>4, ValidBackwards DEF IInv

(* The request that takes a step stays sound: one case per action.         *)
LEMMA SoundStep ==
    ASSUME IInv, \A p \in Proc : Sound(p), NEW p \in Proc, Step(p)
    PROVE  Sound(p)'
  <1> USE DEF store, clients, history
  <1>0. /\ req \in [Proc -> Request] /\ req[p] \in Request /\ LocalsOK(req[p])
        /\ ends \in [Proc -> SUBSET Token]
        /\ Presented(p) /\ StaleFails(p) /\ Ending(p)
    BY DEF IInv, TypeOK, Locals, Sound
  <1>a. /\ issued \subseteq issued'
        /\ \A t \in issued : Valid(t)' => Valid(t) /\ tokenKey'[t] = tokenKey[t]
        /\ \A t \in issued, f \in Device : IsCurrent(t, f)' => IsCurrent(t, f)
    BY GivenTokens DEF Next
  <1>1. ASSUME NEW d \in Device, NEW n \in Token, LoginStart(p, d, n)
       PROVE  Sound(p)'
    <2>1. /\ req'[p].pc = "clean" /\ req'[p].old = NoToken
          /\ req'[p].fam = d /\ req'[p].keys = KeysOf(d)
      BY <1>0, <1>1 DEF LoginStart, Become, Idle
    <2>2. /\ ends'[p] = {t \in issued : Valid(t) /\ d \in {tokenKey[t].dev, tokenKey[t].fam}}
          /\ UNCHANGED <<tokenKey, issued, stale>>
      BY <1>0, <1>1 DEF LoginStart
    <2>3. p \notin stale
      BY <1>0, <1>1 DEF LoginStart, At, StaleFails
    <2>4. ASSUME NEW t \in ends'[p]
          PROVE  t \in req'[p].keys \/ tokenKey'[t].fam = req'[p].fam
      <3>1. t \in Token /\ tokenKey[t] # Absent
        BY <2>2, <2>4 DEF Valid, IInv, TypeOK
      <3> QED
        BY <2>1, <2>2, <2>4, <3>1 DEF KeysOf, Keys
    <2>5. Ending(p)'
      BY <2>1, <2>2, <2>4 DEF Ending, Remaining, At
    <2> QED
      BY <2>1, <2>2, <2>3, <2>5 DEF Sound, Presented, StaleFails
  <1>2. ASSUME LoginClean(p)
       PROVE  Sound(p)'
    <2>1. /\ req'[p].pc = "store" /\ req'[p].old = req[p].old
          /\ req'[p].fam = req[p].fam /\ req'[p].todo = {"getFamily"}
      BY <1>0, <1>2 DEF LoginClean, Become, Request
    <2>2. At(p, "clean") /\ UNCHANGED <<issued, ends, stale>>
      BY <1>2 DEF LoginClean
    <2>3. p \notin stale
      BY <1>0, <2>2 DEF At, StaleFails
    <2>4. \A t \in req[p].keys : ~Valid(t)'
      BY <1>0, <1>2 DEF LoginClean, DropKeys, Valid, Request
    <2>5. ASSUME NEW t \in ends[p], Valid(t)'
          PROVE  tokenKey'[t].fam = req'[p].fam
      BY <1>0, <1>a, <2>1, <2>2, <2>4, <2>5 DEF Ending, Remaining, At
    <2>6. Ending(p)'
      BY <1>0, <2>1, <2>2, <2>5 DEF Ending, Remaining, At, Pending
    <2> QED
      BY <1>0, <2>1, <2>2, <2>3, <2>6 DEF Sound, Presented, StaleFails
  <1>3. ASSUME StoreGetFamily(p)
       PROVE  Sound(p)'
    BY <1>0, <1>a, <1>3 DEF StoreGetFamily, Did, LocalsOK, Request, At, Pending, Become,
       Sound, Presented, StaleFails, Ending, Remaining
  <1>4. ASSUME StoreSetToken(p)
       PROVE  Sound(p)'
    BY <1>0, <1>a, <1>4 DEF StoreSetToken, Did, LocalsOK, Request, At, Pending, Become,
       Sound, Presented, StaleFails, Ending, Remaining
  <1>5. ASSUME StoreSetFamily(p)
       PROVE  Sound(p)'
    <2>1. /\ req[p].pc = "store" /\ req[p].fam \in Device
          /\ req'[p].pc = "store" /\ req'[p].old = req[p].old
          /\ req'[p].todo = req[p].todo \ {"setFamily"}
      BY <1>0, <1>5 DEF StoreSetFamily, Become, Did, Pending, Request, LocalsOK
    <2>2. /\ UNCHANGED <<tokenKey, issued, ends, stale>>
          /\ family'[req[p].fam].current = req[p].new
      BY <1>5, <2>1 DEF StoreSetFamily, IInv, TypeOK
    <2>3. p \notin stale
      BY <1>0, <2>1 DEF StaleFails
    <2>4. \A t \in issued : tokenKey[t].fam = req[p].fam => ~Valid(t)'
      BY <2>2 DEF Valid, IsCurrent, IInv, Ownership, Settled
    <2>5. Ending(p)'
      BY <1>0, <1>a, <2>1, <2>2, <2>4 DEF Ending, Remaining, At, Pending
    <2> QED
      BY <1>0, <2>1, <2>2, <2>3, <2>5 DEF Sound, Presented, StaleFails
  <1>6. ASSUME AnswerToken(p)
       PROVE  Sound(p)'
    BY <1>0, <1>a, <1>6 DEF AnswerToken, Answer, Idle, LocalsOK, Request, At, Pending,
       Become, Sound, Presented, StaleFails, Ending, Remaining
  <1>7. ASSUME NEW op \in Ops \cap {"refresh", "change"}, NEW t \in Token, NEW d \in Device, PresentToken(p, op, t, d)
       PROVE  Sound(p)'
    BY <1>0, <1>a, <1>7 DEF PresentToken, Idle, Valid, LocalsOK, Request, At, Pending,
       Become, Sound, Presented, StaleFails, Ending, Remaining
  <1>8. ASSUME VerifyFamily(p)
       PROVE  Sound(p)'
    BY <1>0, <1>a, <1>8 DEF VerifyFamily, Current, LocalsOK, Request, At, Pending,
       Become, Sound, Presented, StaleFails, Ending, Remaining
  <1>9. ASSUME NotCurrent(p)
       PROVE  Sound(p)'
    BY <1>0, <1>a, <1>9 DEF NotCurrent, LocalsOK, Request, At, Pending, Become, Sound,
       Presented, StaleFails, Ending, Remaining
  <1>10. ASSUME TtlGone(p)
       PROVE  Sound(p)'
    BY <1>0, <1>a, <1>10 DEF TtlGone, LocalsOK, Request, At, Pending, Become, Sound,
       Presented, StaleFails, Ending, Remaining
  <1>11. ASSUME NEW n \in Token, TtlRefresh(p, n)
       PROVE  Sound(p)'
    BY <1>0, <1>a, <1>11 DEF TtlRefresh, LocalsOK, Request, At, Pending, Become, Sound,
       Presented, StaleFails, Ending, Remaining
  <1>12. ASSUME RotateGetToken(p)
       PROVE  Sound(p)'
    BY <1>0, <1>a, <1>12 DEF RotateGetToken, LocalsOK, Request, At, Pending, Become,
       Sound, Presented, StaleFails, Ending, Remaining
  <1>13. ASSUME RotateVerify(p)
       PROVE  Sound(p)'
    <2>1. /\ req'[p].pc = "store" /\ req'[p].old = req[p].old
          /\ req'[p].todo = {"deleteOld", "getFamily"}
      BY <1>0, <1>13 DEF RotateVerify, Become, Request
    <2>2. At(p, "rotateVerify") /\ ends'[p] = {req[p].old} /\ UNCHANGED <<issued, stale>>
      BY <1>0, <1>13 DEF RotateVerify
    <2>3. p \notin stale /\ req[p].old \in issued
      BY <1>0, <2>2, NullAssumption DEF At, StaleFails, Presented, LocalsOK
    <2>4. Ending(p)'
      BY <2>1, <2>2, <2>3 DEF Ending, Remaining, At, Pending
    <2> QED
      BY <2>1, <2>2, <2>3, <2>4 DEF Sound, Presented, StaleFails
  <1>14. ASSUME DeleteOld(p)
       PROVE  Sound(p)'
    <2>1. /\ req'[p].pc = req[p].pc /\ req'[p].old = req[p].old /\ req'[p].fam = req[p].fam
          /\ req'[p].keys = req[p].keys /\ req'[p].todo = req[p].todo \ {"deleteOld"}
      BY <1>0, <1>14 DEF DeleteOld, Become, Did, Request
    <2>2. req[p].pc \in {"store", "wipe"} /\ UNCHANGED <<issued, ends, stale>>
      BY <1>0, <1>14 DEF DeleteOld, Pending, LocalsOK
    <2>3. p \notin stale
      BY <1>0, <2>2 DEF StaleFails
    <2>4. \A t \in Token : t = req[p].old => ~Valid(t)'
      BY <1>14 DEF DeleteOld, DropKeys, Valid
    <2>5. ends[p] \subseteq Token
      BY <1>0
    <2>6. Ending(p)'
      BY <1>0, <1>a, <2>1, <2>2, <2>4, <2>5 DEF Ending, Remaining, At, Pending
    <2> QED
      BY <1>0, <2>1, <2>2, <2>3, <2>6 DEF Sound, Presented, StaleFails
  <1>15. ASSUME Reject(p)
       PROVE  Sound(p)'
    BY <1>0, <1>a, <1>15 DEF Reject, Answer, Idle, LocalsOK, Request, At, Pending,
       Become, Sound, Presented, StaleFails, Ending, Remaining
  <1>16. ASSUME RevokeGetFamily(p)
       PROVE  Sound(p)'
    <2>1. At(p, "revoke") /\ UNCHANGED <<tokenKey, issued, stale>>
      BY <1>16 DEF RevokeGetFamily
    <2>2. CASE family[req[p].fam] = Absent
      <3>1. req'[p].pc = "reject" /\ req'[p].old = req[p].old /\ ends' = ends
        BY <1>0, <1>16, <2>2 DEF RevokeGetFamily, Become, Request
      <3> QED
        BY <1>0, <1>a, <2>1, <3>1 DEF Sound, Presented, StaleFails, Ending, Remaining, At
    <2>3. CASE family[req[p].fam] # Absent
      <3>1. Become(p, [req[p] EXCEPT !.pc = "revoking", !.keys = family[req[p].fam].tokens,
                                     !.todo = {"deleteKeys", "deleteFamily"}])
        BY <1>16, <2>3 DEF RevokeGetFamily
      <3>2. /\ req'[p].pc = "revoking" /\ req'[p].old = req[p].old /\ req'[p].fam = req[p].fam
            /\ "deleteFamily" \in req'[p].todo
        BY <1>0, <3>1 DEF Become, Request
      <3>3. ends'[p] = {t \in issued : tokenKey[t] # Absent /\ tokenKey[t].fam = req[p].fam}
        BY <1>0, <1>16, <2>3 DEF RevokeGetFamily
      <3>4. Ending(p)'
        BY <2>1, <3>2, <3>3 DEF Ending, Remaining, At, Pending
      <3> QED
        BY <1>0, <2>1, <3>2, <3>4 DEF Sound, Presented, StaleFails, At
    <2> QED
      BY <2>2, <2>3
  <1>17. ASSUME RevokeDeleteKeys(p)
       PROVE  Sound(p)'
    BY <1>0, <1>a, <1>17 DEF RevokeDeleteKeys, Did, LocalsOK, Request, At, Pending,
       Become, Sound, Presented, StaleFails, Ending, Remaining
  <1>18. ASSUME RevokeDeleteFamily(p)
       PROVE  Sound(p)'
    BY <1>0, <1>a, <1>18 DEF RevokeDeleteFamily, Did, DropFamilies, Valid, IsCurrent,
       LocalsOK, Request, At, Pending, Become, Sound, Presented, StaleFails, Ending,
       Remaining
  <1>19. ASSUME ChangePassword(p)
       PROVE  Sound(p)'
    BY <1>0, <1>a, <1>19 DEF ChangePassword, Wipe, LocalsOK, Request, At, Pending,
       Become, Sound, Presented, StaleFails, Ending, Remaining
  <1>20. ASSUME RefusePassword(p)
       PROVE  Sound(p)'
    BY <1>0, <1>a, <1>20 DEF RefusePassword, Answer, Idle, LocalsOK, Request, At,
       Pending, Become, Sound, Presented, StaleFails, Ending, Remaining
  <1>21. ASSUME VerifyReset(p)
       PROVE  Sound(p)'
    BY <1>0, <1>a, <1>21 DEF VerifyReset, Wipe, Idle, LocalsOK, Request, At, Pending,
       Become, Sound, Presented, StaleFails, Ending, Remaining
  <1>22. ASSUME WipeScanTokens(p)
       PROVE  Sound(p)'
    BY <1>0, <1>a, <1>22 DEF WipeScanTokens, Did, Keys, Valid, LocalsOK, Request, At,
       Pending, Become, Sound, Presented, StaleFails, Ending, Remaining
  <1>23. ASSUME WipeUnlinkTokens(p)
       PROVE  Sound(p)'
    <2>1. /\ req'[p].pc = "wipe" /\ req'[p].old = req[p].old
          /\ req'[p].todo = req[p].todo \ {"unlinkTokens"}
      BY <1>0, <1>23 DEF WipeUnlinkTokens, Become, Did, Pending, Request, LocalsOK
    <2>2. req[p].pc = "wipe" /\ UNCHANGED <<issued, ends, stale>>
      BY <1>0, <1>23 DEF WipeUnlinkTokens, Pending, LocalsOK
    <2>3. p \notin stale
      BY <1>0, <2>2 DEF StaleFails
    <2>4. \A t \in req[p].keys : ~Valid(t)'
      BY <1>0, <1>23 DEF WipeUnlinkTokens, DropKeys, Valid, Request
    <2>5. Ending(p)'
      BY <1>0, <1>a, <2>1, <2>2, <2>4 DEF Ending, Remaining, At, Pending
    <2> QED
      BY <1>0, <2>1, <2>2, <2>3, <2>5 DEF Sound, Presented, StaleFails
  <1>24. ASSUME WipeScanFamilies(p)
       PROVE  Sound(p)'
    BY <1>0, <1>a, <1>24 DEF WipeScanFamilies, Did, LocalsOK, Request, At, Pending,
       Become, Sound, Presented, StaleFails, Ending, Remaining
  <1>25. ASSUME WipeUnlinkFamilies(p)
       PROVE  Sound(p)'
    BY <1>0, <1>a, <1>25 DEF WipeUnlinkFamilies, Did, LocalsOK, Request, At, Pending,
       Become, Sound, Presented, StaleFails, Ending, Remaining
  <1>26. ASSUME AnswerWipe(p)
       PROVE  Sound(p)'
    BY <1>0, <1>a, <1>26 DEF AnswerWipe, Answer, Idle, LocalsOK, Request, At, Pending,
       Become, Sound, Presented, StaleFails, Ending, Remaining
  <1> QED
    BY <1>1, <1>2, <1>3, <1>4, <1>5, <1>6, <1>7, <1>8, <1>9, <1>10, <1>11, <1>12, <1>13,
       <1>14, <1>15, <1>16, <1>17, <1>18, <1>19, <1>20, <1>21, <1>22, <1>23, <1>24,
       <1>25, <1>26 DEF Step

(* A request that takes no step stays sound, whatever the others do.       *)
LEMMA SoundStays ==
    ASSUME IInv, [Next]_vars, NEW p \in Proc, Sound(p),
           req'[p] = req[p], ends'[p] = ends[p], p \in stale' => p \in stale
    PROVE  Sound(p)'
  <1>1. /\ issued \subseteq issued'
        /\ \A t \in issued : Valid(t)' => Valid(t) /\ tokenKey'[t] = tokenKey[t]
        /\ \A t \in issued, f \in Device : IsCurrent(t, f)' => IsCurrent(t, f)
    BY GivenTokens
  <1>2. Presented(p)'
    BY <1>1 DEF Sound, Presented
  <1>3. StaleFails(p)'
    <2>1. At(p, "verify") => req[p].old \in issued /\ req[p].fam \in Device
      BY NullAssumption DEF IInv, Locals, LocalsOK, At, Sound, Presented
    <2> QED
      BY <1>1, <2>1 DEF Sound, StaleFails, At
  <1>4. Ending(p)'
    BY <1>1 DEF Sound, Ending, Remaining, At, Pending
  <1> QED
    BY <1>2, <1>3, <1>4 DEF Sound

SafeInv == IInv /\ \A p \in Proc : Sound(p)

(* All requests are sound in the beginning ...                             *)
LEMMA SafeInit == Init => SafeInv
  <1>1. Init => IInv
    BY InitType, OwnershipInit DEF IInv
  <1>2. Init => \A p \in Proc : Sound(p)
    BY DEF Init, Idle, Sound, Presented, StaleFails, Ending
  <1> QED
    BY <1>1, <1>2 DEF SafeInv

(* ... after every step ...                                                *)
LEMMA SafeStep == SafeInv /\ [Next]_vars => SafeInv'
  <1> SUFFICES ASSUME SafeInv, [Next]_vars
               PROVE  SafeInv'
    OBVIOUS
  <1>1. IInv'
    BY TypeStep, OwnershipStep DEF SafeInv, IInv
  <1>2. ASSUME NEW q \in Proc, Step(q), NEW p \in Proc
        PROVE  Sound(p)'
    <2>1. CASE p = q
      BY <1>2, <2>1, SoundStep DEF SafeInv
    <2>2. CASE p # q
      BY <1>2, <2>2, OthersStay, SoundStays DEF SafeInv, IInv
    <2> QED
      BY <2>1, <2>2
  <1>3. ASSUME UNCHANGED <<req, clients, history>>, NEW p \in Proc
        PROVE  Sound(p)'
    BY <1>3, SoundStays DEF SafeInv, history
  <1>4. ASSUME Restart, NEW p \in Proc
        PROVE  Sound(p)'
    BY <1>4 DEF Restart, Idle, Sound, Presented, StaleFails, Ending
  <1> QED
    BY <1>1, <1>2, <1>3, <1>4, NoRequestSteps DEF SafeInv

(* ... and so in every reachable state.                                    *)
LEMMA SafeInvariance == Spec => []SafeInv
  BY SafeInit, SafeStep, PTL DEF Spec

(* No request whose token was dead when it arrived passes both checks.     *)
THEOREM StaleTokens == Spec => []StaleTokenBuysNothing
  <1>1. SafeInv => StaleTokenBuysNothing
    BY DEF SafeInv, Sound, StaleFails, StaleTokenBuysNothing, IInv, TypeOK
  <1> QED
    BY <1>1, SafeInvariance, PTL

(* When a request has sent its last command, the tokens it was to end are  *)
(* dead.                                                                   *)
THEOREM EndedTokens == Spec => []EndedTokensAreDead
  <1>1. SafeInv => EndedTokensAreDead
    BY DEF SafeInv, Sound, Ending, Remaining, EndedTokensAreDead, Done, At, Pending
  <1> QED
    BY <1>1, SafeInvariance, PTL

-----------------------------------------------------------------------------
(* Every trace that the store and the requests hold of token t is in the   *)
(* family f: no key, and no request that is to write t, names another one. *)
Belongs(t, f) ==
    /\ t \in minted
    /\ tokenKey[t] # Absent => tokenKey[t].fam = f
    /\ \A q \in Proc : req[q].new = t => At(q, "store") /\ req[q].fam = f

(* The copy of a family that a request is to write, and its own token.     *)
Copies(p) ==
    /\ \A t \in req[p].chain : At(p, "store") /\ Belongs(t, req[p].fam)
    /\ Pending(p, "setFamily") => req[p].new \in req[p].chain
    /\ \A t \in Keys : req[p].new = t => At(p, "store") /\ tokenKey[t].fam = req[p].fam

Holds(f) ==
    /\ family[f].current \in family[f].tokens
    /\ \A t \in family[f].tokens : Belongs(t, f)

Placed ==
    /\ \A f \in Families : Holds(f)
    /\ \A p \in Proc : Copies(p)
    /\ Keys \subseteq minted

(* A request that is storing goes on storing, for the same token and family, *)
(* until it answers.                                                       *)
LEMMA StoreStep ==
    ASSUME TypeOK, Locals, NEW p \in Proc, Step(p), At(p, "store")
    PROVE  \/ AnswerToken(p)
           \/ /\ req'[p].pc = "store"
              /\ req'[p].fam = req[p].fam
              /\ req'[p].new = req[p].new
              /\ \/ StoreGetFamily(p)
                 \/ req'[p].chain = req[p].chain /\ req'[p].todo \subseteq req[p].todo
                 \/ req'[p].chain = {} /\ ~Pending(p, "setFamily")'
  <1>0. req \in [Proc -> Request] /\ req[p] \in Request /\ LocalsOK(req[p])
    BY DEF TypeOK, Locals
  <1>1. \/ StoreGetFamily(p) \/ StoreSetToken(p) \/ StoreSetFamily(p)
        \/ DeleteOld(p) \/ AnswerToken(p)
    BY <1>0 DEF LocalsOK, At, Pending, Done,
       Step, LoginStart, LoginClean, PresentToken, VerifyFamily, NotCurrent, TtlGone,
       TtlRefresh, RotateGetToken, RotateVerify, Reject, RevokeGetFamily,
       RevokeDeleteKeys, RevokeDeleteFamily, ChangePassword, RefusePassword,
       VerifyReset, WipeScanTokens, WipeUnlinkTokens, WipeScanFamilies,
       WipeUnlinkFamilies, AnswerWipe
  <1>2. CASE StoreGetFamily(p)
    BY <1>0, <1>2 DEF StoreGetFamily, Become, Did, Request, At
  <1>3. CASE StoreSetToken(p)
    BY <1>0, <1>3 DEF StoreSetToken, Become, Did, Request, At
  <1>4. CASE StoreSetFamily(p)
    BY <1>0, <1>4 DEF StoreSetFamily, Become, Did, Request, At, Pending
  <1>5. CASE DeleteOld(p)
    BY <1>0, <1>5 DEF DeleteOld, Become, Did, Request, At
  <1> QED
    BY <1>1, <1>2, <1>3, <1>4, <1>5

(* Any other request reads no family and is not about to write one.        *)
LEMMA OtherStep ==
    ASSUME TypeOK, Locals, NEW p \in Proc, Step(p), ~At(p, "store")
    PROVE  /\ req'[p].chain = req[p].chain \/ req'[p].chain = {}
           /\ "setFamily" \notin req'[p].todo
  <1>0. req \in [Proc -> Request] /\ req[p] \in Request /\ LocalsOK(req[p])
    BY DEF TypeOK, Locals
  <1>1. /\ "setFamily" \notin req[p].todo
        /\ ~Pending(p, "getFamily") /\ ~Pending(p, "setToken") /\ ~Pending(p, "setFamily")
    BY <1>0 DEF LocalsOK, Pending, At
  <1>2. CASE \E d \in Device, n \in Token : LoginStart(p, d, n)
    BY <1>0, <1>1, <1>2 DEF LoginStart, Idle, Become, Request
  <1>3. CASE LoginClean(p)
    BY <1>0, <1>1, <1>3 DEF LoginClean, Become, Request
  <1>4. CASE \E op \in Ops \cap {"refresh", "change"}, t \in Token, d \in Device :
               PresentToken(p, op, t, d)
    BY <1>0, <1>1, <1>4 DEF PresentToken, Idle, Become, Request
  <1>5. CASE VerifyReset(p)
    BY <1>0, <1>1, <1>5 DEF VerifyReset, Wipe, Idle, Become, Request
  <1>6. CASE VerifyFamily(p)
    BY <1>0, <1>1, <1>6 DEF VerifyFamily, Become, Request
  <1>7. CASE NotCurrent(p)
    BY <1>0, <1>1, <1>7 DEF NotCurrent, Become, Request
  <1>8. CASE TtlGone(p)
    BY <1>0, <1>1, <1>8 DEF TtlGone, Become, Request
  <1>9. CASE \E n \in Token : TtlRefresh(p, n)
    BY <1>0, <1>1, <1>9 DEF TtlRefresh, Become, Request
  <1>10. CASE RotateGetToken(p)
    BY <1>0, <1>1, <1>10 DEF RotateGetToken, Become, Request
  <1>11. CASE RotateVerify(p)
    BY <1>0, <1>1, <1>11 DEF RotateVerify, Become, Request
  <1>12. CASE DeleteOld(p)
    BY <1>0, <1>1, <1>12 DEF DeleteOld, Did, Become, Request
  <1>13. CASE RevokeGetFamily(p)
    <2>1. CASE family[req[p].fam] = Absent
      BY <1>0, <1>1, <1>13, <2>1 DEF RevokeGetFamily, Become, Request
    <2>2. CASE family[req[p].fam] # Absent
      <3>1. Become(p, [req[p] EXCEPT !.pc = "revoking", !.keys = family[req[p].fam].tokens,
                                     !.todo = {"deleteKeys", "deleteFamily"}])
        BY <1>13, <2>2 DEF RevokeGetFamily
      <3> QED
        BY <1>0, <3>1 DEF Become, Request
    <2> QED
      BY <2>1, <2>2
  <1>14. CASE RevokeDeleteKeys(p)
    BY <1>0, <1>1, <1>14 DEF RevokeDeleteKeys, Did, Become, Request
  <1>15. CASE RevokeDeleteFamily(p)
    BY <1>0, <1>1, <1>15 DEF RevokeDeleteFamily, Did, Become, Request
  <1>16. CASE ChangePassword(p)
    BY <1>0, <1>1, <1>16 DEF ChangePassword, Wipe, Become, Request
  <1>17. CASE WipeScanTokens(p)
    BY <1>0, <1>1, <1>17 DEF WipeScanTokens, Did, Become, Request
  <1>18. CASE WipeUnlinkTokens(p)
    BY <1>0, <1>1, <1>18 DEF WipeUnlinkTokens, Did, Become, Request
  <1>19. CASE WipeScanFamilies(p)
    BY <1>0, <1>1, <1>19 DEF WipeScanFamilies, Did, Become, Request
  <1>20. CASE WipeUnlinkFamilies(p)
    BY <1>0, <1>1, <1>20 DEF WipeUnlinkFamilies, Did, Become, Request
  <1>21. CASE Answer(p)
    BY <1>0, <1>1, <1>21 DEF Answer, Idle, Become, Request
  <1> QED
    BY <1>1, <1>2, <1>3, <1>4, <1>5, <1>6, <1>7, <1>8, <1>9, <1>10, <1>11,
       <1>12, <1>13, <1>14, <1>15, <1>16, <1>17, <1>18, <1>19, <1>20, <1>21
       DEF Step, StoreGetFamily, StoreSetToken, StoreSetFamily, AnswerToken, Done, Reject,
           RefusePassword, AnswerWipe

(* What a step may do to a token key: nothing, delete it, or write the key *)
(* of the token that the request mints, for the family it stores in.       *)
LEMMA KeyEffect ==
    ASSUME IInv, NEW p \in Proc, Step(p), NEW t \in Token
    PROVE  \/ tokenKey'[t] \in {tokenKey[t], Absent}
           \/ /\ req[p].new = t
              /\ At(p, "store")
              /\ tokenKey'[t] # Absent
              /\ tokenKey'[t].fam = req[p].fam
              /\ tokenKey'[t].dev = req[p].dev
              /\ UNCHANGED minted
  <1>1. CASE StoreSetToken(p)
    <2>1. At(p, "store") /\ req[p].fam \in Device /\ req[p].dev \in Device /\ req[p].new \in Token
      BY <1>1 DEF StoreSetToken, Pending, At, IInv, Locals, LocalsOK
    <2>2. tokenKey' = [tokenKey EXCEPT ![req[p].new] = [fam |-> req[p].fam, dev |-> req[p].dev]]
      BY <1>1 DEF StoreSetToken
    <2>3. [fam |-> req[p].fam, dev |-> req[p].dev] # Absent
      BY <2>1, NullAssumption DEF SessionData
    <2>4. UNCHANGED minted
      BY <1>1 DEF StoreSetToken, clients
    <2>5. CASE t = req[p].new
      BY <2>1, <2>2, <2>3, <2>4, <2>5 DEF IInv, TypeOK
    <2>6. CASE t # req[p].new
      BY <2>2, <2>6 DEF IInv, TypeOK
    <2> QED
      BY <2>5, <2>6
  <1>2. CASE \E K : DropKeys(K)
    BY <1>2 DEF DropKeys
  <1> QED
    BY <1>1, <1>2, StoreKinds DEF StoreSetFamily, store

(* A token stays in its family, whoever takes a step.                      *)
LEMMA BelongsStep ==
    ASSUME IInv, [Next]_vars, NEW t \in Token, NEW f \in Device, Belongs(t, f)
    PROVE  Belongs(t, f)'
  <1>1. CASE UNCHANGED req /\ minted' = minted /\ tokenKey'[t] \in {tokenKey[t], Absent}
    BY <1>1 DEF Belongs, At
  <1>2. ASSUME NEW p \in Proc, Step(p)
        PROVE  Belongs(t, f)'
    <2>1. minted \subseteq minted'
      BY <1>2, StepKinds DEF IInv, Keeps, Drops, Mints, clients
    <2>2. tokenKey'[t] # Absent => tokenKey'[t].fam = f
      BY <1>2, KeyEffect DEF Belongs
    <2>3. ASSUME req'[p].new = t
          PROVE  req'[p].pc = "store" /\ req'[p].fam = f
      <3>1. req[p].new = t /\ At(p, "store") /\ req[p].fam = f
        BY <1>2, <2>3, StepKinds, NullAssumption DEF IInv, Keeps, Drops, Mints, Belongs
      <3>2. ~AnswerToken(p)
        BY <2>3, NullAssumption DEF AnswerToken, Answer, Become, Idle, IInv, TypeOK
      <3> QED
        BY <1>2, <3>1, <3>2, StoreStep DEF IInv
    <2>4. \A q \in Proc : q # p => req'[q] = req[q]
      BY <1>2, OthersStay DEF IInv
    <2> QED
      BY <2>1, <2>2, <2>3, <2>4 DEF Belongs, At
  <1>3. CASE Restart
    BY <1>3, NullAssumption DEF Restart, Belongs, Idle, store, clients
  <1> QED
    BY <1>1, <1>2, <1>3 DEF Next, Logout, ExpireToken, ExpireFamily, DropKeys, vars, clients

PlacedInv == IInv /\ Placed

(* The request that takes a step holds a good copy after it.               *)
LEMMA CopiesStep ==
    ASSUME PlacedInv, [Next]_vars, NEW p \in Proc, Step(p)
    PROVE  Copies(p)'
  <1> USE DEF PlacedInv
  <1>0. /\ req \in [Proc -> Request] /\ req[p] \in Request /\ LocalsOK(req[p])
        /\ Copies(p) /\ Keys \subseteq minted
        /\ req[p].chain \subseteq Token
    BY DEF IInv, TypeOK, Locals, Placed, Request
  <1>1. CASE AnswerToken(p)
    <2>1. req'[p] = Idle
      BY <1>0, <1>1 DEF AnswerToken, Answer, Become
    <2> QED
      BY <2>1, NullAssumption DEF Copies, Idle, Pending, Keys
  <1>2. CASE At(p, "store") /\ ~AnswerToken(p)
    <2>0. req[p].fam \in Device /\ req[p].new \in Token
      BY <1>0, <1>2 DEF At, LocalsOK
    <2> PICK f \in Device : f = req[p].fam
      BY <2>0
    <2>1. At(p, "store")' /\ req'[p].fam = req[p].fam /\ req'[p].new = req[p].new
      BY <1>2, StoreStep DEF IInv, At
    <2>2. \A t \in Keys' : req'[p].new = t => tokenKey'[t].fam = req'[p].fam
      <3> SUFFICES ASSUME NEW t \in Token, tokenKey'[t] # Absent, req[p].new = t
                   PROVE  tokenKey'[t].fam = req[p].fam
        BY <2>1 DEF Keys
      <3> QED
        BY <1>0, KeyEffect DEF Copies, Keys
    <2>3. CASE StoreGetFamily(p)
      <3>1. Belongs(req[p].new, f)
        BY <1>0, <1>2, <2>0, NullAssumption DEF Belongs, Copies, Keys, IInv, Ownership
      <3>2. family[f] # Absent =>
               \A t \in family[f].tokens : t \in Token /\ Belongs(t, f)
        BY <2>0 DEF Placed, Holds, Families, IInv, TypeOK, FamilyData
      <3>3. /\ req[p].new \in req'[p].chain
            /\ \A t \in req'[p].chain :
                  \/ t = req[p].new
                  \/ family[f] # Absent /\ t \in family[f].tokens
        BY <1>0, <2>3 DEF StoreGetFamily, Become, Did, Request
      <3>4. \A t \in req'[p].chain : Belongs(t, f)'
        BY <2>0, <3>1, <3>2, <3>3, BelongsStep
      <3> QED
        BY <2>1, <2>2, <3>3, <3>4 DEF Copies
    <2>4. CASE req'[p].chain = req[p].chain /\ req'[p].todo \subseteq req[p].todo
      <3>1. \A t \in req[p].chain : Belongs(t, f)'
        BY <1>0, <2>0, BelongsStep DEF Copies
      <3> QED
        BY <1>0, <2>1, <2>2, <2>4, <3>1 DEF Copies, Pending
    <2>5. CASE req'[p].chain = {} /\ ~Pending(p, "setFamily")'
      BY <2>1, <2>2, <2>5 DEF Copies
    <2> QED
      BY <1>2, <2>3, <2>4, <2>5, StoreStep DEF IInv
  <1>3. CASE ~At(p, "store") /\ ~AnswerToken(p)
    <2>1. req'[p].chain = {} /\ ~Pending(p, "setFamily")'
      BY <1>0, <1>3, OtherStep DEF IInv, Copies, Pending
    <2>2. \A t \in Keys' : req'[p].new # t
      <3> SUFFICES ASSUME NEW t \in Token, tokenKey'[t] # Absent, req'[p].new = t
                   PROVE  FALSE
        BY DEF Keys
      <3>1. tokenKey[t] # Absent
        BY <1>3, KeyEffect
      <3> QED
        BY <1>0, <1>3, <3>1, StepKinds, NullAssumption
           DEF Copies, Keys, IInv, Keeps, Drops, Mints
    <2> QED
      BY <2>1, <2>2 DEF Copies
  <1> QED
    BY <1>1, <1>2, <1>3

(* The copy of a request that takes no step stays good.                    *)
LEMMA CopiesStay ==
    ASSUME PlacedInv, [Next]_vars, NEW q \in Proc, req'[q] = req[q],
           \A t \in Token : \/ tokenKey'[t] \in {tokenKey[t], Absent}
                            \/ t # req[q].new
    PROVE  Copies(q)'
  <1> USE DEF PlacedInv
  <1>0. Copies(q) /\ req[q] \in Request /\ LocalsOK(req[q])
    BY DEF Placed, IInv, TypeOK, Locals
  <1>1. \A t \in req[q].chain : At(q, "store") /\ Belongs(t, req[q].fam)'
    BY <1>0, BelongsStep DEF Copies, Request, LocalsOK, At
  <1>2. \A t \in Keys' : req[q].new = t => At(q, "store") /\ tokenKey'[t].fam = req[q].fam
    BY <1>0 DEF Copies, Keys
  <1> QED
    BY <1>0, <1>1, <1>2 DEF Copies, At, Pending

(* What a family holds after a step, it held before or a request wrote.    *)
LEMMA HoldsStep ==
    ASSUME PlacedInv, [Next]_vars, NEW f \in Families'
    PROVE  Holds(f)'
  <1> USE DEF PlacedInv
  <1>0. f \in Device /\ family'[f] # Absent
    BY DEF Families
  <1>1. CASE family'[f] = family[f]
    <2>1. Holds(f) /\ family[f].tokens \subseteq Token
      BY <1>0, <1>1 DEF Placed, Families, IInv, TypeOK, FamilyData
    <2> QED
      BY <1>0, <1>1, <2>1, BelongsStep DEF Holds
  <1>2. ASSUME NEW p \in Proc, StoreSetFamily(p), f = req[p].fam
        PROVE  Holds(f)'
    <2>1. Copies(p) /\ Pending(p, "setFamily") /\ req[p].chain \subseteq Token
      BY <1>2 DEF Placed, StoreSetFamily, IInv, TypeOK, Request
    <2>2. family'[f] = [tokens |-> req[p].chain, current |-> req[p].new]
      BY <1>0, <1>2 DEF StoreSetFamily, IInv, TypeOK
    <2>3. \A t \in req[p].chain : Belongs(t, f)'
      BY <1>0, <1>2, <2>1, BelongsStep DEF Copies
    <2> QED
      BY <2>1, <2>2, <2>3 DEF Holds, Copies
  <1>3. ASSUME NEW p \in Proc, Step(p)
        PROVE  Holds(f)'
    <2>1. CASE StoreSetFamily(p) /\ f # req[p].fam
      BY <1>0, <1>1, <2>1 DEF StoreSetFamily, IInv, TypeOK
    <2>2. CASE \E F : DropFamilies(F)
      BY <1>0, <1>1, <2>2 DEF DropFamilies
    <2> QED
      BY <1>1, <1>2, <1>3, <2>1, <2>2, StoreKinds DEF StoreSetToken, store
  <1> QED
    BY <1>0, <1>1, <1>3
       DEF Next, Logout, ExpireToken, ExpireFamily, DropFamilies, Restart, vars, store

(* Every step keeps families, copies and keys in their places.             *)
LEMMA PlacedStep == PlacedInv /\ [Next]_vars => Placed'
  <1> SUFFICES ASSUME PlacedInv, [Next]_vars
               PROVE  Placed'
    OBVIOUS
  <1>1. \A f \in Families' : Holds(f)'
    BY HoldsStep
  <1>2. \A p \in Proc : Copies(p)'
    <2>1. ASSUME NEW q \in Proc, Step(q), NEW p \in Proc, p # q
          PROVE  Copies(p)'
      <3>1. req'[p] = req[p]
        BY <2>1, OthersStay DEF PlacedInv, IInv
      <3>2. \A t \in Token : tokenKey'[t] \in {tokenKey[t], Absent} \/ t # req[p].new
        BY <2>1, KeyEffect, NullAssumption DEF PlacedInv, IInv, Ownership
      <3> QED
        BY <3>1, <3>2, CopiesStay
    <2>2. ASSUME UNCHANGED req, \A t \in Token : tokenKey'[t] \in {tokenKey[t], Absent},
                 NEW p \in Proc
          PROVE  Copies(p)'
      BY <2>2, CopiesStay
    <2>3. ASSUME Restart, NEW p \in Proc
          PROVE  Copies(p)'
      BY <2>3, NullAssumption DEF Restart, Idle, Copies, Pending, Keys
    <2> QED
      BY <2>1, <2>2, <2>3, CopiesStep
         DEF Next, Logout, ExpireToken, ExpireFamily, DropKeys, vars
  <1>3. Keys' \subseteq minted'
    <2>1. Keys \subseteq minted
      BY DEF PlacedInv, Placed
    <2>2. ASSUME NEW p \in Proc, Step(p), NEW t \in Keys'
          PROVE  t \in minted'
      <3>1. minted \subseteq minted'
        BY <2>2, StepKinds DEF PlacedInv, IInv, Keeps, Drops, Mints, clients
      <3> QED
        BY <2>1, <2>2, <3>1, KeyEffect, NullAssumption DEF Keys, PlacedInv, IInv, Ownership
    <2> QED
      BY <2>1, <2>2
         DEF Next, Logout, ExpireToken, ExpireFamily, DropKeys, Restart, Keys, vars, clients, store
  <1> QED
    BY <1>1, <1>2, <1>3 DEF Placed

(* Initially there is nothing to place.                                    *)
LEMMA PlacedInit == Init => PlacedInv
  BY InitType, OwnershipInit, NullAssumption
     DEF Init, Idle, PlacedInv, IInv, Placed, Holds, Families, Copies, Pending, Keys

(* A family tracks its current token and only keys written for itself, so  *)
(* revoking it logs out no device of another family.                       *)
THEOREM FamilyOwnership == Spec => []FamilyOwnsTokens
  <1>1. PlacedInv /\ [Next]_vars => PlacedInv'
    BY TypeStep, OwnershipStep, PlacedStep DEF PlacedInv, IInv
  <1>2. PlacedInv => FamilyOwnsTokens
    BY DEF PlacedInv, Placed, Holds, Belongs, FamilyOwnsTokens, Keys
  <1> QED
    BY <1>1, <1>2, PlacedInit, PTL DEF Spec

-----------------------------------------------------------------------------
(* SessionHistory.  The store and the requests name families of tokens in  *)
(* three places; they all name the device on which the session began,      *)
(* though its keys are deleted and its requests come from other devices.   *)

(* A key, or a request that has t or mints it, says that t is in family f. *)
Trace(t, f) ==
    \/ tokenKey[t] # Absent /\ tokenKey[t].fam = f
    \/ \E p \in Proc : t \in {req[p].old, req[p].new} /\ req[p].fam = f

(* All of them name the device on which the session of t began.           *)
AtHome == \A t \in Token, f \in Device : Trace(t, f) => Home(t) = f

(* A session is named by a token that was minted, and a token that was not *)
(* is in no session but its own.                                           *)
SessionsMinted ==
    /\ session \in [Token -> Token]
    /\ \A t \in Token : session[t] = t \/ (t \in minted /\ session[t] \in minted)

(* Who has not minted yet has no new token.                                *)
Unminted(r) ==
    /\ r.pc \in {"idle", "verify", "ttl"} => r.new = NoToken
    /\ r.pc = "idle" => r.op # "refresh"

(* The inductive invariant for the sessions.                               *)
HistoryInv ==
    /\ SafeInv
    /\ Placed
    /\ \A p \in Proc : Unminted(req[p])
    /\ SessionsMinted
    /\ AtHome

(* The names that a request holds when it has minted a token.              *)
LEMMA MintNames ==
    ASSUME TypeOK, Locals, NEW p \in Proc, NEW n \in Token
    PROVE  /\ TtlRefresh(p, n) =>
                /\ req'[p].pc = "rotate" /\ req'[p].op = req[p].op
                /\ req'[p].old = req[p].old /\ req'[p].new = n /\ req'[p].fam = req[p].fam
           /\ \A d \in Device : LoginStart(p, d, n) =>
                /\ req[p].pc = "idle" /\ req'[p].pc = "clean" /\ req'[p].op = "login"
                /\ req'[p].old = NoToken /\ req'[p].new = n /\ req'[p].fam = d
  <1>0. req \in [Proc -> Request] /\ req[p] \in Request
    BY DEF TypeOK
  <1>1. ASSUME TtlRefresh(p, n)
        PROVE  /\ req'[p].pc = "rotate" /\ req'[p].op = req[p].op
               /\ req'[p].old = req[p].old /\ req'[p].new = n /\ req'[p].fam = req[p].fam
    BY <1>0, <1>1 DEF TtlRefresh, Become, Request
  <1>2. ASSUME NEW d \in Device, LoginStart(p, d, n)
        PROVE  /\ req[p].pc = "idle" /\ req'[p].pc = "clean" /\ req'[p].op = "login"
               /\ req'[p].old = NoToken /\ req'[p].new = n /\ req'[p].fam = d
    BY <1>0, <1>2 DEF LoginStart, Become, Idle, At
  <1> QED
    BY <1>1, <1>2

(* Where a request changes the names it holds: four actions give it others *)
(* and an end takes them away.                                             *)
LEMMA NameSteps ==
    ASSUME TypeOK, Locals, NEW p \in Proc, Step(p), Unminted(req[p])
    PROVE  /\ \/ /\ req'[p].old = req[p].old
                 /\ req'[p].new = req[p].new
                 /\ req'[p].fam = req[p].fam
              \/ req'[p].old = NoToken /\ req'[p].new = NoToken
              \/ \E op \in Ops \cap {"refresh", "change"}, t \in Token, d \in Device :
                    PresentToken(p, op, t, d)
              \/ \E d \in Device, n \in Token : LoginStart(p, d, n)
              \/ \E n \in Token : TtlRefresh(p, n)
              \/ RotateGetToken(p)
           /\ Unminted(req'[p])
  <1>0. req \in [Proc -> Request] /\ req[p] \in Request /\ LocalsOK(req[p]) /\ Unminted(req[p])
    BY DEF TypeOK, Locals
  <1>1. CASE \E d \in Device, n \in Token : LoginStart(p, d, n)
    BY <1>1, MintNames DEF Unminted
  <1>2. CASE LoginClean(p)
    BY <1>0, <1>2 DEF LoginClean, Become, Request, Unminted
  <1>3. CASE StoreGetFamily(p)
    BY <1>0, <1>3 DEF StoreGetFamily, Did, Become, Request, Unminted
  <1>4. CASE StoreSetToken(p)
    BY <1>0, <1>4 DEF StoreSetToken, Did, Become, Request, Unminted
  <1>5. CASE StoreSetFamily(p)
    BY <1>0, <1>5 DEF StoreSetFamily, Did, Become, Request, Unminted
  <1>6. CASE \E op \in Ops \cap {"refresh", "change"}, t \in Token, d \in Device :
               PresentToken(p, op, t, d)
    <2> PICK op \in Ops \cap {"refresh", "change"}, t \in Token, d \in Device :
                PresentToken(p, op, t, d)
      BY <1>6
    <2>1. req'[p].new = NoToken /\ req'[p].pc \in {"reject", "verify"}
      BY <1>0 DEF PresentToken, Idle, Become
    <2> QED
      BY <1>6, <2>1 DEF Unminted
  <1>7. CASE VerifyFamily(p)
    BY <1>0, <1>7 DEF VerifyFamily, At, Become, Request, Unminted
  <1>8. CASE NotCurrent(p)
    BY <1>0, <1>8 DEF NotCurrent, Become, Request, Unminted
  <1>9. CASE TtlGone(p)
    BY <1>0, <1>9 DEF TtlGone, Become, Request, Unminted
  <1>10. CASE \E n \in Token : TtlRefresh(p, n)
    BY <1>10, MintNames DEF Unminted
  <1>11. CASE RotateGetToken(p)
    BY <1>0, <1>11 DEF RotateGetToken, Become, Request, Unminted
  <1>12. CASE RotateVerify(p)
    BY <1>0, <1>12 DEF RotateVerify, Become, Request, Unminted
  <1>13. CASE DeleteOld(p)
    BY <1>0, <1>13 DEF DeleteOld, Did, Become, Request, Unminted
  <1>14. CASE RevokeGetFamily(p)
    <2>1. CASE family[req[p].fam] = Absent
      <3>1. Become(p, [req[p] EXCEPT !.pc = "reject"])
        BY <1>14, <2>1 DEF RevokeGetFamily
      <3> QED
        BY <1>0, <3>1 DEF Become, Request, Unminted
    <2>2. CASE family[req[p].fam] # Absent
      <3>1. Become(p, [req[p] EXCEPT !.pc = "revoking", !.keys = family[req[p].fam].tokens,
                                     !.todo = {"deleteKeys", "deleteFamily"}])
        BY <1>14, <2>2 DEF RevokeGetFamily
      <3> QED
        BY <1>0, <3>1 DEF Become, Request, Unminted
    <2> QED
      BY <2>1, <2>2
  <1>15. CASE RevokeDeleteKeys(p)
    BY <1>0, <1>15 DEF RevokeDeleteKeys, Did, Become, Request, Unminted
  <1>16. CASE RevokeDeleteFamily(p)
    BY <1>0, <1>16 DEF RevokeDeleteFamily, Did, Become, Request, Unminted
  <1>17. CASE ChangePassword(p)
    BY <1>0, <1>17 DEF ChangePassword, Wipe, Become, Request, Unminted
  <1>18. CASE VerifyReset(p)
    BY <1>0, <1>18 DEF VerifyReset, Wipe, Idle, Become, Request, Unminted
  <1>19. CASE WipeScanTokens(p)
    BY <1>0, <1>19 DEF WipeScanTokens, Did, Become, Request, Unminted
  <1>20. CASE WipeUnlinkTokens(p)
    BY <1>0, <1>20 DEF WipeUnlinkTokens, Did, Become, Request, Unminted
  <1>21. CASE WipeScanFamilies(p)
    BY <1>0, <1>21 DEF WipeScanFamilies, Did, Become, Request, Unminted
  <1>22. CASE WipeUnlinkFamilies(p)
    BY <1>0, <1>22 DEF WipeUnlinkFamilies, Did, Become, Request, Unminted
  <1>23. CASE Answer(p)
    BY <1>0, <1>23 DEF Answer, Idle, Become, Request, Unminted
  <1> QED
    BY <1>1, <1>2, <1>3, <1>4, <1>5, <1>6, <1>7, <1>8, <1>9, <1>10, <1>11, <1>12, <1>13,
       <1>14, <1>15, <1>16, <1>17, <1>18, <1>19, <1>20, <1>21, <1>22, <1>23
       DEF Step, AnswerToken, Reject, RefusePassword, AnswerWipe

(* All slots keep this.                                                    *)
LEMMA UnmintedStep ==
    ASSUME TypeOK, Locals, [Next]_vars, \A p \in Proc : Unminted(req[p])
    PROVE  \A p \in Proc : Unminted(req'[p])
  <1>1. ASSUME NEW q \in Proc, Step(q), NEW p \in Proc
        PROVE  Unminted(req'[p])
    <2>1. CASE p = q
      BY <1>1, <2>1, NameSteps
    <2>2. CASE p # q
      BY <1>1, <2>2, OthersStay
    <2> QED
      BY <2>1, <2>2
  <1>2. CASE UNCHANGED req
    BY <1>2
  <1>3. CASE Restart
    BY <1>3 DEF Restart, Idle, Unminted
  <1> QED
    BY <1>1, <1>2, <1>3, NoRequestSteps

(* A rotation puts its token into the session of the token it exchanges.   *)
LEMMA SessionRotates ==
    ASSUME TypeOK, Locals, \A q \in Proc : Unminted(req[q]), session \in [Token -> Token],
           HNext, NEW p \in Proc, NEW n \in Token, TtlRefresh(p, n)
    PROVE  session' = [session EXCEPT ![n] = session[req[p].old]]
  <1> DEFINE old == [q \in Proc |-> IF req[q].old = NoToken THEN NoToken ELSE session[req[q].old]]
  <1>1. req \in [Proc -> Request] /\ req[p] \in Request /\ req[p].old \in Token
    BY DEF TypeOK, Locals, LocalsOK, TtlRefresh, At
  <1>2. Rotation(p, n)
    BY <1>1 DEF Rotation, TtlRefresh, At, Unminted, Become
  <1>3. \A q \in Proc, m \in Token : Rotation(q, m) => q = p /\ m = n
    BY <1>1, NullAssumption DEF Rotation, TtlRefresh, Become, Request
  <1>4. (CHOOSE q \in Proc : Rotation(q, n)) = p
    <2>1. \A q \in Proc : Rotation(q, n) => q = p
      BY <1>3
    <2> QED
      BY <1>2, <2>1
  <1>5. session' = [m \in Token |-> IF \E q \in Proc : Rotation(q, m)
                                    THEN old[CHOOSE q \in Proc : Rotation(q, m)] ELSE session[m]]
    BY DEF HNext, Inherit
  <1>6. old[p] = session[req[p].old]
    BY <1>1, NullAssumption
  <1> HIDE DEF old
  <1>7. ASSUME NEW m \in Token
        PROVE  session'[m] = IF m = n THEN session[req[p].old] ELSE session[m]
    <2>1. CASE m = n
      BY <1>2, <1>4, <1>5, <1>6, <2>1
    <2>2. CASE m # n
      BY <1>3, <1>5, <2>2
    <2> QED
      BY <2>1, <2>2
  <1> QED
    BY <1>5, <1>7

(* No other step changes the session of a token.                           *)
LEMMA SessionStays ==
    ASSUME TypeOK, Locals, \A q \in Proc : Unminted(req[q]), session \in [Token -> Token],
           HNext, \A p \in Proc, n \in Token : ~TtlRefresh(p, n)
    PROVE  session' = session
  <1>0. Next /\ req \in [Proc -> Request]
    BY DEF HNext, TypeOK
  <1>1. ASSUME NEW p \in Proc, NEW m \in Token, Rotation(p, m)
        PROVE  FALSE
    <2>1. req[p].new = NoToken /\ req'[p].new = m /\ req[p].op = "refresh"
      BY <1>1 DEF Rotation
    <2>2. ASSUME NEW q \in Proc, Step(q)
          PROVE  FALSE
      <3>1. q = p
        BY <2>1, <2>2, OthersStay, NullAssumption
      <3>2. ~ \E d \in Device, n \in Token : LoginStart(p, d, n)
        BY <2>1 DEF LoginStart, At, Unminted
      <3>3. CASE \E op \in Ops \cap {"refresh", "change"}, t \in Token, d \in Device :
                    PresentToken(p, op, t, d)
        BY <1>0, <2>1, <3>3, NullAssumption DEF PresentToken, Become, Idle
      <3>4. CASE RotateGetToken(p)
        <4>1. req[p].new \in Token
          BY <3>4 DEF RotateGetToken, At, Locals, LocalsOK
        <4> QED
          BY <2>1, <4>1, NullAssumption
      <3> QED
        BY <2>1, <2>2, <3>1, <3>2, <3>3, <3>4, NameSteps, NullAssumption
    <2>3. CASE UNCHANGED req
      BY <2>1, <2>3, NullAssumption
    <2>4. CASE Restart
      BY <2>1, <2>4, NullAssumption DEF Restart, Idle
    <2> QED
      BY <1>0, <2>2, <2>3, <2>4, NoRequestSteps
  <1>2. session' = [m \in Token |-> IF \E q \in Proc : Rotation(q, m)
                                    THEN [q \in Proc |-> IF req[q].old = NoToken THEN NoToken
                                                         ELSE session[req[q].old]]
                                         [CHOOSE q \in Proc : Rotation(q, m)]
                                    ELSE session[m]]
    BY DEF HNext, Inherit
  <1>3. \A m \in Token : session'[m] = session[m]
    BY <1>1, <1>2
  <1> QED
    BY <1>2, <1>3

(* What a step adds to the traces: a mint names the new token, with the    *)
(* family of the login or of the token that is exchanged.                  *)
LEMMA TraceStep ==
    ASSUME HistoryInv, [Next]_vars, NEW t \in Token, NEW f \in Device, Trace(t, f)'
    PROVE  \/ Trace(t, f)
           \/ \E p \in Proc : TtlRefresh(p, t) /\ req[p].fam = f
           \/ \E p \in Proc : LoginStart(p, f, t)
  <1>0. /\ IInv /\ TypeOK /\ Locals
        /\ req \in [Proc -> Request]
        /\ t # NoToken
    BY NullAssumption DEF HistoryInv, SafeInv, IInv, TypeOK
  <1>1. ASSUME NEW p \in Proc, Step(p)
        PROVE  \/ Trace(t, f)
               \/ TtlRefresh(p, t) /\ req[p].fam = f
               \/ LoginStart(p, f, t)
    <2>1. CASE tokenKey'[t] # Absent /\ tokenKey'[t].fam = f
      BY <1>0, <1>1, <2>1, KeyEffect DEF Trace
    <2>2. ASSUME NEW q \in Proc, t \in {req'[q].old, req'[q].new}, req'[q].fam = f, q # p
          PROVE  Trace(t, f)
      BY <1>0, <1>1, <2>2, OthersStay DEF Trace
    <2>3. CASE t \in {req'[p].old, req'[p].new} /\ req'[p].fam = f
      <3>1. CASE \E op \in Ops \cap {"refresh", "change"}, x \in Token, d \in Device :
                    PresentToken(p, op, x, d)
        <4> PICK op \in Ops \cap {"refresh", "change"}, x \in Token, d \in Device :
                    PresentToken(p, op, x, d)
          BY <3>1
        <4>1. CASE tokenKey[x] = Absent
          <5>1. req'[p].fam = NoDevice
            BY <1>0, <4>1 DEF PresentToken, Become, Idle
          <5> QED
            BY <2>3, <5>1, NullAssumption
        <4>2. CASE tokenKey[x] # Absent
          <5>1. req'[p].fam = tokenKey[x].fam /\ req'[p].old = x /\ req'[p].new = NoToken
            BY <1>0, <4>2 DEF PresentToken, Become, Idle
          <5> QED
            BY <1>0, <2>3, <4>2, <5>1 DEF Trace
        <4> QED
          BY <4>1, <4>2
      <3>2. CASE \E d \in Device, n \in Token : LoginStart(p, d, n)
        <4> PICK d \in Device, n \in Token : LoginStart(p, d, n)
          BY <3>2
        <4>1. req'[p].fam = d /\ req'[p].new = n /\ req'[p].old = NoToken
          BY <1>0, MintNames
        <4> QED
          BY <1>0, <2>3, <4>1
      <3>3. CASE \E n \in Token : TtlRefresh(p, n)
        <4> PICK n \in Token : TtlRefresh(p, n)
          BY <3>3
        <4>1. req'[p].fam = req[p].fam /\ req'[p].new = n /\ req'[p].old = req[p].old
          BY <1>0, MintNames
        <4> QED
          BY <1>0, <2>3, <4>1 DEF Trace
      <3>4. CASE RotateGetToken(p)
        <4>1. req[p].old \in Token /\ req[p].fam \in Device
          BY <1>0, <3>4 DEF RotateGetToken, At, Locals, LocalsOK
        <4>2. req'[p].new = req[p].new /\ req'[p].old = req[p].old
          BY <1>0, <3>4 DEF RotateGetToken, Become, Request
        <4>3. req'[p].fam = req[p].fam
          <5>1. CASE tokenKey[req[p].old] = Absent
            BY <1>0, <3>4, <5>1 DEF RotateGetToken, Become, Request
          <5>2. CASE tokenKey[req[p].old] # Absent
            <6>1. req'[p].fam = tokenKey[req[p].old].fam
              BY <1>0, <3>4, <5>2 DEF RotateGetToken, Become, Request
            <6>2. tokenKey[req[p].old].fam \in Device
              BY <1>0, <4>1, <5>2 DEF TypeOK, SessionData
            <6>3. Trace(req[p].old, req[p].fam) /\ Trace(req[p].old, tokenKey[req[p].old].fam)
              BY <4>1, <5>2 DEF Trace
            <6> QED
              BY <4>1, <6>1, <6>2, <6>3 DEF HistoryInv, AtHome
          <5> QED
            BY <5>1, <5>2
        <4> QED
          BY <2>3, <4>2, <4>3 DEF Trace
      <3>5. CASE /\ req'[p].old = req[p].old
                 /\ req'[p].new = req[p].new
                 /\ req'[p].fam = req[p].fam
        BY <2>3, <3>5 DEF Trace
      <3>6. CASE req'[p].old = NoToken /\ req'[p].new = NoToken
        BY <1>0, <2>3, <3>6
      <3> QED
        BY <1>0, <1>1, <3>1, <3>2, <3>3, <3>4, <3>5, <3>6, NameSteps DEF HistoryInv
    <2> QED
      BY <2>1, <2>2, <2>3 DEF Trace
  <1>2. CASE UNCHANGED req /\ tokenKey'[t] \in {tokenKey[t], Absent}
    BY <1>2 DEF Trace
  <1>3. CASE Restart
    BY <1>0, <1>3, NullAssumption DEF Restart, Idle, Trace, store
  <1> QED
    BY <1>1, <1>2, <1>3 DEF Next, Logout, ExpireToken, ExpireFamily, DropKeys, vars

(* A token that was not minted leaves no trace.                            *)
LEMMA NoTrace ==
    ASSUME HistoryInv, NEW n \in Token, n \notin minted, NEW f \in Device
    PROVE  ~Trace(n, f)
  <1>1. tokenKey[n] = Absent
    BY DEF HistoryInv, Placed, Keys
  <1>2. \A p \in Proc : req[p].new # n
    BY NullAssumption DEF HistoryInv, SafeInv, IInv, Ownership
  <1>3. \A p \in Proc : req[p].old # n
    BY NullAssumption DEF HistoryInv, SafeInv, Sound, Presented, IInv, Ownership, Settled
  <1> QED
    BY <1>1, <1>2, <1>3 DEF Trace

(* A login gives the token it mints a home, and no other step does.        *)
LEMMA BegunStep ==
    ASSUME TypeOK, Locals, HNext, NEW t \in Token
    PROVE  /\ \A p \in Proc, d \in Device : LoginStart(p, d, t) => begun'[t] = d
           /\ t \in minted => begun'[t] = begun[t]
  <1>1. begun' = [n \in Token |->
                    IF \E p \in Proc, d \in Device : LoginStart(p, d, n)
                    THEN CHOOSE d \in Device : \E p \in Proc : LoginStart(p, d, n)
                    ELSE begun[n]]
    BY DEF HNext
  <1>2. ASSUME NEW p \in Proc, NEW d \in Device, LoginStart(p, d, t)
        PROVE  begun'[t] = d
    <2>1. ASSUME NEW q \in Proc, NEW e \in Device, LoginStart(q, e, t)
          PROVE  e = d
      <3>1. /\ req'[q].new = t /\ req'[q].fam = e /\ req[q].pc = "idle" /\ req'[q].pc = "clean"
            /\ req'[p].new = t /\ req'[p].fam = d
        BY <1>2, <2>1, MintNames
      <3>2. req'[q] = req[q] \/ q = p
        BY <1>2, OthersStay DEF Step
      <3> QED
        BY <3>1, <3>2
    <2>2. (CHOOSE e \in Device : \E q \in Proc : LoginStart(q, e, t)) = d
      BY <1>2, <2>1
    <2> QED
      BY <1>1, <1>2, <2>2
  <1>3. t \in minted => begun'[t] = begun[t]
    BY <1>1 DEF LoginStart
  <1> QED
    BY <1>2, <1>3

(* Nobody begins a session in the step that mints by rotation, and one     *)
(* request mints at most.                                                  *)
LEMMA OneMint ==
    ASSUME TypeOK, Locals, NEW p \in Proc, NEW n \in Token,
           TtlRefresh(p, n) \/ \E d \in Device : LoginStart(p, d, n),
           NEW q \in Proc, NEW t \in Token,
           TtlRefresh(q, t) \/ \E d \in Device : LoginStart(q, d, t)
    PROVE  q = p /\ t = n
  <1>1. q = p
    <2>1. req'[q].pc # req[q].pc
      BY MintNames DEF TtlRefresh, At
    <2> QED
      BY <2>1, OthersStay DEF Step
  <1>2. req'[p].new = n /\ req'[q].new = t
    BY MintNames
  <1> QED
    BY <1>1, <1>2

(* The home of a token that was minted does not change.                    *)
LEMMA HomeStays ==
    ASSUME HistoryInv, HNext, NEW t \in Token, t \in minted
    PROVE  Home(t)' = Home(t) /\ session'[t] = session[t]
  <1>0. /\ TypeOK /\ Locals /\ \A q \in Proc : Unminted(req[q])
        /\ session \in [Token -> Token]
    BY DEF HistoryInv, SafeInv, IInv, SessionsMinted
  <1>1. session'[t] = session[t]
    <2>1. ASSUME NEW p \in Proc, NEW n \in Token, TtlRefresh(p, n)
          PROVE  session'[t] = session[t]
      BY <1>0, <2>1, SessionRotates DEF TtlRefresh
    <2> QED
      BY <1>0, <2>1, SessionStays
  <1>2. session[t] \in Token /\ session[t] \in minted
    BY <1>0 DEF HistoryInv, SessionsMinted
  <1> QED
    BY <1>0, <1>1, <1>2, BegunStep DEF Home

(* Every trace of a token names its home, whoever takes a step.            *)
LEMMA AtHomeStep ==
    ASSUME HistoryInv, HNext
    PROVE  SessionsMinted' /\ AtHome'
  <1>0. /\ TypeOK /\ Locals /\ \A q \in Proc : Unminted(req[q])
        /\ SessionsMinted /\ AtHome /\ Next
        /\ session \in [Token -> Token]
    BY DEF HistoryInv, SafeInv, IInv, SessionsMinted, HNext
  <1>a. minted \subseteq minted'
    <2>1. \A p \in Proc : Step(p) => minted \subseteq minted'
      BY <1>0, StepKinds DEF Keeps, Drops, Mints, clients
    <2> QED
      BY <1>0, <2>1 DEF Next, Logout, ExpireToken, ExpireFamily, Restart, clients
  <1>b. ASSUME NEW p \in Proc, NEW n \in Token, TtlRefresh(p, n)
        PROVE  /\ session' = [session EXCEPT ![n] = session[req[p].old]]
               /\ req[p].old \in Token /\ req[p].old \in minted
               /\ n \notin minted /\ n \in minted'
    <2>1. req[p].old \in Token
      BY <1>0, <1>b DEF TtlRefresh, At, Locals, LocalsOK
    <2>2. req[p].old \in minted
      BY <2>1, NullAssumption DEF HistoryInv, SafeInv, Sound, Presented, IInv, Ownership, Settled
    <2> QED
      BY <1>0, <1>b, <2>1, <2>2, SessionRotates DEF TtlRefresh
  <1>1. SessionsMinted'
    <2>1. ASSUME NEW p \in Proc, NEW n \in Token, TtlRefresh(p, n)
          PROVE  SessionsMinted'
      BY <1>0, <1>a, <1>b, <2>1 DEF SessionsMinted
    <2>2. CASE session' = session
      BY <1>0, <1>a, <2>2 DEF SessionsMinted
    <2> QED
      BY <1>0, <2>1, <2>2, SessionStays
  <1>2. ASSUME NEW t \in Token, NEW f \in Device, Trace(t, f)'
        PROVE  Home(t)' = f
    <2>1. CASE Trace(t, f)
      <3>1. t \in minted
        BY <2>1, NoTrace
      <3> QED
        BY <1>0, <2>1, <3>1, HomeStays DEF AtHome
    <2>2. ASSUME NEW p \in Proc, TtlRefresh(p, t), req[p].fam = f
          PROVE  Home(t)' = f
      <3>1. Home(req[p].old) = f
        BY <1>0, <1>b, <2>2 DEF AtHome, Trace
      <3>2. session'[t] = session[req[p].old]
        BY <1>0, <1>b, <2>2
      <3>3. session'[req[p].old] = session[req[p].old]
        BY <1>b, <2>2, HomeStays
      <3>4. Home(t)' = Home(req[p].old)
        <4>1. begun'[session'[t]] = begun'[session'[req[p].old]]
          BY <3>2, <3>3
        <4>2. begun'[session'[req[p].old]] = begun[session[req[p].old]]
          <5>1. session[req[p].old] \in Token /\ session[req[p].old] \in minted
            BY <1>0, <1>b, <2>2 DEF SessionsMinted
          <5> QED
            BY <1>0, <3>3, <5>1, BegunStep
        <4> QED
          BY <4>1, <4>2 DEF Home
      <3> QED
        BY <3>1, <3>4
    <2>3. ASSUME NEW p \in Proc, LoginStart(p, f, t)
          PROVE  Home(t)' = f
      <3>1. \A q \in Proc, n \in Token : ~TtlRefresh(q, n)
        <4> SUFFICES ASSUME NEW q \in Proc, NEW n \in Token, TtlRefresh(q, n)
                     PROVE  FALSE
          OBVIOUS
        <4>1. q = p
          BY <1>0, <2>3, OneMint
        <4> QED
          BY <1>0, <2>3, <4>1 DEF LoginStart, TtlRefresh, At
      <3>2. session'[t] = session[t] /\ session[t] = t
        BY <1>0, <2>3, <3>1, SessionStays DEF LoginStart, SessionsMinted
      <3> QED
        BY <1>0, <2>3, <3>2, BegunStep DEF Home
    <2> QED
      BY <1>0, <1>2, <2>1, <2>2, <2>3, TraceStep
  <1> QED
    BY <1>1, <1>2 DEF AtHome

(* HistoryInv holds in the beginning ...                                   *)
LEMMA HistoryInit == HInit => HistoryInv
  <1> SUFFICES ASSUME HInit PROVE HistoryInv
    OBVIOUS
  <1>1. Init /\ session = [t \in Token |-> t]
    BY DEF HInit
  <1>2. SafeInv /\ Placed
    BY <1>1, SafeInit, PlacedInit DEF PlacedInv
  <1>3. \A p \in Proc : Unminted(req[p]) /\ req[p].old = NoToken /\ req[p].new = NoToken
    BY <1>1 DEF Init, Idle, Unminted
  <1>4. \A t \in Token, f \in Device : ~Trace(t, f)
    BY <1>1, <1>3, NullAssumption DEF Init, Trace
  <1> QED
    BY <1>1, <1>2, <1>3, <1>4 DEF HistoryInv, SessionsMinted, AtHome

(* ... and after every step.                                               *)
LEMMA HistoryStep == HistoryInv /\ [HNext]_hvars => HistoryInv'
  <1> SUFFICES ASSUME HistoryInv, [HNext]_hvars PROVE HistoryInv'
    OBVIOUS
  <1>1. [Next]_vars
    BY DEF HNext, hvars
  <1>2. SafeInv'
    BY <1>1, SafeStep DEF HistoryInv
  <1>3. Placed'
    BY <1>1, PlacedStep DEF HistoryInv, SafeInv, PlacedInv
  <1>4. \A p \in Proc : Unminted(req'[p])
    BY <1>1, UnmintedStep DEF HistoryInv, SafeInv, IInv
  <1>5. SessionsMinted' /\ AtHome'
    <2>1. CASE HNext
      BY <2>1, AtHomeStep
    <2>2. CASE UNCHANGED hvars
      BY <2>2 DEF hvars, vars, HistoryInv, SessionsMinted, AtHome, Home, Trace
    <2> QED
      BY <2>1, <2>2
  <1> QED
    BY <1>2, <1>3, <1>4, <1>5 DEF HistoryInv

(* Of the tokens that descend from one login at most one is accepted: they *)
(* name one family, and a family has one current token.                    *)
THEOREM NoFork == HSpec => []SessionNeverForks
  <1>1. HistoryInv => SessionNeverForks
    <2> SUFFICES ASSUME HistoryInv, NEW t \in Token, NEW u \in Token,
                        Valid(t), Valid(u), session[t] = session[u]
                 PROVE  t = u
      BY DEF SessionNeverForks
    <2>1. tokenKey[t].fam \in Device /\ tokenKey[u].fam \in Device
      BY DEF Valid, HistoryInv, SafeInv, IInv, TypeOK, SessionData
    <2>2. Trace(t, tokenKey[t].fam) /\ Trace(u, tokenKey[u].fam)
      BY DEF Valid, Trace
    <2>3. tokenKey[t].fam = tokenKey[u].fam
      BY <2>1, <2>2 DEF HistoryInv, AtHome, Home
    <2> QED
      BY <2>3 DEF Valid, IsCurrent
  <1> QED
    BY <1>1, HistoryInit, HistoryStep, PTL DEF HSpec
-----------------------------------------------------------------------------
(* How far a request reaches.  The devices that keys name are treated as   *)
(* the families are above: whoever has t, or its key, says it is of d.     *)
UsedOn(t, d) ==
    /\ t \in minted
    /\ tokenKey[t] # Absent => tokenKey[t].dev = d
    /\ \A q \in Proc : req[q].new = t => req[q].dev = d

(* The device of a key is the one that whoever has its token goes by.      *)
Known == \A t \in Keys : UsedOn(t, tokenKey[t].dev)

(* What a request is doing follows from its label and the other way round. *)
Doing(r) ==
    /\ r.op = "login" => r.pc \in {"clean", "store"} /\ r.fam = r.dev
    /\ r.pc = "clean" => r.op = "login"
    /\ r.pc = "store" /\ r.op # "login" => r.old \in Token

(* The keys that a login, or a revocation, has collected and will delete:  *)
(* of its device, or of its family, also when they are written again.      *)
Aims(p) ==
    /\ At(p, "clean") => \A t \in req[p].keys : UsedOn(t, req[p].dev)
    /\ At(p, "revoking") => \A t \in req[p].keys : Belongs(t, req[p].fam)

(* The inductive invariant under SessionsApart.                            *)
ReachInv ==
    /\ HistoryInv
    /\ Known
    /\ \A p \in Proc : Doing(req[p]) /\ Aims(p)

(* What a step does to the local variables that these are about.           *)
LEMMA AimSteps ==
    ASSUME TypeOK, Locals, NEW p \in Proc, Step(p), Unminted(req[p]), Doing(req[p])
    PROVE  /\ Doing(req'[p])
           /\ req'[p].new = req[p].new /\ req[p].new \in Token => req'[p].dev = req[p].dev
           /\ req'[p].pc = "clean" => \E d \in Device, n \in Token : LoginStart(p, d, n)
           /\ req'[p].pc = "revoking" =>
                 \/ RevokeGetFamily(p) /\ family[req[p].fam] # Absent
                 \/ /\ At(p, "revoking")
                    /\ req'[p].keys \subseteq req[p].keys
                    /\ req'[p].fam = req[p].fam
  <1>0. /\ req \in [Proc -> Request] /\ req[p] \in Request /\ LocalsOK(req[p])
        /\ Unminted(req[p]) /\ Doing(req[p])
    BY DEF TypeOK, Locals
  <1> DEFINE Goal == /\ Doing(req'[p])
                     /\ req'[p].new = req[p].new /\ req[p].new \in Token => req'[p].dev = req[p].dev
                     /\ req'[p].pc = "clean" => \E d \in Device, n \in Token : LoginStart(p, d, n)
                     /\ req'[p].pc = "revoking" =>
                           \/ RevokeGetFamily(p) /\ family[req[p].fam] # Absent
                           \/ /\ At(p, "revoking")
                              /\ req'[p].keys \subseteq req[p].keys
                              /\ req'[p].fam = req[p].fam
  <1>1. CASE \E d \in Device, n \in Token : LoginStart(p, d, n)
    <2> PICK d \in Device, n \in Token : LoginStart(p, d, n)
      BY <1>1
    <2>1. /\ req'[p].op = "login" /\ req'[p].pc = "clean" /\ req'[p].fam = d /\ req'[p].dev = d
          /\ req[p].new = NoToken
      BY <1>0 DEF LoginStart, Become, Idle, At, Unminted
    <2> QED
      BY <1>1, <2>1, NullAssumption DEF Doing
  <1>2. CASE LoginClean(p)
    BY <1>0, <1>2 DEF LoginClean, At, Become, Request, Doing
  <1>3. CASE StoreGetFamily(p) \/ StoreSetToken(p) \/ StoreSetFamily(p)
    <2>1. req[p].pc = "store"
      BY <1>0, <1>3 DEF StoreGetFamily, StoreSetToken, StoreSetFamily, Pending, LocalsOK
    <2>2. CASE StoreGetFamily(p)
      BY <1>0, <2>1, <2>2 DEF StoreGetFamily, Did, Become, Request, Doing
    <2>3. CASE StoreSetToken(p)
      BY <1>0, <2>1, <2>3 DEF StoreSetToken, Did, Become, Request, Doing
    <2>4. CASE StoreSetFamily(p)
      BY <1>0, <2>1, <2>4 DEF StoreSetFamily, Did, Become, Request, Doing
    <2> QED
      BY <1>3, <2>2, <2>3, <2>4
  <1>6. CASE \E op \in Ops \cap {"refresh", "change"}, t \in Token, d \in Device :
               PresentToken(p, op, t, d)
    <2> PICK op \in Ops \cap {"refresh", "change"}, t \in Token, d \in Device :
                PresentToken(p, op, t, d)
      BY <1>6
    <2>1. req'[p].new = NoToken /\ req'[p].pc \in {"reject", "verify"} /\ req'[p].op # "login"
      BY <1>0 DEF PresentToken, Idle, Become
    <2> QED
      BY <1>0, <2>1, NullAssumption DEF Doing
  <1>7. CASE VerifyFamily(p)
    BY <1>0, <1>7 DEF VerifyFamily, At, Become, Request, Doing
  <1>8. CASE NotCurrent(p)
    BY <1>0, <1>8 DEF NotCurrent, At, Become, Request, Doing
  <1>9. CASE TtlGone(p)
    BY <1>0, <1>9 DEF TtlGone, At, Become, Request, Doing
  <1>10. CASE \E n \in Token : TtlRefresh(p, n)
    BY <1>0, <1>10 DEF TtlRefresh, At, Become, Request, Doing
  <1>11. CASE RotateGetToken(p)
    <2>1. CASE tokenKey[req[p].old] = Absent
      BY <1>0, <1>11, <2>1 DEF RotateGetToken, At, Become, Request, Doing
    <2>2. CASE tokenKey[req[p].old] # Absent
      BY <1>0, <1>11, <2>2 DEF RotateGetToken, At, Become, Request, Doing
    <2> QED
      BY <2>1, <2>2
  <1>12. CASE RotateVerify(p)
    <2>1. req[p].old \in Token
      BY <1>0, <1>12 DEF RotateVerify, At, LocalsOK
    <2> QED
      BY <1>0, <1>12, <2>1 DEF RotateVerify, At, Become, Request, Doing
  <1>13. CASE DeleteOld(p)
    <2>1. req[p].pc \in {"store", "wipe"}
      BY <1>0, <1>13 DEF DeleteOld, Pending, LocalsOK
    <2> QED
      BY <1>0, <1>13, <2>1 DEF DeleteOld, Did, Become, Request, Doing
  <1>14. CASE RevokeGetFamily(p)
    <2>1. CASE family[req[p].fam] = Absent
      <3>1. Become(p, [req[p] EXCEPT !.pc = "reject"]) /\ req[p].pc = "revoke"
        BY <1>14, <2>1 DEF RevokeGetFamily, At
      <3> QED
        BY <1>0, <3>1 DEF Become, Request, Doing
    <2>2. CASE family[req[p].fam] # Absent
      <3>1. /\ Become(p, [req[p] EXCEPT !.pc = "revoking", !.keys = family[req[p].fam].tokens,
                                        !.todo = {"deleteKeys", "deleteFamily"}])
            /\ req[p].pc = "revoke"
        BY <1>14, <2>2 DEF RevokeGetFamily, At
      <3> QED
        BY <1>0, <1>14, <2>2, <3>1 DEF Become, Request, Doing
    <2> QED
      BY <2>1, <2>2
  <1>15. CASE RevokeDeleteKeys(p) \/ RevokeDeleteFamily(p)
    <2>1. req[p].pc = "revoking"
      BY <1>0, <1>15 DEF RevokeDeleteKeys, RevokeDeleteFamily, Pending, LocalsOK
    <2>2. CASE RevokeDeleteKeys(p)
      BY <1>0, <2>1, <2>2 DEF RevokeDeleteKeys, Did, Become, Request, Doing, At
    <2>3. CASE RevokeDeleteFamily(p)
      BY <1>0, <2>1, <2>3 DEF RevokeDeleteFamily, Did, Become, Request, Doing, At
    <2> QED
      BY <1>15, <2>2, <2>3
  <1>17. CASE ChangePassword(p)
    BY <1>0, <1>17 DEF ChangePassword, Wipe, At, Become, Request, Doing
  <1>18. CASE VerifyReset(p)
    <2>1. req'[p].new = NoToken /\ req'[p].pc = "wipe" /\ req'[p].op = "reset"
      BY <1>0, <1>18 DEF VerifyReset, Wipe, Idle, Become
    <2> QED
      BY <1>0, <2>1, NullAssumption DEF Doing
  <1>19. CASE \/ WipeScanTokens(p) \/ WipeUnlinkTokens(p)
              \/ WipeScanFamilies(p) \/ WipeUnlinkFamilies(p)
    <2>1. req[p].pc = "wipe"
      BY <1>0, <1>19 DEF WipeScanTokens, WipeUnlinkTokens, WipeScanFamilies,
                         WipeUnlinkFamilies, Pending, LocalsOK
    <2>2. CASE WipeScanTokens(p)
      BY <1>0, <2>1, <2>2 DEF WipeScanTokens, Did, Become, Request, Doing
    <2>3. CASE WipeUnlinkTokens(p)
      BY <1>0, <2>1, <2>3 DEF WipeUnlinkTokens, Did, Become, Request, Doing
    <2>4. CASE WipeScanFamilies(p)
      BY <1>0, <2>1, <2>4 DEF WipeScanFamilies, Did, Become, Request, Doing
    <2>5. CASE WipeUnlinkFamilies(p)
      BY <1>0, <2>1, <2>5 DEF WipeUnlinkFamilies, Did, Become, Request, Doing
    <2> QED
      BY <1>19, <2>2, <2>3, <2>4, <2>5
  <1>23. CASE Answer(p)
    <2>1. req'[p].new = NoToken /\ req'[p].pc = "idle" /\ req'[p].op = "none"
      BY <1>0, <1>23 DEF Answer, Idle, Become
    <2> QED
      BY <1>0, <2>1, NullAssumption DEF Doing
  <1> QED
    BY <1>1, <1>2, <1>3, <1>6, <1>7, <1>8, <1>9, <1>10, <1>11, <1>12, <1>13,
       <1>14, <1>15, <1>17, <1>18, <1>19, <1>23
       DEF Step, AnswerToken, Reject, RefusePassword, AnswerWipe

(* A token stays with its device, whoever takes a step.                    *)
LEMMA UsedOnStep ==
    ASSUME ReachInv, [Next]_vars, NEW t \in Token, NEW d, UsedOn(t, d)
    PROVE  UsedOn(t, d)'
  <1>0. IInv /\ TypeOK /\ Locals /\ \A p \in Proc : Unminted(req[p]) /\ Doing(req[p])
    BY DEF ReachInv, HistoryInv, SafeInv, IInv
  <1>1. CASE UNCHANGED req /\ minted' = minted /\ tokenKey'[t] \in {tokenKey[t], Absent}
    BY <1>1 DEF UsedOn
  <1>2. ASSUME NEW p \in Proc, Step(p)
        PROVE  UsedOn(t, d)'
    <2>1. minted \subseteq minted'
      BY <1>0, <1>2, StepKinds DEF Keeps, Drops, Mints, clients
    <2>2. tokenKey'[t] # Absent => tokenKey'[t].dev = d
      BY <1>0, <1>2, KeyEffect DEF UsedOn
    <2>3. ASSUME req'[p].new = t
          PROVE  req'[p].dev = d
      <3>1. req[p].new = t
        BY <1>0, <1>2, <2>3, StepKinds, NullAssumption DEF Keeps, Drops, Mints, UsedOn
      <3> QED
        BY <1>0, <1>2, <2>3, <3>1, AimSteps DEF UsedOn
    <2>4. \A q \in Proc : q # p => req'[q] = req[q]
      BY <1>0, <1>2, OthersStay
    <2> QED
      BY <2>1, <2>2, <2>3, <2>4 DEF UsedOn
  <1>3. CASE Restart
    BY <1>3, NullAssumption DEF Restart, UsedOn, Idle, store, clients
  <1> QED
    BY <1>1, <1>2, <1>3 DEF Next, Logout, ExpireToken, ExpireFamily, DropKeys, vars, clients

(* A key that is written is of the device of its writer.                   *)
LEMMA KnownStep ==
    ASSUME ReachInv, [Next]_vars
    PROVE  Known'
  <1>0. /\ IInv /\ TypeOK /\ Locals /\ Ownership /\ Known
        /\ \A p \in Proc : Unminted(req[p]) /\ Doing(req[p])
    BY DEF ReachInv, HistoryInv, SafeInv, IInv
  <1> SUFFICES ASSUME NEW t \in Token, tokenKey'[t] # Absent
               PROVE  UsedOn(t, tokenKey[t].dev)'
    BY DEF Known, Keys
  <1>1. CASE tokenKey'[t] = tokenKey[t]
    <2>1. UsedOn(t, tokenKey[t].dev)
      BY <1>0, <1>1 DEF Known, Keys
    <2> PICK d : d = tokenKey[t].dev
      OBVIOUS
    <2>2. UsedOn(t, d)'
      BY <2>1, UsedOnStep
    <2> QED
      BY <1>1, <2>2 DEF UsedOn
  <1>2. ASSUME NEW p \in Proc, Step(p), tokenKey'[t] # tokenKey[t]
        PROVE  UsedOn(t, tokenKey[t].dev)'
    <2>1. req[p].new = t /\ tokenKey'[t].dev = req[p].dev /\ minted' = minted
      BY <1>0, <1>2, KeyEffect
    <2>2. t \in minted /\ t # NoToken
      BY <1>0, <2>1, NullAssumption DEF Ownership
    <2>3. ASSUME NEW q \in Proc, req'[q].new = t
          PROVE  req'[q].dev = req[p].dev
      <3>1. q = p
        BY <1>0, <1>2, <2>1, <2>2, <2>3, OthersStay DEF Ownership
      <3> QED
        BY <1>0, <1>2, <2>1, <2>3, <3>1, AimSteps
    <2> QED
      BY <2>1, <2>2, <2>3 DEF UsedOn
  <1>3. ASSUME ~ \E p \in Proc : Step(p)
        PROVE  tokenKey'[t] = tokenKey[t]
    BY <1>3 DEF Next, Logout, ExpireToken, ExpireFamily, Restart, DropKeys, vars, store
  <1> QED
    BY <1>1, <1>2, <1>3

(* The keys that a request has collected stay those it may delete.         *)
LEMMA AimsStep ==
    ASSUME ReachInv, [Next]_vars, NEW p \in Proc
    PROVE  Doing(req'[p]) /\ Aims(p)'
  <1>0. /\ IInv /\ TypeOK /\ Locals /\ Known /\ Placed
        /\ \A q \in Proc : Unminted(req[q]) /\ Doing(req[q]) /\ Aims(q)
        /\ req \in [Proc -> Request] /\ req[p] \in Request
    BY DEF ReachInv, HistoryInv, SafeInv, IInv, TypeOK
  <1>1. ASSUME req'[p] = req[p]
        PROVE  Doing(req'[p]) /\ Aims(p)'
    <2>1. req[p].keys \subseteq Token
      BY <1>0 DEF Request
    <2>2. At(p, "clean") => \A t \in req[p].keys : UsedOn(t, req[p].dev)'
      <3> PICK d : d = req[p].dev
        OBVIOUS
      <3>1. At(p, "clean") => \A t \in req[p].keys : UsedOn(t, d)'
        BY <1>0, <2>1, UsedOnStep DEF Aims
      <3> QED
        BY <1>1, <3>1 DEF UsedOn
    <2>3. At(p, "revoking") => \A t \in req[p].keys : Belongs(t, req[p].fam)'
      <3> PICK f : f = req[p].fam
        OBVIOUS
      <3>1. At(p, "revoking") => f \in Device
        BY <1>0 DEF Locals, LocalsOK, At
      <3>2. At(p, "revoking") => \A t \in req[p].keys : Belongs(t, f)'
        BY <1>0, <2>1, <3>1, BelongsStep DEF Aims
      <3> QED
        BY <1>1, <3>2 DEF Belongs
    <2> QED
      BY <1>0, <1>1, <2>2, <2>3 DEF Aims, At
  <1>2. ASSUME Step(p)
        PROVE  Doing(req'[p]) /\ Aims(p)'
    <2>1. Doing(req'[p])
      BY <1>0, <1>2, AimSteps
    <2>2. ASSUME req'[p].pc = "clean", NEW t \in req'[p].keys
          PROVE  UsedOn(t, req[p].dev)'
      <3> PICK d \in Device, n \in Token : LoginStart(p, d, n)
        BY <1>0, <1>2, <2>2, AimSteps
      <3>1. req'[p].keys = KeysOf(d) /\ req'[p].dev = d
        BY <1>0 DEF LoginStart, Become, Idle
      <3>2. t \in Token /\ UsedOn(t, d)
        BY <1>0, <2>2, <3>1 DEF KeysOf, Keys, Known
      <3>3. UsedOn(t, d)'
        BY <3>2, UsedOnStep
      <3> QED
        BY <3>1, <3>3 DEF UsedOn
    <2>3. ASSUME req'[p].pc = "revoking", NEW t \in req'[p].keys
          PROVE  Belongs(t, req[p].fam)'
      <3>1. CASE RevokeGetFamily(p) /\ family[req[p].fam] # Absent
        <4> PICK f : f = req[p].fam
          OBVIOUS
        <4>1. Become(p, [req[p] EXCEPT !.pc = "revoking", !.keys = family[f].tokens,
                                       !.todo = {"deleteKeys", "deleteFamily"}])
          BY <3>1 DEF RevokeGetFamily
        <4>2. req'[p].keys = family[f].tokens /\ req'[p].fam = f
          BY <1>0, <4>1 DEF Become, Request
        <4>3. f \in Device
          BY <1>0, <3>1 DEF RevokeGetFamily, At, Locals, LocalsOK
        <4>4. t \in Token /\ Belongs(t, f)
          BY <1>0, <2>3, <3>1, <4>2, <4>3 DEF Placed, Families, Holds, TypeOK, FamilyData
        <4>5. Belongs(t, f)'
          BY <1>0, <4>3, <4>4, BelongsStep
        <4> QED
          BY <4>2, <4>5 DEF Belongs
      <3>2. CASE /\ At(p, "revoking")
                 /\ req'[p].keys \subseteq req[p].keys
                 /\ req'[p].fam = req[p].fam
        <4> PICK f : f = req[p].fam
          OBVIOUS
        <4>1. f \in Device /\ t \in Token /\ Belongs(t, f)
          BY <1>0, <2>3, <3>2 DEF Aims, At, Locals, LocalsOK, Request
        <4>2. Belongs(t, f)'
          BY <1>0, <4>1, BelongsStep
        <4> QED
          BY <3>2, <4>2 DEF Belongs
      <3> QED
        BY <1>0, <1>2, <2>3, <3>1, <3>2, AimSteps
    <2> QED
      BY <2>1, <2>2, <2>3 DEF Aims, At
  <1>3. ASSUME NEW q \in Proc, Step(q), q # p
        PROVE  req'[p] = req[p]
    BY <1>0, <1>3, OthersStay
  <1>4. CASE Restart
    BY <1>0, <1>4, NullAssumption DEF Restart, Idle, Doing, Aims, At
  <1> QED
    BY <1>1, <1>2, <1>3, <1>4, NoRequestSteps

(* Only these steps of requests change a token's key ...                   *)
LEMMA KeyWriters ==
    ASSUME TypeOK, NEW p \in Proc, Step(p), NEW t \in Token, tokenKey'[t] # tokenKey[t]
    PROVE  \/ LoginClean(p) \/ StoreSetToken(p) \/ DeleteOld(p)
           \/ RevokeDeleteKeys(p) \/ WipeUnlinkTokens(p)
  BY DEF Step, store, LoginStart, StoreGetFamily, StoreSetFamily, AnswerToken, Answer,
         PresentToken, VerifyFamily, NotCurrent, TtlGone, TtlRefresh, RotateGetToken,
         RotateVerify, Reject, RevokeGetFamily, RevokeDeleteFamily, ChangePassword, Wipe,
         RefusePassword, VerifyReset, WipeScanTokens, WipeScanFamilies,
         WipeUnlinkFamilies, AnswerWipe

(* ... and these a family's.                                               *)
LEMMA FamilyWriters ==
    ASSUME TypeOK, NEW p \in Proc, Step(p), NEW f \in Device, family'[f] # family[f]
    PROVE  StoreSetFamily(p) \/ RevokeDeleteFamily(p) \/ WipeUnlinkFamilies(p)
  BY DEF Step, store, LoginStart, LoginClean, StoreGetFamily, StoreSetToken, AnswerToken,
         Answer, PresentToken, VerifyFamily, NotCurrent, TtlGone, TtlRefresh, RotateGetToken,
         RotateVerify, DeleteOld, Reject, RevokeGetFamily, RevokeDeleteKeys, ChangePassword,
         Wipe, RefusePassword, VerifyReset, WipeScanTokens, WipeUnlinkTokens,
         WipeScanFamilies, AnswerWipe
-----------------------------------------------------------------------------
(* ReachInv holds in the beginning ...                                     *)
LEMMA ReachInit == HInit => ReachInv
  <1> SUFFICES ASSUME HInit PROVE ReachInv
    OBVIOUS
  <1>1. Init
    BY DEF HInit
  <1>2. HistoryInv
    BY HistoryInit
  <1> QED
    BY <1>1, <1>2 DEF ReachInv, Known, Keys, Doing, Aims, At, Init, Idle

(* ... and after every step.                                               *)
LEMMA ReachStep == ReachInv /\ [HNext]_hvars => ReachInv'
  <1> SUFFICES ASSUME ReachInv, [HNext]_hvars PROVE ReachInv'
    OBVIOUS
  <1>1. [Next]_vars
    BY DEF HNext, hvars
  <1>2. HistoryInv'
    BY HistoryStep DEF ReachInv
  <1>3. Known'
    BY <1>1, KnownStep
  <1>4. \A p \in Proc : Doing(req[p])' /\ Aims(p)'
    BY <1>1, AimsStep
  <1> QED
    BY <1>2, <1>3, <1>4 DEF ReachInv

(* A request that stores or revokes works on the home of its old token, or *)
(* of its own device: it concerns the tokens of its family.                *)
LEMMA OwnFamily ==
    ASSUME ReachInv, NEW p \in Proc, At(p, "store") \/ At(p, "revoking"), NEW d
    PROVE  Concerns(p, d, req[p].fam)
  <1>1. /\ LocalsOK(req[p]) /\ Doing(req[p]) /\ AtHome
    BY DEF ReachInv, HistoryInv, SafeInv, IInv, Locals
  <1>2. req[p].op = "login" => req[p].fam = req[p].dev
    BY <1>1 DEF Doing
  <1>3. req[p].op # "login" => req[p].old \in Token /\ req[p].fam \in Device
    BY <1>1 DEF Doing, LocalsOK, At
  <1>4. req[p].op # "login" => Home(req[p].old) = req[p].fam
    BY <1>1, <1>3 DEF AtHome, Trace
  <1> QED
    BY <1>2, <1>4 DEF Concerns

(* A key is deleted, or written again, by a request that its token         *)
(* concerns.                                                               *)
LEMMA TokenReach ==
    ASSUME ReachInv, NEW p \in Proc, Step(p),
           NEW t \in Token, tokenKey[t] # Absent, tokenKey'[t] # tokenKey[t]
    PROVE  req'[p] # req[p] /\ Concerns(p, tokenKey[t].dev, Home(t))
  <1>0. /\ TypeOK /\ req \in [Proc -> Request] /\ req[p] \in Request /\ LocalsOK(req[p])
        /\ Doing(req[p]) /\ Aims(p) /\ AtHome /\ Known
        /\ tokenKey \in [Token -> SessionData \cup {Absent}]
        /\ tokenKey[t].fam \in Device
    BY DEF ReachInv, HistoryInv, SafeInv, IInv, TypeOK, Locals, SessionData
  <1>1. Home(t) = tokenKey[t].fam
    BY <1>0 DEF AtHome, Trace
  <1>2. CASE LoginClean(p)
    <2>1. t \in req[p].keys \/ t \in KeysOf(req[p].dev)
      BY <1>2 DEF LoginClean, DropKeys
    <2>2. At(p, "clean") /\ tokenKey[t].dev = req[p].dev
      BY <1>0, <1>2, <2>1 DEF LoginClean, Aims, UsedOn, KeysOf
    <2>3. req'[p].pc = "store"
      BY <1>0, <1>2 DEF LoginClean, Become, Request
    <2> QED
      BY <2>2, <2>3 DEF Concerns, At
  <1>3. CASE StoreSetToken(p)
    <2>1. At(p, "store") /\ t = req[p].new
      BY <1>0, <1>3 DEF StoreSetToken, Pending, LocalsOK, At
    <2>2. Home(t) = req[p].fam
      BY <1>0, <2>1 DEF AtHome, Trace, LocalsOK, At
    <2>3. "setToken" \in req[p].todo /\ "setToken" \notin req'[p].todo
      BY <1>0, <1>3 DEF StoreSetToken, Pending, Become, Did, Request
    <2> QED
      BY <2>1, <2>2, <2>3, OwnFamily
  <1>4. CASE DeleteOld(p)
    <2>1. (At(p, "store") \/ At(p, "wipe")) /\ t = req[p].old
      BY <1>0, <1>4 DEF DeleteOld, DropKeys, Pending, LocalsOK, At
    <2>2. At(p, "store") => Home(t) = req[p].fam
      BY <1>0, <2>1 DEF AtHome, Trace, LocalsOK, At
    <2>3. "deleteOld" \in req[p].todo /\ "deleteOld" \notin req'[p].todo
      BY <1>0, <1>4 DEF DeleteOld, Pending, Become, Did, Request
    <2>4. At(p, "wipe") => Concerns(p, tokenKey[t].dev, Home(t))
      BY DEF Concerns
    <2> QED
      BY <2>1, <2>2, <2>3, <2>4, OwnFamily
  <1>5. CASE RevokeDeleteKeys(p)
    <2>1. At(p, "revoking") /\ t \in req[p].keys
      BY <1>0, <1>5 DEF RevokeDeleteKeys, DropKeys, Pending, LocalsOK, At
    <2>2. Home(t) = req[p].fam
      BY <1>0, <1>1, <2>1 DEF Aims, Belongs
    <2>3. "deleteKeys" \in req[p].todo /\ "deleteKeys" \notin req'[p].todo
      BY <1>0, <1>5 DEF RevokeDeleteKeys, Pending, Become, Did, Request
    <2> QED
      BY <2>1, <2>2, <2>3, OwnFamily
  <1>6. CASE WipeUnlinkTokens(p)
    <2>1. At(p, "wipe")
      BY <1>0, <1>6 DEF WipeUnlinkTokens, Pending, LocalsOK, At
    <2>2. "unlinkTokens" \in req[p].todo /\ "unlinkTokens" \notin req'[p].todo
      BY <1>0, <1>6 DEF WipeUnlinkTokens, Pending, Become, Did, Request
    <2> QED
      BY <2>1, <2>2 DEF Concerns
  <1> QED
    BY <1>0, <1>2, <1>3, <1>4, <1>5, <1>6, KeyWriters

(* A family is deleted, or written again, by a request that its tokens     *)
(* concern, from whichever device they are used.                           *)
LEMMA FamilyReach ==
    ASSUME ReachInv, NEW p \in Proc, Step(p),
           NEW f \in Device, family'[f] # family[f], NEW d
    PROVE  req'[p] # req[p] /\ Concerns(p, d, f)
  <1>0. /\ TypeOK /\ req \in [Proc -> Request] /\ req[p] \in Request /\ LocalsOK(req[p])
        /\ family \in [Device -> FamilyData \cup {Absent}]
    BY DEF ReachInv, HistoryInv, SafeInv, IInv, TypeOK, Locals
  <1>1. CASE StoreSetFamily(p)
    <2>1. At(p, "store") /\ f = req[p].fam
      BY <1>0, <1>1 DEF StoreSetFamily, Pending, LocalsOK, At
    <2>2. "setFamily" \in req[p].todo /\ "setFamily" \notin req'[p].todo
      BY <1>0, <1>1 DEF StoreSetFamily, Pending, Become, Did, Request
    <2> QED
      BY <2>1, <2>2, OwnFamily
  <1>2. CASE RevokeDeleteFamily(p)
    <2>1. At(p, "revoking") /\ f = req[p].fam
      BY <1>0, <1>2 DEF RevokeDeleteFamily, DropFamilies, Pending, LocalsOK, At
    <2>2. "deleteFamily" \in req[p].todo /\ "deleteFamily" \notin req'[p].todo
      BY <1>0, <1>2 DEF RevokeDeleteFamily, Pending, Become, Did, Request
    <2> QED
      BY <2>1, <2>2, OwnFamily
  <1>3. CASE WipeUnlinkFamilies(p)
    <2>1. At(p, "wipe")
      BY <1>0, <1>3 DEF WipeUnlinkFamilies, Pending, LocalsOK, At
    <2>2. "unlinkFamilies" \in req[p].todo /\ "unlinkFamilies" \notin req'[p].todo
      BY <1>0, <1>3 DEF WipeUnlinkFamilies, Pending, Become, Did, Request
    <2> QED
      BY <2>1, <2>2 DEF Concerns
  <1> QED
    BY <1>0, <1>1, <1>2, <1>3, FamilyWriters

(* An accepted token is ended by what concerns it and by nothing else.     *)
THEOREM Apart == HSpec => SessionsApart
  <1> DEFINE Reached(t) ==
        \/ Logout(t) \/ ExpireToken(t) \/ ExpireFamily(Home(t))
        \/ \E p \in Proc : req'[p] # req[p] /\ Concerns(p, tokenKey[t].dev, Home(t))
      Kept == \A t \in Token : Valid(t) /\ ~Valid(t)' => Reached(t)
  <1>1. ReachInv /\ [HNext]_hvars => [Kept]_hvars
    <2> SUFFICES ASSUME ReachInv, HNext, NEW t \in Token, Valid(t), ~Valid(t)'
                 PROVE  Reached(t)
      OBVIOUS
    <2> USE DEF Reached
    <2>0. /\ tokenKey[t] # Absent /\ tokenKey[t].fam \in Device
          /\ Home(t) = tokenKey[t].fam /\ Next
      BY DEF Valid, ReachInv, HistoryInv, SafeInv, IInv, TypeOK, SessionData, AtHome, Trace, HNext
    <2>1. tokenKey'[t] # tokenKey[t] \/ family'[Home(t)] # family[Home(t)]
      BY <2>0 DEF Valid, IsCurrent
    <2>2. ASSUME NEW p \in Proc, Step(p)
          PROVE  Reached(t)
      BY <2>0, <2>1, <2>2, TokenReach, FamilyReach
    <2>3. ASSUME NEW u \in Token, Logout(u) \/ ExpireToken(u)
          PROVE  Reached(t)
      <3>1. u = t
        BY <2>1, <2>3 DEF Logout, ExpireToken, DropKeys
      <3> QED
        BY <2>3, <3>1
    <2>4. ASSUME NEW f \in Device, ExpireFamily(f)
          PROVE  Reached(t)
      <3>1. f = Home(t)
        BY <2>0, <2>1, <2>4 DEF ExpireFamily, DropFamilies
      <3> QED
        BY <2>4, <3>1
    <2>5. ~Restart
      BY <2>1 DEF Restart, store
    <2> QED
      BY <2>0, <2>2, <2>3, <2>4, <2>5 DEF Next
  <1> QED
    BY <1>1, ReachInit, ReachStep, PTL DEF HSpec, SessionsApart
-----------------------------------------------------------------------------
(* A store that nothing crosses works: what it has written is there.       *)
Stored(p) ==
    At(p, "store") /\ p \notin crossed /\ ~Pending(p, "getFamily") =>
        /\ ~Pending(p, "setToken") => tokenKey[req[p].new] # Absent
        /\ ~Pending(p, "setFamily") => IsCurrent(req[p].new, req[p].fam)

(* The inductive invariant under AnsweredTokenAccepted.                    *)
WorkInv == ReachInv /\ \A p \in Proc : Stored(p)

(* A request begins to store, goes on with it, or is no longer storing.    *)
LEMMA StoreSteps ==
    ASSUME TypeOK, Locals, NEW p \in Proc, Step(p), req'[p].pc = "store"
    PROVE  \/ ~At(p, "store") /\ "getFamily" \in req'[p].todo
           \/ At(p, "store") /\ \/ StoreGetFamily(p) \/ StoreSetToken(p)
                                \/ StoreSetFamily(p) \/ DeleteOld(p)
  <1>0. /\ req \in [Proc -> Request] /\ req[p] \in Request /\ LocalsOK(req[p])
    BY DEF TypeOK, Locals
  <1>1. CASE LoginClean(p)
    BY <1>0, <1>1 DEF LoginClean, At, Become, Request
  <1>2. CASE RotateVerify(p)
    BY <1>0, <1>2 DEF RotateVerify, At, Become, Request
  <1>3. ASSUME StoreGetFamily(p) \/ StoreSetToken(p) \/ StoreSetFamily(p) \/ DeleteOld(p)
        PROVE  At(p, "store")
    <2>1. CASE StoreGetFamily(p)
      BY <1>0, <2>1 DEF StoreGetFamily, Did, Become, Request, At
    <2>2. CASE StoreSetToken(p)
      BY <1>0, <2>2 DEF StoreSetToken, Did, Become, Request, At
    <2>3. CASE StoreSetFamily(p)
      BY <1>0, <2>3 DEF StoreSetFamily, Did, Become, Request, At
    <2>4. CASE DeleteOld(p)
      BY <1>0, <2>4 DEF DeleteOld, Did, Become, Request, At
    <2> QED
      BY <1>3, <2>1, <2>2, <2>3, <2>4
  <1>4. ~Answer(p)
    BY <1>0 DEF Answer, Become, Idle
  <1>5. ~ \E d \in Device, n \in Token : LoginStart(p, d, n)
    BY <1>0 DEF LoginStart, Become, Idle
  <1>6. ~ \E op \in Ops \cap {"refresh", "change"}, t \in Token, d \in Device :
             PresentToken(p, op, t, d)
    BY <1>0 DEF PresentToken, Become, Idle
  <1>7. ~VerifyFamily(p)
    BY <1>0 DEF VerifyFamily, Become, Request
  <1>8. ~NotCurrent(p)
    BY <1>0 DEF NotCurrent, Become, Request
  <1>9. ~TtlGone(p)
    BY <1>0 DEF TtlGone, Become, Request
  <1>10. ~ \E n \in Token : TtlRefresh(p, n)
    BY <1>0 DEF TtlRefresh, Become, Request
  <1>11. ~RotateGetToken(p)
    BY <1>0 DEF RotateGetToken, Become, Request
  <1>12. ~RevokeGetFamily(p)
    <2>1. family[req[p].fam] # Absent => ~RevokeGetFamily(p)
      BY <1>0 DEF RevokeGetFamily, Become, Request
    <2>2. family[req[p].fam] = Absent => ~RevokeGetFamily(p)
      BY <1>0 DEF RevokeGetFamily, Become, Request
    <2> QED
      BY <2>1, <2>2
  <1>13. ~RevokeDeleteKeys(p)
    BY <1>0 DEF RevokeDeleteKeys, Did, Become, Request, Pending, LocalsOK
  <1>14. ~RevokeDeleteFamily(p)
    BY <1>0 DEF RevokeDeleteFamily, Did, Become, Request, Pending, LocalsOK
  <1>15. ~ChangePassword(p)
    BY <1>0 DEF ChangePassword, Wipe, Become, Request
  <1>16. ~VerifyReset(p)
    BY <1>0 DEF VerifyReset, Wipe, Become, Idle
  <1>17. ~WipeScanTokens(p)
    <2> SUFFICES ASSUME WipeScanTokens(p) PROVE FALSE
      OBVIOUS
    <2> DEFINE q == [Did(p, "scanTokens") EXCEPT !.keys = Keys, !.todo = @ \cup {"unlinkTokens"}]
    <2>1. req' = [req EXCEPT ![p] = q]
      BY DEF WipeScanTokens, Become
    <2>2. q.pc = req[p].pc
      BY <1>0 DEF Did, Request
    <2>3. req[p].pc = "wipe"
      BY <1>0 DEF WipeScanTokens, Pending, LocalsOK
    <2> HIDE DEF q
    <2>4. req'[p] = q
      BY <1>0, <2>1 DEF Request
    <2> QED
      BY <1>0, <2>2, <2>3, <2>4
  <1>18. ~WipeUnlinkTokens(p)
    <2> SUFFICES ASSUME WipeUnlinkTokens(p) PROVE FALSE
      OBVIOUS
    <2>1. req' = [req EXCEPT ![p] = [Did(p, "unlinkTokens") EXCEPT !.keys = {}]]
      BY DEF WipeUnlinkTokens, Become
    <2>2. req'[p].pc = req[p].pc
      BY <1>0, <2>1 DEF Did, Request
    <2>3. req[p].pc = "wipe"
      BY <1>0 DEF WipeUnlinkTokens, Pending, LocalsOK
    <2> QED
      BY <1>0, <2>2, <2>3
  <1>19. ~WipeScanFamilies(p)
    <2> SUFFICES ASSUME WipeScanFamilies(p) PROVE FALSE
      OBVIOUS
    <2> DEFINE q == [Did(p, "scanFamilies") EXCEPT !.fams = Families, !.todo = @ \cup {"unlinkFamilies"}]
    <2>1. req' = [req EXCEPT ![p] = q]
      BY DEF WipeScanFamilies, Become
    <2>2. q.pc = req[p].pc
      BY <1>0 DEF Did, Request
    <2>3. req[p].pc = "wipe"
      BY <1>0 DEF WipeScanFamilies, Pending, LocalsOK
    <2> HIDE DEF q
    <2>4. req'[p] = q
      BY <1>0, <2>1 DEF Request
    <2> QED
      BY <1>0, <2>2, <2>3, <2>4
  <1>20. ~WipeUnlinkFamilies(p)
    <2> SUFFICES ASSUME WipeUnlinkFamilies(p) PROVE FALSE
      OBVIOUS
    <2>1. req' = [req EXCEPT ![p] = [Did(p, "unlinkFamilies") EXCEPT !.fams = {}]]
      BY DEF WipeUnlinkFamilies, Become
    <2>2. req'[p].pc = req[p].pc
      BY <1>0, <2>1 DEF Did, Request
    <2>3. req[p].pc = "wipe"
      BY <1>0 DEF WipeUnlinkFamilies, Pending, LocalsOK
    <2> QED
      BY <1>0, <2>2, <2>3
  <1> QED
    BY <1>1, <1>2, <1>3, <1>4, <1>5, <1>6, <1>7, <1>8, <1>9, <1>10, <1>11, <1>12,
       <1>13, <1>14, <1>15, <1>16, <1>17, <1>18, <1>19, <1>20
       DEF Step, AnswerToken, Reject, RefusePassword, AnswerWipe

(* What a request writes while it stores, and what it leaves.              *)
LEMMA OwnStore ==
    ASSUME ReachInv, NEW p \in Proc, At(p, "store"), Stored(p), p \notin crossed,
           \/ StoreGetFamily(p) \/ StoreSetToken(p) \/ StoreSetFamily(p) \/ DeleteOld(p),
           "getFamily" \notin req'[p].todo
    PROVE  /\ "setToken" \notin req'[p].todo => tokenKey'[req[p].new] # Absent
           /\ "setFamily" \notin req'[p].todo => IsCurrent(req[p].new, req[p].fam)'
           /\ req'[p].new = req[p].new /\ req'[p].fam = req[p].fam
  <1>0. /\ TypeOK /\ req \in [Proc -> Request] /\ req[p] \in Request
        /\ req[p].new \in Token /\ req[p].fam \in Device
        /\ tokenKey \in [Token -> SessionData \cup {Absent}]
        /\ family \in [Device -> FamilyData \cup {Absent}]
    BY DEF ReachInv, HistoryInv, SafeInv, IInv, TypeOK, Locals, LocalsOK, At
  <1>1. CASE StoreGetFamily(p)
    <2>1. /\ req'[p].todo = (req[p].todo \ {"getFamily"}) \cup {"setToken", "setFamily"}
          /\ req'[p].new = req[p].new /\ req'[p].fam = req[p].fam
      BY <1>0, <1>1 DEF StoreGetFamily, Become, Did, Request
    <2> QED
      BY <2>1
  <1>2. CASE StoreSetToken(p)
    <2>1. /\ req'[p].todo = req[p].todo \ {"setToken"}
          /\ req'[p].new = req[p].new /\ req'[p].fam = req[p].fam
      BY <1>0, <1>2 DEF StoreSetToken, Become, Did, Request
    <2>2. tokenKey'[req[p].new] # Absent
      BY <1>0, <1>2, NullAssumption DEF StoreSetToken, ReachInv, HistoryInv, SafeInv, IInv,
                                        Locals, LocalsOK, At, SessionData
    <2>3. family' = family
      BY <1>2 DEF StoreSetToken
    <2> QED
      BY <2>1, <2>2, <2>3 DEF Stored, Pending, IsCurrent
  <1>3. CASE StoreSetFamily(p)
    <2>1. /\ req'[p].todo = req[p].todo \ {"setFamily"}
          /\ req'[p].new = req[p].new /\ req'[p].fam = req[p].fam
      BY <1>0, <1>3 DEF StoreSetFamily, Become, Did, Request
    <2>2. /\ family'[req[p].fam] = [tokens |-> req[p].chain, current |-> req[p].new]
          /\ tokenKey' = tokenKey
      BY <1>0, <1>3 DEF StoreSetFamily
    <2>3. family'[req[p].fam] \in FamilyData
      BY <1>0, <2>2 DEF FamilyData, Request
    <2> QED
      BY <2>1, <2>2, <2>3, NullAssumption DEF Stored, Pending, IsCurrent
  <1>4. CASE DeleteOld(p)
    <2>1. /\ req'[p].todo = req[p].todo \ {"deleteOld"}
          /\ req'[p].new = req[p].new /\ req'[p].fam = req[p].fam
      BY <1>0, <1>4 DEF DeleteOld, Become, Did, Request
    <2>2. req[p].new # req[p].old
      BY <1>0, NullAssumption DEF ReachInv, HistoryInv, SafeInv, Sound, Presented, IInv,
                                  Ownership, Settled
    <2>3. family' = family /\ tokenKey'[req[p].new] = tokenKey[req[p].new]
      BY <1>0, <1>4, <2>2 DEF DeleteOld, DropKeys
    <2> QED
      BY <2>1, <2>3 DEF Stored, Pending, IsCurrent
  <1> QED
    BY <1>1, <1>2, <1>3, <1>4

(* Whoever takes a step that does not cross the store leaves its keys.     *)
LEMMA StoreKept ==
    ASSUME ReachInv, Next, NEW p \in Proc, At(p, "store"), ~Crosses(p), ~Step(p)
    PROVE  /\ tokenKey[req[p].new] # Absent => tokenKey'[req[p].new] # Absent
           /\ family'[req[p].fam] = family[req[p].fam]
  <1>0. /\ req[p].new \in Token /\ req[p].fam \in Device
        /\ AtHome /\ Known /\ IInv
    BY DEF ReachInv, HistoryInv, SafeInv, IInv, Locals, LocalsOK, At
  <1>1. Home(req[p].new) = req[p].fam
    BY <1>0 DEF AtHome, Trace
  <1>2. tokenKey[req[p].new] # Absent => tokenKey[req[p].new].dev = req[p].dev
    BY <1>0 DEF Known, Keys, UsedOn
  <1>3. ASSUME NEW q \in Proc, Step(q)
        PROVE  /\ tokenKey[req[p].new] # Absent => tokenKey'[req[p].new] # Absent
               /\ family'[req[p].fam] = family[req[p].fam]
    <2>1. ~Concerns(q, req[p].dev, req[p].fam)
      BY <1>1, <1>3 DEF Crosses
    <2> QED
      BY <1>0, <1>1, <1>2, <1>3, <2>1, TokenReach, FamilyReach
  <1>4. ASSUME NEW t \in Token, Logout(t) \/ ExpireToken(t)
        PROVE  /\ tokenKey[req[p].new] # Absent => tokenKey'[req[p].new] # Absent
               /\ family'[req[p].fam] = family[req[p].fam]
    <2>1. t # req[p].new
      BY <1>0, <1>4 DEF Logout, Crosses, IInv, Ownership, Settled
    <2> QED
      BY <1>0, <1>4, <2>1 DEF Logout, ExpireToken, DropKeys
  <1>5. ASSUME NEW f \in Device, ExpireFamily(f)
        PROVE  /\ tokenKey[req[p].new] # Absent => tokenKey'[req[p].new] # Absent
               /\ family'[req[p].fam] = family[req[p].fam]
    <2>1. f # req[p].fam
      BY <1>1, <1>5 DEF Crosses
    <2> QED
      BY <1>0, <1>5, <2>1 DEF ExpireFamily, DropFamilies
  <1> QED
    BY <1>3, <1>4, <1>5 DEF Next, Restart, store

(* A store stays as it was left, unless it is crossed.                     *)
LEMMA StoredStep ==
    ASSUME WorkInv, HNext, NEW p \in Proc
    PROVE  Stored(p)'
  <1> SUFFICES ASSUME At(p, "store")', p \notin crossed', ~Pending(p, "getFamily")'
               PROVE  /\ ~Pending(p, "setToken")' => tokenKey'[req'[p].new] # Absent
                      /\ ~Pending(p, "setFamily")' => IsCurrent(req[p].new, req[p].fam)'
    BY DEF Stored
  <1>0. /\ ReachInv /\ Stored(p) /\ TypeOK /\ Locals /\ Next /\ req'[p].pc = "store"
    BY DEF WorkInv, ReachInv, HistoryInv, SafeInv, IInv, HNext, At
  <1>1. p \notin crossed /\ ~(At(p, "store") /\ Crosses(p))
    BY <1>0 DEF HNext
  <1>2. CASE Step(p)
    <2>1. /\ At(p, "store")
          /\ StoreGetFamily(p) \/ StoreSetToken(p) \/ StoreSetFamily(p) \/ DeleteOld(p)
      BY <1>0, <1>2, StoreSteps DEF Pending
    <2> QED
      BY <1>0, <1>1, <2>1, OwnStore DEF Pending, IsCurrent
  <1>3. CASE ~Step(p)
    <2>1. ~Restart
      BY <1>0 DEF Restart, Idle
    <2>2. req'[p] = req[p]
      <3>1. ASSUME NEW q \in Proc, Step(q)
            PROVE  req'[p] = req[p]
        BY <1>0, <1>3, <3>1, OthersStay
      <3> QED
        BY <1>0, <2>1, <3>1 DEF Next, Logout, ExpireToken, ExpireFamily
    <2>3. At(p, "store") /\ ~Pending(p, "getFamily")
      BY <2>2 DEF At, Pending
    <2> QED
      BY <1>0, <1>1, <1>3, <2>2, <2>3, StoreKept DEF Stored, Pending, IsCurrent
  <1> QED
    BY <1>2, <1>3

(* The token of a login or refresh that nothing crossed is accepted when   *)
(* its answer is sent.                                                     *)
THEOREM AnswersWork == HSpec => []AnsweredTokenAccepted
  <1>1. HInit => WorkInv
    <2> SUFFICES ASSUME HInit PROVE WorkInv
      OBVIOUS
    <2> QED
      BY ReachInit DEF WorkInv, Stored, At, HInit, Init, Idle
  <1>2. WorkInv /\ [HNext]_hvars => WorkInv'
    <2> SUFFICES ASSUME WorkInv, [HNext]_hvars PROVE WorkInv'
      OBVIOUS
    <2>1. ReachInv'
      BY ReachStep DEF WorkInv
    <2>2. CASE HNext
      BY <2>1, <2>2, StoredStep DEF WorkInv
    <2>3. CASE UNCHANGED hvars
      BY <2>1, <2>3 DEF hvars, vars, WorkInv, Stored, At, Pending, IsCurrent
    <2> QED
      BY <2>2, <2>3
  <1>3. WorkInv => AnsweredTokenAccepted
    <2> SUFFICES ASSUME WorkInv, NEW p \in Proc, Done(p, "store"), p \notin crossed
                 PROVE  Valid(req[p].new)
      BY DEF AnsweredTokenAccepted
    <2>1. tokenKey[req[p].new] # Absent /\ IsCurrent(req[p].new, req[p].fam)
      BY DEF WorkInv, Stored, Done, Pending
    <2>2. /\ req[p].new \in Token /\ req[p].fam \in Device
          /\ tokenKey[req[p].new].fam \in Device
      BY <2>1 DEF WorkInv, ReachInv, HistoryInv, SafeInv, IInv, TypeOK, SessionData,
                  Locals, LocalsOK, Done, At
    <2>3. /\ Trace(req[p].new, req[p].fam)
          /\ Trace(req[p].new, tokenKey[req[p].new].fam)
      BY <2>1 DEF Trace
    <2>4. tokenKey[req[p].new].fam = req[p].fam
      BY <2>2, <2>3 DEF WorkInv, ReachInv, HistoryInv, AtHome
    <2> QED
      BY <2>1, <2>4 DEF Valid
  <1> QED
    BY <1>1, <1>2, <1>3, PTL DEF HSpec
=============================================================================
