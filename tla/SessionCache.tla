---------------------------- MODULE SessionCache ----------------------------
(***************************************************************************)
(* The refresh-token store of SessionCacheService: what one user's keys in *)
(* Redis hold, and every request of the login, refresh, logout,            *)
(* change-password and reset-password routers that reads or writes them.   *)
(*                                                                         *)
(* The server is one asyncio process, so a request is atomic between two   *)
(* awaits and interleaves with every other request at an await.  Each      *)
(* action below is one Redis command of one request with the code that     *)
(* runs after it up to the next await.  The commands of an asyncio.gather  *)
(* travel on different connections: a request keeps them in "todo" and     *)
(* they take effect in any order.                                          *)
(*                                                                         *)
(* A token stands for the hash the code stores; two mints never give the   *)
(* same one (its iat is a float).  A device is a pair (user agent, ip      *)
(* address), and the id of a session family is a hash of it, so a device   *)
(* also names the family that a login from it writes to.  This assumes     *)
(* that two devices have two family ids; the code joins the agent, or the  *)
(* word "unknown" for none, and the address by ":", so that two odd agents *)
(* may share a family although their keys are told apart.                  *)
(***************************************************************************)
EXTENDS FiniteSets

CONSTANTS Token,      \* refresh tokens
          Device,     \* (user agent, ip) pairs, and the family ids hashed from them
          Proc,       \* slots for requests in flight
          Ops,        \* the requests that clients make: a subset of Operations
          Expiry,     \* whether keys reach their TTL
          NoToken,    \* no token in a request's local variable
          NoDevice,   \* no device in a request's local variable
          Absent      \* a key that Redis does not hold

Operations == {"login", "refresh", "change", "reset"}

SessionData == [fam : Device, dev : Device]

FamilyData == [tokens : SUBSET Token, current : Token]

ASSUME OpsAssumption == Ops \subseteq Operations /\ Expiry \in BOOLEAN

ASSUME NullAssumption ==
    /\ NoToken \notin Token
    /\ NoDevice \notin Device
    /\ Absent \notin SessionData
    /\ Absent \notin FamilyData

VARIABLES tokenKey,   \* session:user:{id}:token:{hash}
          family,     \* session:user:{id}:family:{family id}
          req,        \* the requests in flight and their local variables
          minted,     \* tokens signed so far
          issued,     \* tokens that an answer has carried to a client
          ends,       \* history: the tokens that a request must leave dead
          stale       \* history: requests whose token was dead on arrival

vars == <<tokenKey, family, req, minted, issued, ends, stale>>

store == <<tokenKey, family>>
clients == <<minted, issued>>
history == <<ends, stale>>

Commands == {"deleteOld", "getFamily", "setToken", "setFamily",
             "deleteKeys", "deleteFamily",
             "scanTokens", "unlinkTokens", "scanFamilies", "unlinkFamilies"}

Request == [op    : Operations \cup {"none"},
            pc    : {"idle", "clean", "verify", "ttl", "rotate", "rotateVerify",
                     "revoke", "revoking", "store", "wipe", "reject"},
            old   : Token \cup {NoToken},    \* the token of the cookie
            new   : Token \cup {NoToken},    \* the token the answer will carry
            dev   : Device \cup {NoDevice},  \* user agent and ip of the request
            fam   : Device \cup {NoDevice},  \* session_family_id
            chain : SUBSET Token,            \* family_data.tokens, as read
            keys  : SUBSET Token,            \* token keys to delete
            fams  : SUBSET Device,           \* family keys to delete
            todo  : SUBSET Commands]         \* commands of the gather under way

Idle == [op |-> "none", pc |-> "idle", old |-> NoToken, new |-> NoToken,
         dev |-> NoDevice, fam |-> NoDevice, chain |-> {}, keys |-> {},
         fams |-> {}, todo |-> {}]

TypeOK ==
    /\ tokenKey \in [Token -> SessionData \cup {Absent}]
    /\ family \in [Device -> FamilyData \cup {Absent}]
    /\ req \in [Proc -> Request]
    /\ minted \in SUBSET Token
    /\ issued \in SUBSET Token
    /\ ends \in [Proc -> SUBSET Token]
    /\ stale \in SUBSET Proc

Init ==
    /\ tokenKey = [t \in Token |-> Absent]
    /\ family = [f \in Device |-> Absent]
    /\ req = [p \in Proc |-> Idle]
    /\ minted = {}
    /\ issued = {}
    /\ ends = [p \in Proc |-> {}]
    /\ stale = {}

-----------------------------------------------------------------------------
(* What the store says of a token.                                         *)

Keys == {t \in Token : tokenKey[t] # Absent}

KeysOf(d) == {t \in Keys : tokenKey[t].dev = d}

Families == {f \in Device : family[f] # Absent}

IsCurrent(t, f) == family[f] # Absent /\ family[f].current = t

(* verify_refresh_token accepts t.                                         *)
Valid(t) == tokenKey[t] # Absent /\ IsCurrent(t, tokenKey[t].fam)

(* An effect of a DEL of token keys and of one family key.                 *)
DropKeys(K) == tokenKey' = [t \in Token |-> IF t \in K THEN Absent ELSE tokenKey[t]]

DropFamilies(F) == family' = [f \in Device |-> IF f \in F THEN Absent ELSE family[f]]

Become(p, r) == req' = [req EXCEPT ![p] = r]

Did(p, c) == [req[p] EXCEPT !.todo = @ \ {c}]

At(p, l) == req[p].pc = l

Pending(p, c) == c \in req[p].todo

-----------------------------------------------------------------------------
(* Definitions whose names end in _Bug are mutations of the definition that *)
(* follows: TLC must find the properties broken by them.  Nothing uses     *)
(* them otherwise.                                                         *)

(* Login: the password has been verified, the token is minted, and the     *)
(* scan of the user's token keys begins.  "ends" records the sessions that *)
(* this login is meant to replace.                                         *)
LoginStart(p, d, n) ==
    /\ At(p, "idle")
    /\ "login" \in Ops
    /\ n \notin minted
    /\ minted' = minted \cup {n}
    /\ Become(p, [Idle EXCEPT !.op = "login", !.pc = "clean", !.new = n,
                              !.dev = d, !.fam = d, !.keys = KeysOf(d)])
    /\ ends' = [ends EXCEPT ![p] =
                    {t \in issued : Valid(t) /\ d \in {tokenKey[t].dev, tokenKey[t].fam}}]
    /\ UNCHANGED <<store, issued, stale>>

(* The comparison of the user agent never matches a stored session.        *)
LoginClean_Bug(p) ==
    /\ At(p, "clean")
    /\ Become(p, [req[p] EXCEPT !.pc = "store", !.keys = {}, !.todo = {"getFamily"}])
    /\ UNCHANGED <<store, clients, history>>

(* The scan ends and delete_many is sent: it covers every key the device   *)
(* had when the scan began, and any set of the keys written meanwhile.     *)
LoginClean(p) ==
    /\ At(p, "clean")
    /\ \E more \in SUBSET (KeysOf(req[p].dev) \ req[p].keys) :
          DropKeys(req[p].keys \cup more)
    /\ Become(p, [req[p] EXCEPT !.pc = "store", !.keys = {}, !.todo = {"getFamily"}])
    /\ UNCHANGED <<family, clients, history>>

(* store_refresh_token reads the family ...                                *)
StoreGetFamily(p) ==
    /\ Pending(p, "getFamily")
    /\ LET f == family[req[p].fam]
           known == IF f = Absent THEN {} ELSE f.tokens
       IN  Become(p, [Did(p, "getFamily") EXCEPT
                        !.chain = known \cup {req[p].new},
                        !.todo = @ \cup {"setToken", "setFamily"}])
    /\ UNCHANGED <<store, clients, history>>

(* ... and writes both keys from what it read.                             *)
(* The key of a rotated token names the family of the device it came from. *)
StoreSetToken_Bug(p) ==
    /\ Pending(p, "setToken")
    /\ tokenKey' = [tokenKey EXCEPT ![req[p].new] = [fam |-> req[p].dev, dev |-> req[p].dev]]
    /\ Become(p, Did(p, "setToken"))
    /\ UNCHANGED <<family, clients, history>>

StoreSetToken(p) ==
    /\ Pending(p, "setToken")
    /\ tokenKey' = [tokenKey EXCEPT ![req[p].new] = [fam |-> req[p].fam, dev |-> req[p].dev]]
    /\ Become(p, Did(p, "setToken"))
    /\ UNCHANGED <<family, clients, history>>

(* A rotation writes the old hash back as the current one.                 *)
StoreSetFamily_Bug(p) ==
    /\ Pending(p, "setFamily")
    /\ family' = [family EXCEPT ![req[p].fam] =
                    [tokens  |-> req[p].chain,
                     current |-> IF req[p].op = "refresh" THEN req[p].old ELSE req[p].new]]
    /\ Become(p, [Did(p, "setFamily") EXCEPT !.chain = {}])
    /\ UNCHANGED <<tokenKey, clients, history>>

(* A login, which has no old token, does the same.                         *)
StoreSetFamily_BugNull(p) ==
    /\ Pending(p, "setFamily")
    /\ family' = [family EXCEPT ![req[p].fam] =
                    [tokens |-> req[p].chain, current |-> req[p].old]]
    /\ Become(p, [Did(p, "setFamily") EXCEPT !.chain = {}])
    /\ UNCHANGED <<tokenKey, clients, history>>

StoreSetFamily(p) ==
    /\ Pending(p, "setFamily")
    /\ family' = [family EXCEPT ![req[p].fam] =
                    [tokens |-> req[p].chain, current |-> req[p].new]]
    /\ Become(p, [Did(p, "setFamily") EXCEPT !.chain = {}])
    /\ UNCHANGED <<tokenKey, clients, history>>

Done(p, l) == At(p, l) /\ req[p].todo = {}

Answer(p) ==
    /\ Become(p, Idle)
    /\ ends' = [ends EXCEPT ![p] = {}]
    /\ stale' = stale \ {p}
    /\ UNCHANGED store

(* The answer of login or refresh carries the new token to the client.     *)
AnswerToken(p) ==
    /\ Done(p, "store")
    /\ issued' = issued \cup {req[p].new}
    /\ Answer(p)
    /\ UNCHANGED minted

-----------------------------------------------------------------------------
(* AuthRefreshTokenDependency of refresh and change-password, for a token  *)
(* that some client was given: verify_refresh_token gets the token's key.  *)
PresentToken(p, op, t, d) ==
    /\ At(p, "idle")
    /\ t \in issued
    /\ LET r == [Idle EXCEPT !.op = op, !.old = t, !.dev = d]
       IN  Become(p, IF tokenKey[t] = Absent
                     THEN [r EXCEPT !.pc = "reject"]
                     ELSE [r EXCEPT !.pc = "verify", !.fam = tokenKey[t].fam])
    /\ stale' = IF Valid(t) THEN stale ELSE stale \cup {p}
    /\ UNCHANGED <<store, clients, ends>>

(* _verify_token_is_current, called once by the dependency and once more   *)
(* by rotate_refresh_token.  It fails on a missing family, and on a family *)
(* with another current token, which it revokes.                           *)
(* The check is satisfied with a family that exists.                       *)
Current_Bug(p) == family[req[p].fam] # Absent

Current(p) == IsCurrent(req[p].old, req[p].fam)

VerifyFamily(p) ==
    /\ At(p, "verify")
    /\ Current(p)
    /\ Become(p, [req[p] EXCEPT !.pc = "ttl"])
    /\ UNCHANGED <<store, clients, history>>

NotCurrent(p) ==
    /\ At(p, "verify") \/ At(p, "rotateVerify")
    /\ ~Current(p)
    /\ Become(p, [req[p] EXCEPT !.pc = IF family[req[p].fam] = Absent THEN "reject" ELSE "revoke"])
    /\ UNCHANGED <<store, clients, history>>

(* get_refresh_token_ttl finds no time left: 401.                          *)
TtlGone(p) ==
    /\ At(p, "ttl")
    /\ tokenKey[req[p].old] = Absent
    /\ Become(p, [req[p] EXCEPT !.pc = "reject"])
    /\ UNCHANGED <<store, clients, history>>

(* refresh: the dependency passed, the new pair of tokens is minted and    *)
(* rotate_refresh_token is entered.                                        *)
TtlRefresh(p, n) ==
    /\ At(p, "ttl")
    /\ req[p].op = "refresh"
    /\ tokenKey[req[p].old] # Absent
    /\ n \notin minted
    /\ minted' = minted \cup {n}
    /\ Become(p, [req[p] EXCEPT !.pc = "rotate", !.new = n])
    /\ UNCHANGED <<store, issued, history>>

RotateGetToken(p) ==
    /\ At(p, "rotate")
    /\ LET data == tokenKey[req[p].old]
       IN  Become(p, IF data = Absent
                     THEN [req[p] EXCEPT !.pc = "reject"]
                     ELSE [req[p] EXCEPT !.pc = "rotateVerify", !.fam = data.fam])
    /\ UNCHANGED <<store, clients, history>>

(* The family id of the new token is hashed from the request, not taken    *)
(* from the old token.                                                     *)
RotateVerify_Bug(p) ==
    /\ At(p, "rotateVerify")
    /\ Current(p)
    /\ Become(p, [req[p] EXCEPT !.pc = "store", !.fam = req[p].dev,
                                !.todo = {"deleteOld", "getFamily"}])
    /\ ends' = [ends EXCEPT ![p] = {req[p].old}]
    /\ UNCHANGED <<store, clients, stale>>

(* When the second check passes, the deletion of the old key and the store *)
(* of the new one start together.                                          *)
RotateVerify(p) ==
    /\ At(p, "rotateVerify")
    /\ Current(p)
    /\ Become(p, [req[p] EXCEPT !.pc = "store", !.todo = {"deleteOld", "getFamily"}])
    /\ ends' = [ends EXCEPT ![p] = {req[p].old}]
    /\ UNCHANGED <<store, clients, stale>>

DeleteOld(p) ==
    /\ Pending(p, "deleteOld")
    /\ DropKeys({req[p].old})
    /\ Become(p, Did(p, "deleteOld"))
    /\ UNCHANGED <<family, clients, history>>

(* The 401 answer of a refused token.                                      *)
Reject(p) ==
    /\ At(p, "reject") \/ Done(p, "revoking")
    /\ Answer(p)
    /\ UNCHANGED clients

-----------------------------------------------------------------------------
(* revoke_session_family: read the family again, then delete the keys it   *)
(* tracks and the family itself.  "ends": every token of the family that a *)
(* client holds.                                                           *)
RevokeGetFamily(p) ==
    /\ At(p, "revoke")
    /\ LET f == family[req[p].fam]
       IN  IF f = Absent
           THEN /\ Become(p, [req[p] EXCEPT !.pc = "reject"])
                /\ UNCHANGED ends
           ELSE /\ Become(p, [req[p] EXCEPT !.pc = "revoking", !.keys = f.tokens,
                                            !.todo = {"deleteKeys", "deleteFamily"}])
                /\ ends' = [ends EXCEPT ![p] =
                       {t \in issued : tokenKey[t] # Absent /\ tokenKey[t].fam = req[p].fam}]
    /\ UNCHANGED <<store, clients, stale>>

RevokeDeleteKeys(p) ==
    /\ Pending(p, "deleteKeys")
    /\ DropKeys(req[p].keys)
    /\ Become(p, [Did(p, "deleteKeys") EXCEPT !.keys = {}])
    /\ UNCHANGED <<family, clients, history>>

RevokeDeleteFamily(p) ==
    /\ Pending(p, "deleteFamily")
    /\ DropFamilies({req[p].fam})
    /\ Become(p, Did(p, "deleteFamily"))
    /\ UNCHANGED <<tokenKey, clients, history>>

-----------------------------------------------------------------------------
(* Only the token of the request is deleted, not the other sessions.       *)
Wipe_Bug(p, r, cmds) ==
    /\ Become(p, [r EXCEPT !.pc = "wipe", !.todo = cmds \cap {"deleteOld"}])
    /\ ends' = [ends EXCEPT ![p] = issued]
    /\ UNCHANGED <<store, clients, stale>>

(* delete_all_user_sessions: two delete_match run side by side, each one a *)
(* scan and then a deletion of the keys it returned.                       *)
Wipe(p, r, cmds) ==
    /\ Become(p, [r EXCEPT !.pc = "wipe", !.todo = cmds])
    /\ ends' = [ends EXCEPT ![p] = issued]
    /\ UNCHANGED <<store, clients, stale>>

(* change-password: both dependencies and the old password are accepted.   *)
(* The lookup of the user between the TTL read and the gather changes      *)
(* nothing here, and is part of the step; so is the start of the gather,   *)
(* whose commands may still run at any time after it.                      *)
ChangePassword(p) ==
    /\ At(p, "ttl")
    /\ req[p].op = "change"
    /\ tokenKey[req[p].old] # Absent
    /\ Wipe(p, req[p], {"deleteOld", "scanTokens", "scanFamilies"})

(* change-password: the old password is wrong or the new one is the same.  *)
RefusePassword(p) ==
    /\ At(p, "ttl")
    /\ req[p].op = "change"
    /\ tokenKey[req[p].old] # Absent
    /\ Answer(p)
    /\ UNCHANGED clients

(* reset-password verify: the mailed code is accepted.                     *)
VerifyReset(p) ==
    /\ At(p, "idle")
    /\ "reset" \in Ops
    /\ Wipe(p, [Idle EXCEPT !.op = "reset"], {"scanTokens", "scanFamilies"})

WipeScanTokens(p) ==
    /\ Pending(p, "scanTokens")
    /\ Become(p, [Did(p, "scanTokens") EXCEPT !.keys = Keys, !.todo = @ \cup {"unlinkTokens"}])
    /\ UNCHANGED <<store, clients, history>>

WipeUnlinkTokens(p) ==
    /\ Pending(p, "unlinkTokens")
    /\ \E more \in SUBSET (Keys \ req[p].keys) : DropKeys(req[p].keys \cup more)
    /\ Become(p, [Did(p, "unlinkTokens") EXCEPT !.keys = {}])
    /\ UNCHANGED <<family, clients, history>>

WipeScanFamilies(p) ==
    /\ Pending(p, "scanFamilies")
    /\ Become(p, [Did(p, "scanFamilies") EXCEPT !.fams = Families,
                                                !.todo = @ \cup {"unlinkFamilies"}])
    /\ UNCHANGED <<store, clients, history>>

WipeUnlinkFamilies(p) ==
    /\ Pending(p, "unlinkFamilies")
    /\ \E more \in SUBSET (Families \ req[p].fams) : DropFamilies(req[p].fams \cup more)
    /\ Become(p, [Did(p, "unlinkFamilies") EXCEPT !.fams = {}])
    /\ UNCHANGED <<tokenKey, clients, history>>

AnswerWipe(p) ==
    /\ Done(p, "wipe")
    /\ Answer(p)
    /\ UNCHANGED clients

-----------------------------------------------------------------------------
(* Logout deletes the key of the token it is given, and nothing else.      *)
Logout(t) ==
    /\ t \in issued
    /\ DropKeys({t})
    /\ UNCHANGED <<family, req, clients, history>>

(* A key reaches its TTL.                                                  *)
ExpireToken(t) ==
    /\ Expiry
    /\ tokenKey[t] # Absent
    /\ DropKeys({t})
    /\ UNCHANGED <<family, req, clients, history>>

ExpireFamily(f) ==
    /\ Expiry
    /\ family[f] # Absent
    /\ DropFamilies({f})
    /\ UNCHANGED <<tokenKey, req, clients, history>>

(* The server process restarts, at any time: its requests die at the await *)
(* they are at, Redis keeps what was written.                              *)
Restart ==
    /\ req' = [p \in Proc |-> Idle]
    /\ ends' = [p \in Proc |-> {}]
    /\ stale' = {}
    /\ UNCHANGED <<store, clients>>

Step(p) ==
    \/ \E d \in Device, n \in Token : LoginStart(p, d, n)
    \/ LoginClean(p)
    \/ StoreGetFamily(p)
    \/ StoreSetToken(p)
    \/ StoreSetFamily(p)
    \/ AnswerToken(p)
    \/ \E op \in Ops \cap {"refresh", "change"}, t \in Token, d \in Device : PresentToken(p, op, t, d)
    \/ VerifyFamily(p)
    \/ NotCurrent(p)
    \/ TtlGone(p)
    \/ \E n \in Token : TtlRefresh(p, n)
    \/ RotateGetToken(p)
    \/ RotateVerify(p)
    \/ DeleteOld(p)
    \/ Reject(p)
    \/ RevokeGetFamily(p)
    \/ RevokeDeleteKeys(p)
    \/ RevokeDeleteFamily(p)
    \/ ChangePassword(p)
    \/ RefusePassword(p)
    \/ VerifyReset(p)
    \/ WipeScanTokens(p)
    \/ WipeUnlinkTokens(p)
    \/ WipeScanFamilies(p)
    \/ WipeUnlinkFamilies(p)
    \/ AnswerWipe(p)

Next ==
    \/ \E p \in Proc : Step(p)
    \/ \E t \in Token : Logout(t) \/ ExpireToken(t)
    \/ \E f \in Device : ExpireFamily(f)
    \/ Restart

Spec == Init /\ [][Next]_vars

-----------------------------------------------------------------------------
(* A family tracks its current token, and every key it tracks was written  *)
(* for this family, so revoke_session_family never logs out a device that  *)
(* shares nothing with the revoked session.                                *)
FamilyOwnsTokens ==
    \A f \in Families :
        /\ family[f].current \in family[f].tokens
        /\ \A t \in family[f].tokens \cap Keys : tokenKey[t].fam = f

(* When a request has sent its last command, the sessions it was to end    *)
(* are over, whatever ran meanwhile: the rotated token of a refresh, the   *)
(* sessions of the device after a login, the tokens of a revoked family,   *)
(* every token a client held when a change-password or reset-password      *)
(* request began to delete.                                                *)
EndedTokensAreDead ==
    \A p \in Proc : Done(p, "store") \/ Done(p, "revoking") \/ Done(p, "wipe")
                      => \A t \in ends[p] : ~Valid(t)

(* A token that was already dead when its request arrived is never         *)
(* accepted: no store state between the two checks and the rotation lets   *)
(* an old token through.                                                   *)
StaleTokenBuysNothing ==
    \A p \in stale : req[p].pc \in {"verify", "reject", "revoke", "revoking"}

(* A token whose writer is no longer in flight: it has been answered, or   *)
(* the server restarted.                                                   *)
Settled(t) == t \in minted /\ \A p \in Proc : req[p].new # t

(* Revocation is final: once a settled token is not accepted, no step of   *)
(* any request, late store or stale family copy makes it accepted again.   *)
DeadStaysDead ==
    [][\A t \in Token : Settled(t) /\ ~Valid(t) => ~Valid(t)']_vars

(* The life of each token, as a client could observe it.                   *)
Life == [t \in Token |-> IF ~Settled(t) THEN "pending"
                         ELSE IF Valid(t) THEN "active" ELSE "dead"]

Lifecycle == INSTANCE TokenLifecycle WITH life <- Life

(* Every interleaving of Redis commands is a behaviour of TokenLifecycle.  *)
ImplementsLifecycle == Lifecycle!Spec

=============================================================================
