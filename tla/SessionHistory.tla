--------------------------- MODULE SessionHistory ---------------------------
(***************************************************************************)
(* SessionCache with the history that the documentation speaks of and the  *)
(* store does not keep: from which token a token was rotated, with which   *)
(* login its session began, and which sessions a change of password or a   *)
(* reset has been answered for.  A session is named by its first token.    *)
(***************************************************************************)
EXTENDS SessionCache

VARIABLES parent,   \* the token that was exchanged for this one
          session,  \* the first token of the chain of rotations
          begun,    \* the device of the login that minted a token
          crossed,  \* requests storing a token while another one concerned it
          closed    \* sessions that a finished change or reset was to end

hvars == <<vars, parent, session, begun, crossed, closed>>

(* A token no other was exchanged for is its own parent: a login minted it *)
HInit ==
    /\ Init
    /\ parent = [t \in Token |-> t]
    /\ session = [t \in Token |-> t]
    /\ begun = [t \in Token |-> NoDevice]
    /\ crossed = {}
    /\ closed = {}

(* The rotation that mints n in this step, if one does.                    *)
Rotation(p, n) == req[p].op = "refresh" /\ req[p].new = NoToken /\ req'[p].new = n

Inherit(f, old) ==
    f' = [n \in Token |-> IF \E p \in Proc : Rotation(p, n)
                          THEN old[CHOOSE p \in Proc : Rotation(p, n)] ELSE f[n]]

(* The device that the session of t began on.                              *)
Home(t) == begun[session[t]]

(* Request p may end tokens that device d uses and whose session began on  *)
(* h: those of its own session, for a login those of its device, for a     *)
(* change or reset of the password all.                                    *)
Concerns(p, d, h) ==
    \/ At(p, "wipe")
    \/ At(p, "clean") /\ req[p].dev = d
    \/ (At(p, "store") \/ At(p, "revoking")) /\
         h = IF req[p].op = "login" THEN req[p].dev ELSE Home(req[p].old)

(* The store of p's token is not alone: another request concerns the token *)
(* too, or one of its new keys reaches its TTL.                            *)
Crosses(p) ==
    \/ \E q \in Proc \ {p} : Concerns(q, req[p].dev, Home(req[p].new))
    \/ ExpireToken(req[p].new)
    \/ ExpireFamily(Home(req[p].new))

HNext ==
    /\ Next
    /\ Inherit(parent, [p \in Proc |-> req[p].old])
    /\ Inherit(session, [p \in Proc |-> IF req[p].old = NoToken THEN NoToken
                                        ELSE session[req[p].old]])
    /\ begun' = [n \in Token |->
                    IF \E p \in Proc, d \in Device : LoginStart(p, d, n)
                    THEN CHOOSE d \in Device : \E p \in Proc : LoginStart(p, d, n)
                    ELSE begun[n]]
    /\ crossed' = {p \in Proc : req'[p].pc = "store" /\
                                  (p \in crossed \/ (At(p, "store") /\ Crosses(p)))}
    /\ closed' = closed \cup {session[t] : t \in
                    UNION {ends[p] : p \in {q \in Proc : Done(q, "wipe") /\ req'[q] = Idle}}}

HSpec == HInit /\ [][HNext]_hvars

-----------------------------------------------------------------------------
(* Rotations keep a session in the family it began in, also when the       *)
(* client refreshes from another device and when one token is exchanged    *)
(* twice: at most one token of a session is accepted at any moment.        *)
SessionNeverForks ==
    \A t, u \in Token : Valid(t) /\ Valid(u) /\ session[t] = session[u] => t = u

(* Whoever else is logged in, from whichever devices: an accepted token is *)
(* ended by its logout, its TTL, a request of its own session, a login     *)
(* from the device that uses it or on which its session began, or a change *)
(* or reset of the password.  No stale copy of a family reaches further.   *)
SessionsApart ==
    [][\A t \in Token : Valid(t) /\ ~Valid(t)' =>
          \/ Logout(t) \/ ExpireToken(t) \/ ExpireFamily(Home(t))
          \/ \E p \in Proc : req'[p] # req[p] /\ Concerns(p, tokenKey[t].dev, Home(t))]_hvars

(* The token that an answer carries is accepted, unless a request that     *)
(* concerns it overlapped its store or it has expired already.             *)
AnsweredTokenAccepted ==
    \A p \in Proc : Done(p, "store") /\ p \notin crossed => Valid(req[p].new)

(* README: sessions are revoked by force when the password is changed or   *)
(* reset.  No token of a session that existed when the deletion began is   *)
(* accepted once the request has been answered.                            *)
PasswordChangeEndsSessions ==
    \A t \in issued : session[t] \in closed => ~Valid(t)

-----------------------------------------------------------------------------
(* TLC refutes what follows; no run lists it.                              *)

(* refresh.py: "If old token is reused -> revokes entire session".  When   *)
(* the 401 for a token that an answered refresh had exchanged is ready, no *)
(* token of its session is accepted.                                       *)
ReuseRevokesSession ==
    \A p \in Proc :
        /\ At(p, "reject") \/ Done(p, "revoking")
        /\ \E u \in issued : u # req[p].old /\ parent[u] = req[p].old
        => \A u \in issued : session[u] = session[req[p].old] => ~Valid(u)

(* rotate_refresh_token: "Check if old token is valid and not used".  A    *)
(* token is exchanged for one new token at most.                           *)
TokenExchangedOnce ==
    \A u, v \in issued : parent[u] = parent[v] /\ u # parent[u] /\ v # parent[v] => u = v

(* delete_user_device_sessions: "This ensures only one active session per  *)
(* device/IP combination."                                                 *)
OneSessionPerDevice ==
    \A t, u \in issued :
        Valid(t) /\ Valid(u) /\ tokenKey[t].dev = tokenKey[u].dev => t = u

(* _get_session_family_key: "tracking all tokens in a session family".     *)
(* The family of a token that a client holds tracks it, so a revocation of *)
(* the family finds it.                                                    *)
FamilyTracksTokens ==
    \A t \in issued \cap Keys :
        tokenKey[t].fam \in Families => t \in family[tokenKey[t].fam].tokens
=============================================================================
