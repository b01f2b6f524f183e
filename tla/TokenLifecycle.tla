--------------------------- MODULE TokenLifecycle ---------------------------
(***************************************************************************)
(* What the session store promises of a refresh token, with no store: a    *)
(* token is pending until the request that mints it has ended, it is then  *)
(* accepted or not, and a token that is not accepted never is again.       *)
(***************************************************************************)
CONSTANT Token

VARIABLE life

States == {"pending", "active", "dead"}

TypeOK == life \in [Token -> States]

Init == life = [t \in Token |-> "pending"]

In(s) == {t \in Token : life[t] = s}

(* Requests end: the tokens they minted are accepted, or were ended by     *)
(* another request in the meantime.                                        *)
Settle(accepted, lost) ==
    /\ accepted \subseteq In("pending")
    /\ lost \subseteq In("pending") \ accepted
    /\ life' = [t \in Token |-> IF t \in accepted THEN "active"
                                ELSE IF t \in lost THEN "dead" ELSE life[t]]

(* A rotation, login, logout, revocation, password change or TTL ends the  *)
(* tokens of S.                                                            *)
End(S) ==
    /\ S \subseteq In("active")
    /\ life' = [t \in Token |-> IF t \in S THEN "dead" ELSE life[t]]

Next ==
    \/ \E accepted, lost \in SUBSET Token : Settle(accepted, lost)
    \/ \E S \in SUBSET Token : End(S)

Spec == Init /\ [][Next]_life
=============================================================================
