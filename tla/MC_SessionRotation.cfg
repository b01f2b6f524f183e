SPECIFICATION HSpec
CONSTANTS
    Token = {t1, t2, t3}
    Device = {d1, d2}
    Proc = {p1, p2}
    Ops = {"login", "refresh"}
    Expiry = TRUE
    NoToken = NoToken
    NoDevice = NoDevice
    Absent = Absent
SYMMETRY Symmetry
INVARIANTS
    TypeOK
    FamilyOwnsTokens
    StaleTokenBuysNothing
    EndedTokensAreDead
    SessionNeverForks
    AnsweredTokenAccepted
PROPERTIES
    DeadStaysDead
    SessionsApart
