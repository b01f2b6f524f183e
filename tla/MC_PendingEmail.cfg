CONSTANTS
    Box = {b1, b2}
    Spelling = {s1}
    Login = {l1, l2}
    Code = {c1, c2}
    Token = {t1}
    Proc = {p1, p2}
    Ops = {"register", "resend", "verify", "reset", "resetVerify", "finalize", "login"}
    Faults = TRUE
    None = None
SPECIFICATION Spec
SYMMETRY Symmetry
CHECK_DEADLOCK FALSE
INVARIANTS
    TypeOK
    SpentCodeIsDead
    OnlyMailboxOwner
    UsedTokenIsDead
