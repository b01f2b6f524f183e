CONSTANTS
    Proc = {p1, p2}
    Ops = {"create", "login", "access", "reset"}
    MaxReq = 5
    Miss = Miss
SPECIFICATION HSpec
CHECK_DEADLOCK FALSE
SYMMETRY Symmetry
INVARIANT OldCredentialsRefused
