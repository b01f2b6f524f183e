CONSTANTS
    Session = {s1, s2}
    Pair = {q1, q2, q3}
    Proc = {p1, p2}
    Ops = {"authenticate", "refresh", "signout", "invalidateRefresh"}
    Faults = FALSE
    None = None
    Miss = Miss
SPECIFICATION Spec
SYMMETRY Symmetry
CHECK_DEADLOCK FALSE
INVARIANTS
    TypeOK
    OnlyOwnSession
    EndedAreRevoked
