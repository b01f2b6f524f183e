CONSTANTS
    Session = {s1}
    Pair = {q1, q2}
    Proc = {p1, p2}
    Ops = {"authenticate", "refresh", "validate", "join", "invalidateAccess", "invalidateRefresh", "signout"}
    Faults = TRUE
    None = None
    Miss = Miss
SPECIFICATION Spec
SYMMETRY Symmetry
CHECK_DEADLOCK FALSE
PROPERTIES
    RevokedForever
    ReadThroughRefined
