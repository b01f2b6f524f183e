SPECIFICATION Spec
CONSTANTS
    Token = {t1, t2, t3}
    Device = {d1}
    Proc = {p1, p2}
    Ops = {"login", "refresh", "change", "reset"}
    Expiry = TRUE
    NoToken = NoToken
    NoDevice = NoDevice
    Absent = Absent
SYMMETRY Symmetry
INVARIANT EndedTokensAreDead
PROPERTY ImplementsLifecycle
