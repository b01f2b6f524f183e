SPECIFICATION HSpec
CONSTANTS
    Token = {t1, t2}
    Device = {d1}
    Proc = {p1, p2}
    Ops = {"login", "refresh", "change"}
    Expiry = FALSE
    NoToken = NoToken
    NoDevice = NoDevice
    Absent = Absent
SYMMETRY Symmetry
INVARIANT PasswordChangeEndsSessions
