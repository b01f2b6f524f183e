CONSTANTS
    Proc = {p1, p2}
    Ops = {"create", "find", "login", "access", "change", "reset"}
    MaxReq = 5
    Miss = Miss
SPECIFICATION HFairSpec
CHECK_DEADLOCK FALSE
INVARIANTS
    TypeOK
    OnlyCommitted
    NewTokenAccepted
    StaleOnlyByRace
    OldPasswordOnlyByRace
PROPERTIES
    ReadThroughRefined
    EventuallyFresh
