SPECIFICATION FairSpec
CONSTANTS
    Client = {c1, c2}
    Sender = {s1, s2}
    MaxRetries = 2
    NoClient = NoClient
CHECK_DEADLOCK FALSE
INVARIANTS
    TypeOK
    PoolConserved
    SentWasAccepted
    ClosedMeansQuit
PROPERTY EverySendEnds
