CONSTANTS
    Bucket = {avatars, downloads}
    MaxFaults = 4
    None = None
SPECIFICATION FairSpec
CHECK_DEADLOCK FALSE
INVARIANTS
    TypeOK
    ReadyBeforeServing
PROPERTY
    EventuallyServes
