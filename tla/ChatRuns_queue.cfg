SPECIFICATION FairSpec
CONSTANTS
    Threads = {t1, t2}
    Msgs = {m1, m2}
    None = None
    MaxCrashes = 1
INVARIANTS
    TypeOK
    OneStream
    MessagesInPlace
    NoOrphans
PROPERTIES
    StopHolds
    Settles
CHECK_DEADLOCK FALSE
