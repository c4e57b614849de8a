SPECIFICATION FairSpec
CONSTANTS
    Threads = {t1}
    None = None
    MaxActive = 2
    Faults = {"write", "read", "cut"}
    MaxTurns = 3
    MaxVersion = 2
    MaxFails = 2
    MaxCrashes = 1
INVARIANTS DiskIsPrefix SettledIsKept MirrorsDisk
PROPERTIES MetaFirst Drains
CHECK_DEADLOCK FALSE
