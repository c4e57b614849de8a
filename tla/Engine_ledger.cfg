SPECIFICATION FairSpec
CONSTANTS
    t1 = t1
    t2 = t2
    x1 = x1
    x2 = x2
    x3 = x3
    Threads = {t1, t2}
    Runs = {x1, x2}
    MaxRecs = 2
    MaxLive = 1
    OneAtATime = TRUE
    Policies = {"persist"}
    Faults = {"auth", "throw", "crash", "background"}
    NoThread = NoThread
    NoRun = NoRun
CHECK_DEADLOCK FALSE
INVARIANTS
    GatesCounted
    RegistryFinds
    NeverStranded
PROPERTIES
    KeepsLedger
