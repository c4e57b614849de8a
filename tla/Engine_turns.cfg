SPECIFICATION Spec
CONSTANTS
    t1 = t1
    t2 = t2
    x1 = x1
    x2 = x2
    x3 = x3
    Threads = {t1, t2}
    Runs = {x1, x2, x3}
    MaxRecs = 2
    MaxLive = 1
    OneAtATime = FALSE
    Policies = {"persist", "closeAfterResult"}
    Faults = {"auth", "throwAuth", "crash", "build", "limit"}
    NoThread = NoThread
    NoRun = NoRun
SYMMETRY Interchangeable
CHECK_DEADLOCK FALSE
INVARIANT OwnAnswers
