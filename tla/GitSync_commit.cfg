SPECIFICATION GitSpec
CONSTANTS
    Slugs = {d1}
    Paths = {p1, p2}
    Bodies = {empty, b1}
    EmptyBody = empty
    UserBodies = {b1}
    NoSlug = NoSlug
    NoPath = NoPath
    Missing = Missing
    MoveScope = "open"
    ReadFaults = FALSE
    MaxGen = 2
    MaxFails = 0
    MaxWaiting = 2
INVARIANT ChangesAreNoted
PROPERTY CommitsWhatWasThere
SYMMETRY PathSymmetry
CHECK_DEADLOCK FALSE
