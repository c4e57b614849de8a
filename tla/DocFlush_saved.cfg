SPECIFICATION FairSpec
CONSTANTS
    Slugs = {d1, d2}
    Paths = {p1, p2}
    Bodies = {empty, b1}
    EmptyBody = empty
    UserBodies = {b1}
    NoSlug = NoSlug
    NoPath = NoPath
    Missing = Missing
    MoveScope = "none"
    ReadFaults = FALSE
    MaxGen = 2
    MaxFails = 1
INVARIANT DiskCurrent
PROPERTIES EventuallySaved NeverWiped
CHECK_DEADLOCK FALSE
