SPECIFICATION FairQuitSpec
CONSTANTS
    Slugs = {d1}
    Paths = {p1, p2}
    Bodies = {empty, b1}
    EmptyBody = empty
    UserBodies = {b1}
    NoSlug = NoSlug
    NoPath = NoPath
    Missing = Missing
    MoveScope = "open"
    ReadFaults = FALSE
    MaxGen = 2
    MaxFails = 1
INVARIANTS CleanMeansSaved QuietQuitSaves
PROPERTY QuitEnds
CHECK_DEADLOCK FALSE
