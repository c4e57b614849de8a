SPECIFICATION CatSpec
CONSTANTS
    Slugs = {d1, d2}
    Folders = {f1, f2}
    Names = {n1}
    Paths <- Grid
    NoFolder = NoFolder
    Operations = {"relocate", "trash", "trash folder"}
    Bodies = {empty, b1}
    EmptyBody = empty
    UserBodies = {b1}
    NoSlug = NoSlug
    NoPath = NoPath
    Missing = Missing
    MoveScope = "any"
    ReadFaults = TRUE
    MaxGen = 2
    MaxJobs = 1
    MaxFails = 0
PROPERTY MarksAccountedFor
INVARIANT CatalogMatchesDisk
SYMMETRY CatalogSymmetry
CHECK_DEADLOCK FALSE
