SPECIFICATION SyncSpec
CONSTANTS
    Slugs = {d1}
    Paths = {p1, p2}
    Bodies = {empty, b1}
    EmptyBody = empty
    UserBodies = {b1}
    NoSlug = NoSlug
    NoPath = NoPath
    Missing = Missing
    MoveScope = "none"
    ReadFaults = FALSE
    MaxGen = 2
    MaxFails = 0
    Outside = {"write", "replace", "delete", "create", "move"}
    OutsideBodies = {b1}
    OwnKinds = {"rename"}
    MaxOutside = 2
INVARIANTS ConflictIsOpen EditsKeptUnlessCrossed OwnWritesQuiet
SYMMETRY PathSymmetry
CHECK_DEADLOCK FALSE
