SPECIFICATION FairSpec
CONSTANTS
    Windows = {w1}
    MaxVersion = 2
    MaxWire = 2
    MaxProbes = 2
INVARIANT StateIsTrue
PROPERTIES SafeRestart UpdateLands
CHECK_DEADLOCK FALSE
