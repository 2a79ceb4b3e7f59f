SPECIFICATION ClustersSpec
CONSTANTS
    MaxUID = 2
    MCs = {m1, m2}
    NoMC = NoMC
    Pools = {np1}
    MaxPools = 1
    MaxFaults = 1
    Docs = {d1, d2}
    Contents = {a, b}
    NoContent = NoContent
    MaxEdits = 1
    Quiet = TRUE
INVARIANTS NothingAstray NothingLeftBehind
PROPERTIES PlacementLast  
CHECK_DEADLOCK FALSE
