SPECIFICATION FairSpec
CONSTANTS
    a = a
    b = b
    Names = {a, b}
    Urls = {u}
    Pods = {1, 2}
    Owners <- MCOwners
    MaxUID = 2
    MaxFaults = 1
INVARIANTS ConfigsConsistent
PROPERTIES Settles
CHECK_DEADLOCK FALSE
