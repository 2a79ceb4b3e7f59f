SPECIFICATION FairSpec
CONSTANTS
    a = a
    b = b
    Names = {a, b}
    Prefixes = {1, 2}
    Pods = {1, 2}
    Owners <- MCOwners
    MaxUID = 2
    Attempts = 2
    MaxFaults = 1
INVARIANTS DomainsConsistent
PROPERTIES DomainStable Settles
CHECK_DEADLOCK FALSE
