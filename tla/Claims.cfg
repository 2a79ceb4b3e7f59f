\* Two requests for one reservation and one config, and a fault; two requests
\* and three Clusters for one queue.
CONSTANTS
    Requests = {q1, q2}
    NoCluster = NoCluster
    Demands <- Rivals
    MaxFaults = 1
    Clusters = {a, b, c}
    NoOwner = NoOwner
    Callers = {r1, r2}
    Attempts = 2
SPECIFICATION ClaimsSpec
SYMMETRY Interchangeable
INVARIANTS ClaimsConsistent SpotClaimHeld
PROPERTIES AcceptedStays
CHECK_DEADLOCK FALSE
