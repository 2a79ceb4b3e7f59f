\* One create request with any references and a fault; every input of the pure parts.
CONSTANTS
    Requests = {q1}
    NoCluster = NoCluster
    Demands <- AnyDemands
    MaxFaults = 1
SPECIFICATION RequestsSpec
INVARIANTS DecisionsSound StoreSound  
PROPERTIES ClusterSettles
CHECK_DEADLOCK FALSE
