SPECIFICATION WatchSpec
CONSTANTS
    Keys = {k1, k2, k3}
    Owned = {k1, k2}
    MaxXid = 4
    MaxPending = 1
INVARIANTS IInv DeliveryLatency
PROPERTIES CacheNeverRegresses WatchSettles
CHECK_DEADLOCK FALSE
