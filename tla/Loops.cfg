SPECIFICATION LoopsSpec
CONSTANTS
  Accounts = {"a", "x"}
  Exempt = {"x"}
  Routes = {"list", "create"}
  Interval <- MCInterval
  Burst <- MCBurst
  MaxTime = 7
  TTL = 7
  RenewBefore = 4
  RequeueInterval = 2
  RetryDelay = 1
  Ids = {i1, i2}
  MaxCallFaults = 3
  MaxFaults = 1
  MCs = {"mc1", "testmc"}
  TestMCs = {"testmc"}
  Docs = {"d1", "d2"}
  Capacity = 1
  MaxRestarts = 1
  Replicas = {p1, p2}
  ManagementClusters = {"mc1"}
  Bundle = {"platform"}
  Platform = "platform"
  MaxStarts = 1
  Runnables = {"c1", "c2"}
  EarlyKinds = {"k0"}
INVARIANTS RateBounded CoverLost  ApiSafe ManagerSafe
PROPERTIES Graceful 
CHECK_DEADLOCK FALSE
