SPECIFICATION Spec
CONSTANTS
  MaxInt = 65535
  Workers = {w1, w2}
  Process <- OneManager
  Requests <- UnitRequests
  Pools <- OnePool
  LBs <- OneLB
  PoolSpecs <- TwoPortSpec
  Strategy = "round-robin"
  MaxAttempts = 2
  PoolNamespace = "default"
  AllocationsNamespaced = TRUE
  CachedReads = TRUE
  OtherFinalizers = FALSE
  MaxFaults = 0
  MaxEnv = 0
  MaxLag = 2
  None = None
INVARIANT
  NoPortConflictInPool
