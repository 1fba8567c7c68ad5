SPECIFICATION Spec
CONSTANTS
  MaxInt = 65535
  Workers = {w1, w2}
  Process <- TwoManagers
  Requests <- FourRequests
  Pools <- OnePool
  LBs <- OneLB
  PoolSpecs <- OnePortSpec
  Strategy = "weighted"
  MaxAttempts = 2
  PoolNamespace = "default"
  AllocationsNamespaced = TRUE
  CachedReads = TRUE
  OtherFinalizers = FALSE
  MaxFaults = 0
  MaxEnv = 1
  MaxLag = 1
  None = None
SYMMETRY Symmetry
INVARIANTS
  SharersBounded
  ConflictsReported
