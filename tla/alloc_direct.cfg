SPECIFICATION Spec
CONSTANTS
  MaxInt = 65535
  Workers = {w1, w2}
  Process <- OneManager
  Requests <- ClusterRequests
  Pools <- OnePool
  LBs <- TwoLBs
  PoolSpecs <- EditedSpecs
  Strategy = "round-robin"
  MaxAttempts = 2
  PoolNamespace = ""
  AllocationsNamespaced = FALSE
  CachedReads = FALSE
  OtherFinalizers = TRUE
  MaxFaults = 1
  MaxEnv = 2
  MaxLag = 1
  None = None
SYMMETRY Symmetry
INVARIANTS
  TypeOK
  NoPortConflictInPool
  BindingsFromOneSpec
  IInv
PROPERTIES
  ReleaseOwnOnly
  ImplementsLedger
