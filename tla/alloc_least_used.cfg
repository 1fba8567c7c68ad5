SPECIFICATION FairSpec
CONSTANTS
  MaxInt = 65535
  Workers = {w1, w2}
  Process <- OneManager
  Requests <- TwoPoolRequests
  Pools <- TwoPools
  LBs <- TwoLBs
  PoolSpecs <- BalancedSpecs
  Strategy = "least-used"
  MaxAttempts = 2
  PoolNamespace = "default"
  AllocationsNamespaced = TRUE
  CachedReads = FALSE
  OtherFinalizers = FALSE
  MaxFaults = 2
  MaxEnv = 0
  MaxLag = 1
  None = None
PROPERTIES
  ReleaseOwnOnly
  GrantToLeastUsed
  CallReturns
