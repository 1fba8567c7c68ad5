SPECIFICATION FairSpec
CONSTANTS
  MaxInt = 65535
  Pools = {"p", "q"}
  PoolVersions <- VersionsOf
  AllocKeys = {"u", "z"}
  Objects <- ObjectOf
  MaxAttempts = 2
  MaxChanges = 2
  MaxEdits = 2
  MaxFaults = 1
  None = None
INVARIANT
  TypeOK
PROPERTIES
  StatusIsSnapshot
  StatusConverges
CHECK_DEADLOCK FALSE
