SPECIFICATION Spec
CONSTANTS
  MaxInt = 7
  Specs <- SelectionSpecs
  Slots = {1, 2, 3}
  Counts = {1, 2}
  Strategy = "round-robin"
  Prewarms <- PrewarmConfigs
  MaxEdits = 1
INVARIANTS
  TypeOK
  ScanStaysInRange
  SelectedLBServes
  AvailableIsServable
  RoundRobinStarvesNone
  UsageIsExact
CHECK_DEADLOCK FALSE
