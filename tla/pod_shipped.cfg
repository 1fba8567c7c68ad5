SPECIFICATION FairSpec
CONSTANTS
  Workers = {w1, w2}
  Namespaces = {n1}
  PodKeys <- SamePods
  Pools <- OnePool
  Annotations <- OneItem
  Declared <- DeclaredPort
  MaxPods = 1
  AllocatorWired = FALSE
  AllocationsNamespaced = TRUE
  CachedReads = TRUE
  AnnotationsChange = FALSE
  OtherFinalizer = FALSE
  MaxFaults = 0
  MaxCrashes = 0
  None = None
PROPERTIES
  PortsEnsured
CHECK_DEADLOCK FALSE
