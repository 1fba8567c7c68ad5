SPECIFICATION Spec
CONSTANTS
  Workers = {w1, w2}
  Namespaces = {n1}
  PodKeys <- SamePods
  Pools <- OnePool
  Annotations <- OneItem
  Declared <- DeclaredPort
  MaxPods = 1
  AllocatorWired = TRUE
  AllocationsNamespaced = FALSE
  CachedReads = FALSE
  AnnotationsChange = FALSE
  OtherFinalizer = FALSE
  MaxFaults = 0
  MaxCrashes = 0
  None = None
INVARIANTS
  NoLeak
CHECK_DEADLOCK FALSE
