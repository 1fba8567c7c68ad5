SPECIFICATION FairSpec
CONSTANTS
  Workers = {w1, w2}
  Namespaces = {n1}
  PodKeys <- SamePods
  Pools <- OnePool
  Annotations <- GoneAnnotation
  Declared <- DeclaredPort
  MaxPods = 1
  AllocatorWired = TRUE
  AllocationsNamespaced = FALSE
  CachedReads = FALSE
  AnnotationsChange = TRUE
  OtherFinalizer = FALSE
  MaxFaults = 0
  MaxCrashes = 0
  None = None
PROPERTIES
  DeletionCompletes
CHECK_DEADLOCK FALSE
