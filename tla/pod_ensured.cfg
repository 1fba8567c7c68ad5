SPECIFICATION FairSpec
CONSTANTS
  Workers = {w1}
  Namespaces = {n1}
  PodKeys <- SamePods
  Pools <- TwoPools
  Annotations <- GoodAndBad
  Declared <- DeclaredPort
  MaxPods = 2
  AllocatorWired = TRUE
  AllocationsNamespaced = FALSE
  CachedReads = TRUE
  AnnotationsChange = TRUE
  OtherFinalizer = FALSE
  MaxFaults = 1
  MaxCrashes = 1
  None = None
PROPERTIES
  PortsEnsured
  FinalizerEnsured
  DeletionCompletes
CHECK_DEADLOCK FALSE
