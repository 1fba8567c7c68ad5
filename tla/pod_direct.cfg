SPECIFICATION Spec
CONSTANTS
  Workers = {w1, w2}
  Namespaces = {n1, n2}
  PodKeys <- SamePods
  Pools <- TwoPools
  Annotations <- BothItems
  Declared <- DeclaredPort
  MaxPods = 2
  AllocatorWired = TRUE
  AllocationsNamespaced = FALSE
  CachedReads = FALSE
  AnnotationsChange = FALSE
  OtherFinalizer = TRUE
  MaxFaults = 0
  MaxCrashes = 1
  None = None
SYMMETRY Symmetry
INVARIANTS
  TypeOK
PROPERTIES
  FinalizerGuardsPorts
  ReleaseNotNewer
  PortsAsRequested
  LiveKeepsFinalizer
CHECK_DEADLOCK FALSE
