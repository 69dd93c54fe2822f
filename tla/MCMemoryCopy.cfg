CONSTANTS
  Size = 60
  W = 2
  Vectors = {2, 4}
  Requests <- MCRequests
  CacheThreshold = 16
  AutoThreshold = 12
SPECIFICATION Spec
INVARIANTS
  CopiedExactly
  NothingOutside
  FencedOnReturn
PROPERTIES
  AlignedStores
CHECK_DEADLOCK FALSE
