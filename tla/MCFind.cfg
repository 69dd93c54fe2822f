CONSTANTS
  W = 2
  Vectors = 2
  Half = 1
  Requests <- MCRequests
SPECIFICATION Spec
INVARIANTS
  FirstFound
CHECK_DEADLOCK FALSE
