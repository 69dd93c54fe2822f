CONSTANTS
  Counts = {0, 1, 2, 5, 6}
  Keys = {1, 2, 3}
  Comparisons = {"honest", "arbitrary"}
  Threshold = 2
  DepthFactors = {0, 1, 2}
SPECIFICATION FairSpec
INVARIANTS
  SortedPermutation
  ShallowStack
PROPERTIES
  InsideFrame
  Terminates
CHECK_DEADLOCK FALSE
