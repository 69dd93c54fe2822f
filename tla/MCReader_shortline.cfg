CONSTANTS
  Base = 0
  Capacity = 41
  W = 32
  Vectors = {32, 64}
  Streams <- EmptyThenLong
  Lengths = {}
  ReceiveSizes = {1, 40, 41}
  MaxInterrupts = 0
SPECIFICATION FairSpec
INVARIANTS
  DeliveredInOrder
