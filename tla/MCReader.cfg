CONSTANTS
  Base = 1
  Capacity = 3
  W = 32
  Vectors = {32}
  Streams <- ShortStreams
  Lengths = {0, 1, 4}
  ReceiveSizes = {1, 2, 3}
  MaxInterrupts = 1
SPECIFICATION FairSpec
INVARIANTS
  BufferHoldsTheRest
PROPERTIES
  ImplementsInput
  OnlyLongLinesRefused
  CallsReturn
