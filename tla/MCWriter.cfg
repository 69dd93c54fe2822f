CONSTANTS
  Modes = {"fd", "memory"}
  Capacities = {0, 1, 2, 3}
  Lengths = {0, 1, 2, 4}
  Widths = {3}
  SizeModulus = 16
  MaxIssued = 8
  MaxInterrupts = 2
SPECIFICATION FairSpec
INVARIANTS
  NoSilentLoss
  TrueMeansDelivered
  MemoryIsPrefix
  WholeField
PROPERTIES
  ErrorIsFinal
  CallsReturn
  ImplementsStream
