CONSTANTS
  B = 4
  L = 2
  CellBits = 4
  Lengths = {0, 1, 2, 3, 9}
  MaxMessage = 11
SPECIFICATION Spec
INVARIANTS
  DigestIsOfMessage
