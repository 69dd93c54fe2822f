CONSTANTS
  W = 3
  Bytes = {"nl", "a", "b", "blank", "C2", "A0", "E3", "80"}
  Vectors = 2
  LaneMax = 3
  Targets = {"nl"}
  ByteTexts <- MCByteTexts
  Newline = "nl"
  Patterns <- MCPatterns
  LineTexts <- MCLineTexts
  Space = "blank"
  WideSpaces <- MCWideSpaces
  WordTexts <- MCWordTexts
SPECIFICATION Spec
INVARIANTS
  EveryHitCounted
  LinesCounted
  WordsCounted
CHECK_DEADLOCK FALSE
