CONSTANTS
  OffsetModulus = 16
  SignedMax = 131071
  UnsignedMax = 262143
  HexDigits = 5
  Precision = 8
  Places = 9
  FractionMax = 3
  Kilo = 128
  Milli = 12
  MsPerSec = 3
  NsPerMs = 2
  NsMax = 13
  SecMax = 20
  CountMax = 41
  FirstIso <- MCFirstIso
  LastIso = 10
  CalendarMax = 15
  Zone = 2
  BufferSize = 24
  VectorBytes = 4
  PageBytes = 32
  StreamLog = 4
  Calls <- Base32Encodes
SPECIFICATION ConversionSpec
INVARIANTS
  Base32RoundTrip
CHECK_DEADLOCK FALSE
