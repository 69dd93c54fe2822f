CONSTANTS
  t1 = t1
  t2 = t2
  t3 = t3
  avx2 = avx2
  sha = sha
  Threads <- MCThreads
  Fields <- MCFields
SPECIFICATION DetectSpec
INVARIANTS
  NoTornResult
  NoDataRace
PROPERTIES
  WaitFree
