\* A torn byte under the crash point.
CONSTANTS
  Setups <- MCCrashOverTear
  MaxChunk = 2
  MaxCalls = 3
  MaxWrites = 4
  MaxOpens = 1
  UsizeMax = 7
  Bucket <- MCBucket
SPECIFICATION Spec
CHECK_DEADLOCK FALSE
INVARIANTS
  AtMostAfterBytes
