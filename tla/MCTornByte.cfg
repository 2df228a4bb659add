\* A torn byte the file does not take.
CONSTANTS
  Setups <- MCTear
  MaxChunk = 2
  MaxCalls = 3
  MaxWrites = 4
  MaxOpens = 1
  UsizeMax = 7
  Bucket <- MCBucket
SPECIFICATION Spec
CHECK_DEADLOCK FALSE
PROPERTIES
  PartialWriteEmitsOneByte
