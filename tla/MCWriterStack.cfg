\* Every stack; the client may stop calling, so it may come to rest.
CONSTANTS
  Setups <- MCSetups
  MaxChunk = 2
  MaxCalls = 3
  MaxWrites = 4
  MaxOpens = 1
  UsizeMax = 7
  Bucket <- MCBucket
SPECIFICATION Spec
CHECK_DEADLOCK FALSE
INVARIANTS
  TypeOK
  SinkReconstructable
  WriteAllComplete
  InjectedFailuresSurface
  CrashTruncates
  FlushedBytesSurvive
PROPERTIES
  CrashIsFinal
  InjectedFailureEndsCall
