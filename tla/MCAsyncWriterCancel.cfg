\* One write is dropped while pending.
CONSTANTS
  Schedules <- MCPassing
  MaxBuf = 2
  MaxOps = 3
  MaxCancels = 1
  UsizeMax = 7
  Bucket <- MCBucket
SPECIFICATION Spec
CHECK_DEADLOCK FALSE
INVARIANTS
  AttemptIsOneOperation
