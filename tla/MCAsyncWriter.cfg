\* Any write may be dropped while pending; the task may stop starting
\* operations, and come to rest.
CONSTANTS
  Schedules <- MCSchedules
  MaxBuf = 2
  MaxOps = 4
  MaxCancels = 2
  UsizeMax = 7
  Bucket <- MCBucket
SPECIFICATION FairSpec
CHECK_DEADLOCK FALSE
INVARIANTS
  SinkReconstructable
  InjectedFailuresSurface
PROPERTIES
  ImplementsSyncWriter
