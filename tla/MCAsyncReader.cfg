\* Any read may be dropped while pending; the task may stop starting
\* operations, and come to rest.
CONSTANTS
  Schedules <- MCSchedules
  MaxBuf = 2
  MaxOps = 6
  MaxCancels = 3
  UsizeMax = 7
  Bucket <- MCBucket
SPECIFICATION FairSpec
CHECK_DEADLOCK FALSE
INVARIANTS
  NoByteLost
  FailuresAreReturned
  DroppedReadsShareAttempts
PROPERTIES
  ImplementsSyncReader
