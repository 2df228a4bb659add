\* The caller may stop, so it may come to rest.
CONSTANTS
  NanosPerSec = 10
  U32Max = 3
  U64Max = 7
  U128Max = 127
  Profiles <- MCProfiles
  Schedules <- MCSchedules
  MaxAttempt = 5
  MaxCalls = 2
  UsizeMax = 7
  Bucket <- MCBucket
SPECIFICATION LatencySpec
CHECK_DEADLOCK FALSE
INVARIANTS
  RampIsExact
  StepsFollowThresholds
