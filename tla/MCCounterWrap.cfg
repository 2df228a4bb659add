\* A two-bit usize: the fifth firing call finds the counter back at zero.
CONSTANTS
  Threads = {t1, t2}
  Attempts = {1}
  Schedules <- MCAlways
  MaxCalls = 6
  UsizeMax = 3
  Bucket <- MCBucket
SPECIFICATION Spec
INVARIANTS
  NeverMoreThanLimit
