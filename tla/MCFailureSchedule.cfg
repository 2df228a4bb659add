\* Three threads, four calls in any interleaving, every kind of schedule.  No
\* symmetry, because of the fairness.
CONSTANTS
  Threads = {t1, t2, t3}
  Attempts = {0, 1}
  Schedules <- MCSchedules
  MaxCalls = 4
  UsizeMax = 7
  Bucket <- MCBucket
SPECIFICATION FairSpec
INVARIANTS
  TypeOK
  EmissionAccounting
  NeverMoreThanLimit
  QuiescentCountsExact
  FailuresFollowSchedule
  OwnFailuresObserved
PROPERTIES
  ObservedCountNeverDecreases
  ImplementsBudget
