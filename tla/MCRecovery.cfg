\* A suite ends with its report, and the program with it.
CONSTANTS
  Suites <- MCSuites
  UsizeMax = 63
  Bucket <- MCBucket
SPECIFICATION Spec
CHECK_DEADLOCK FALSE
INVARIANTS
  NoFailureUnreported
  ReplaysAgree
  FailsByProbability
  BoundedChaosIsSurvived
  VerdictsAreTrue
  SeededRunIsPinned
PROPERTIES
  ReportIsFinished
