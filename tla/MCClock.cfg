\* Two threads, three writes; 5 does not fit the offset, 9 is twice too big.
\* No symmetry, because of the fairness.
CONSTANTS
  Threads = {t1, t2}
  I64Max = 3
  Durations = {1, 2, 5, 9}
  Skews <- MCSkews
  MaxWrites = 3
SPECIFICATION FairSpec
INVARIANTS
  TypeOK
  OwnAdvancesVisible
PROPERTIES
  AdvanceNeverMovesBack
  ImplementsAtomicClock
  SkewByReturns
