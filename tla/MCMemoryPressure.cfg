\* A stride of 4 bytes and a six-bit usize; the caller may keep the guard for
\* good.
CONSTANTS
  UsizeMax = 63
  STRIDE = 4
  Kib = 3
  PageSizes = {4, 8}
  Addresses = {0, 1, 2, 3, 5, 16}
  Sizes = {0, 1, 3, 4, 5, 8, 9, 31, 63}
SPECIFICATION Spec
CHECK_DEADLOCK FALSE
INVARIANTS
  WritesInBounds
  HoldsWhatWasAsked
  AllButLastPageResident
