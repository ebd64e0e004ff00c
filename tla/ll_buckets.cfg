SPECIFICATION Spec
CONSTANTS
  Request = {r1, r2, r3}
  Quota <- TwoRows
  MinIdle = 6
  MaxStall = 2
  MaxTime = 12
  None = None
SYMMETRY RequestSymmetry
INVARIANTS TypeOK BucketBound
PROPERTY DeletesUnused
CHECK_DEADLOCK FALSE
