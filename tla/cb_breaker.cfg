SPECIFICATION BusySpec
CONSTANTS
  Request = {r1, r2, r3}
  Checker = {k1, k2}
  MaxFailures = 2
  Lossy = FALSE
INVARIANTS TypeOK OneGuardian ThresholdActed
PROPERTIES RisesAfterPing Recovers Opens
