SPECIFICATION Spec
CONSTANTS
  Request = {r1, r2}
  Checker = {k1}
  MaxFailures = 1
  Lossy = FALSE
  Row = 1
  Default = 2
  NoBucket = NoBucket
INVARIANT AccessLogged
CHECK_DEADLOCK FALSE
