SPECIFICATION DistinctSpec
CONSTANTS
  g1 = g1
  g2 = g2
  Gateway = {g1, g2}
  Call = {c1, c2, c3, c4}
  Quota <- TwoInTwo
  MinWindow = 2
  MaxLimit = 2
  SubTick = {s1}
  MaxSkew = 0
  ClockError <- ExactClocks
  MaxDelay = 0
  MaxTime = 4
  MaxCrashes = 1
  NoArgs = NoArgs
SYMMETRY FullSymmetry
INVARIANTS TypeOK Accounting ProcessMembersDistinct
PROPERTY ImplementsRateLimit
CHECK_DEADLOCK FALSE
