SPECIFICATION DistinctSpec
CONSTANTS
  g1 = g1
  g2 = g2
  Gateway = {g1, g2}
  Call = {c1, c2, c3}
  Quota <- Changing
  MinWindow = 4
  MaxLimit = 2
  SubTick = {s1}
  MaxSkew = 1
  ClockError <- LooseClocks
  MaxDelay = 1
  MaxTime = 7
  MaxCrashes = 0
  NoArgs = NoArgs
SYMMETRY FullSymmetry
INVARIANTS WindowBound
CHECK_DEADLOCK FALSE
