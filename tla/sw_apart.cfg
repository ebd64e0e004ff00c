SPECIFICATION DistinctSpec
CONSTANTS
  g1 = g1
  g2 = g2
  Gateway = {g1, g2}
  Call = {c1, c2}
  Quota <- OneInThree
  MinWindow = 3
  MaxLimit = 1
  SubTick = {s1}
  MaxSkew = 1
  ClockError <- TickApart
  MaxDelay = 0
  MaxTime = 6
  MaxCrashes = 0
  NoArgs = NoArgs
SYMMETRY CallSymmetry
INVARIANTS ExactBound

CHECK_DEADLOCK FALSE
