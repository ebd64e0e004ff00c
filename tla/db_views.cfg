SPECIFICATION Spec
CONSTANTS
  c1 = c1
  c2 = c2
  r2 = r2
  r3 = r3
  Row = {r1, r2, r3}
  Client = {c1, c2}
  ClientOf <- Owner
  IsAllowed <- Passed
  StampOf <- MadeAt
  All = All
  View = {"live"}
  Slot = {k1, k2}
  Minute = 2
  Minutes = 1
  Day = 3
  Days = 1
  MaxTime = 5
INVARIANTS TypeOK ViewsAgree WholeMinutes
PROPERTY Repairs
CHECK_DEADLOCK FALSE
