SPECIFICATION Spec
CONSTANTS
  Entry = {e1, e2}
  Worker = {w1}
  BufferSize = 2
  BatchSize = 2
  Poison = {e2}
  PGFails = FALSE
INVARIANT ApprovedLogged
CHECK_DEADLOCK FALSE
