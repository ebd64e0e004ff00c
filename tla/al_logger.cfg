SPECIFICATION FairSpec
CONSTANTS
  Entry = {e1, e2, e3}
  Worker = {w1, w2}
  BufferSize = 2
  BatchSize = 2
  Poison = {}
  PGFails = TRUE
INVARIANTS TypeOK Conservation WithinSizes NothingLeftBehind StatsAddUp
PROPERTIES EntriesSettle ShutdownEnds
CHECK_DEADLOCK FALSE
