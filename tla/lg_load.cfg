SPECIFICATION Spec
CONSTANTS
  MaxWorkers = 2
  TotalFlag <- TotalFlags
  WorkerFlag <- WorkerFlags
  Latency = {1, 2}
INVARIANTS TypeOK CountersAddUp PercentilesMean
PROPERTY Finishes
CHECK_DEADLOCK FALSE
