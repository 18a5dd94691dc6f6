SPECIFICATION TelemetrySpec
CONSTANTS
  ThreadNum = 2
  MaxAccepts = 5
  Capacity = 2
  MaxLogs = 2
INVARIANTS OneThreadPerQueue NothingRunsAfterStop TelemetryAgrees 
PROPERTIES AcceptLoopGoesOn StopWaitsForClientsOnly
CHECK_DEADLOCK FALSE
