SPECIFICATION ParsersSpec
CONSTANTS
  Lines <- MCLines
  Places = {0, 9}
  PageSize = 16
  VectorWidth = 8
  SimdSize = 8
  TimeRange = 64
  IdRange = 12
  Window = 1
  MaxLag = 1
  Libraries = {"scan", "abort"}
  FirstTime = 2
  LastTime = 4
INVARIANTS SameHeader MessageComplete PushedIsValid CurrentLogsAccepted
CHECK_DEADLOCK FALSE
