SPECIFICATION StashSpec
CONSTANTS
  Size = 16
  Slack = 5
  MinSpace = 6
  SigBytes = 2
  HeaderBytes = 4
  Shapes <- MCShapes
  MaxMessages = 3
  Sizes = {0, 1, 16}
  Granularity = 2
  DwordRange = 64
  CursorRange = 32
  Word = 2
  MaxReceived = 48
INVARIANTS InStep UnparsedBytesSurvive NoWholeLogWaits DisconnectsJustified ViewIsStream RoomIsFree NoMemoryLost
PROPERTIES LogsAreParsed SessionsEnd
CHECK_DEADLOCK FALSE
