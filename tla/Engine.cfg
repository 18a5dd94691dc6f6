SPECIFICATION EngineSpec
CONSTANTS
  Channels = {0, 1}
  ControlSize = 2
  DwordRange = 16
  Files <- MCFiles
  MegaByte = 4
  MinRam = 2
  DefaultSlabs = 3
  EntrySize = 3
  SizeBits = 8
  SizeRange = 256
  Contexts = 2
  MaxStarts = 2
INVARIANTS NoHandleLeft ControlBlocksReady ChannelLossHasCause RingsAreSound SoundConfigSurvives
CHECK_DEADLOCK FALSE
