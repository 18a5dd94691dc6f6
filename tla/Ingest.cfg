SPECIFICATION IngestSpec
CONSTANTS
  SlabSize = 4
  MaxSlabs = 4
  HeaderSize = 1
  MessageSizes = {1, 2, 4}
  OffsetRange = 256
  WordBits = 4
  MaxRolls = 5
  QueueSlots = 2
INVARIANTS WithinTheMapping RingOfMaxSlabs IntactUntilReused
CHECK_DEADLOCK FALSE
