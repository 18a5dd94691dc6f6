SPECIFICATION PoolSpec
CONSTANTS
  SlabSize = 2
  MaxSlabs = 10
  HeaderSize = 1
  MessageSizes = {1}
  OffsetRange = 256
  WordBits = 4
  MaxRolls = 3
INVARIANT RingOfMaxSlabs
CHECK_DEADLOCK FALSE
