SPECIFICATION ServerSpec
CONSTANTS
  ThreadNum = 1
  MaxAccepts = 5
INVARIANT QueueExists
CHECK_DEADLOCK FALSE
