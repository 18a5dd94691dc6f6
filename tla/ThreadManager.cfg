SPECIFICATION FairSpec
CONSTANTS
  Capacity = 4
  MaxLogs = 6
  Levels = {"Other"}
  Profiles = {"DropAll"}
  SpinLimit = 1
  MaxClients = 1
INVARIANTS NoLostWakeup FinishedQueueIsQuiet QueuesOutliveUsers
PROPERTIES ImplementsFifo EventuallyDelivered StopGetsOn
CHECK_DEADLOCK FALSE
