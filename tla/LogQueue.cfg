SPECIFICATION Spec
CONSTANTS
  Capacity = 8
  MaxLogs = 8
  Levels = {"Critical", "Other"}
  Profiles = {"Block", "DropAll", "DropNonCritical", "PassCriticalDropElse"}
INVARIANTS TypeOK FifoUntilLapped NoSlotRace DropAllNeverLaps NoUnallocatedAccess RefusalsJustified
