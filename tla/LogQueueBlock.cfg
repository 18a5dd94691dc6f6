SPECIFICATION Spec
CONSTANTS
  Capacity = 4
  MaxLogs = 6
  Levels = {"Other"}
  Profiles = {"Block"}
INVARIANT BlockNeverLaps
