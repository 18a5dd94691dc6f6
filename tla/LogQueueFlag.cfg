SPECIFICATION Spec
CONSTANTS
  Capacity = 8
  MaxLogs = 8
  Levels = {"Other"}
  Profiles = {"DropAll"}
PROPERTY FlagFallsWhenStable
