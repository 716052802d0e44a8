SPECIFICATION Spec
CHECK_DEADLOCK FALSE
CONSTANTS
  Configs <- MCConfigs
  Interval = 2
  DefaultBackups = 2
  DefaultLines = 2
  MaxRecords = 7
  MaxFaults = 0
  MaxTime = 6
INVARIANT BackupsRetained
