SPECIFICATION Spec
CHECK_DEADLOCK FALSE
CONSTANTS
  Configs <- MCConfigs
  Interval = 2
  DefaultBackups = 2
  DefaultLines = 2
  MaxRecords = 7
  MaxFaults = 2
  MaxTime = 6
INVARIANTS
  TypeOK
  NewestSurvives
  ReadsAsSuffix
  RetainsBackups
