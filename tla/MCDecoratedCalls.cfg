SPECIFICATION Spec
CHECK_DEADLOCK FALSE
CONSTANTS
  main = main
  task = task
  pool = pool
  t1 = t1
  none = none
  Workers <- MCWorkers
  Tasks <- MCTasks
  Main = main
  Traces = {t1}
  NoTrace = none
  Settings <- MCSettings
  MaxDepth = 5
  MaxCalls = 2
  MaxJobs = 1
  MaxSets = 2
INVARIANTS
  TypeOK
  RecordsNest
  RendersUserFrames
  TaskTraces
  SampledWhole
