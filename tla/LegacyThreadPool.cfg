CONSTANTS
  MinThreads = 1
  MaxThreads = 2
  ShrinkStep = 2
  StretchStep = 2
  NumTasks = 3
  Types = {"io", "audio"}
  NoTask = 0
SPECIFICATION Spec
INVARIANTS
  RunOnce
  NotStranded
  StopRunsAll
PROPERTIES
  CallsReturn
  TasksRun
CHECK_DEADLOCK FALSE
