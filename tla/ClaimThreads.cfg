CONSTANTS
  ThreadList <- List
  Tsk = "second"
  Processes <- Shapes
  MaxFds = 2
  Files = {"pipe", "log", "disk"}
  Unseekable = {"pipe"}
  Fickle = {"disk"}
  MaxPos = 1
  Tables = {"t1", "t2", "t3", "t4"}
  NULL = "NULL"
SPECIFICATION Spec
INVARIANT CallerSurvives
CHECK_DEADLOCK FALSE
