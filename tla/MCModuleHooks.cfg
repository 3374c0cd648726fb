CONSTANTS
  Tasks = {t1, t2}
  MaxPending = 1
SPECIFICATION Spec
INVARIANTS TypeOK HooksListed IoctlsServed UnloadedClean
PROPERTY LoadEnds
CHECK_DEADLOCK FALSE
