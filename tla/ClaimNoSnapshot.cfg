CONSTANTS
  PageSize = 2
  NPages = 5
  StartPage = 1
  Breaks = {2, 4, 6, 8}
SPECIFICATION Spec
PROPERTY NoSnapshotNoRestore
CHECK_DEADLOCK FALSE
