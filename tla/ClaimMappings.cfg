CONSTANTS
  Top = 4
  SnapshotKinds = {"rw", "file"}
  CurrentKinds = {"rw", "file"}
SPECIFICATION Spec
INVARIANT NewAreasUnmapped
CHECK_DEADLOCK FALSE
