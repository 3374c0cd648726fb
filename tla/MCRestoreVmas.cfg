CONSTANTS
  Top = 4
  SnapshotKinds = {"rw", "file"}
  CurrentKinds = {"rw", "rwx", "file"}
SPECIFICATION Spec
INVARIANTS TypeOK MappingsRestored OnlyTowardsSnapshot FlagsHold IteratorLive
PROPERTY Terminates
CHECK_DEADLOCK FALSE
