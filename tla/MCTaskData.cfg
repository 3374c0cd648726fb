CONSTANTS
  Tasks = {t1, t2}
  NCpus = 2
  Datas = {d1, d2}
  NULL = NULL
SPECIFICATION Spec
INVARIANTS TypeOK HookUsesOwnData HookFindsSnapshot CacheNotDangling OneDataPerTask
CHECK_DEADLOCK FALSE
