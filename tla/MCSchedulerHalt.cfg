SPECIFICATION Spec
CONSTANTS
  Schedulers = {s1}
  Coros = {c1, c2}
  Threads = {t1}
  NULL = NULL
INVARIANTS
  HaltCompletesScheduled
CHECK_DEADLOCK FALSE
