SPECIFICATION Spec
CONSTANTS
  Schedulers = {s1, s2}
  Coros = {c1, c2, c3}
  Threads = {t1}
  NULL = NULL
SYMMETRY Symmetry
INVARIANTS
  TypeOK
  Consistent
  OnePlace
  NoLostWakeup
  BatchCovered
  CountSeesWork
  JoinPending
  LossNeedsHalt
PROPERTIES
  BatchIsFixed
CHECK_DEADLOCK FALSE
