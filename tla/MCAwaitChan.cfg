SPECIFICATION PartSpec
CONSTANTS
  Coroutines = {c1}
  Threads = {t1, t2}
  Resumers = {r1, r2}
  Channel = Channel
  NULL = NULL
  Callers = {a, b, c}
  Capacity = 2
  MaxSends = 4
INVARIANTS
  NoDangling FlagIsFresh NoLostResume
  Typed ResultIsTruth WaitersListed NoIdlePair
PROPERTIES ImplementsOneShot ImplementsFifo
CHECK_DEADLOCK FALSE
