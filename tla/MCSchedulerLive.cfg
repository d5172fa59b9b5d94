SPECIFICATION FairSpec
CONSTANTS
  Schedulers = {s1, s2}
  Coros = {c1, c2}
  Threads = {t1}
  NULL = NULL
PROPERTIES
  ImplementsContract
  QueuedRuns
  JoinerResumes
  HaltedReturns
CHECK_DEADLOCK FALSE
