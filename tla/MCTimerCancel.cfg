SPECIFICATION Spec
CONSTANTS
  Timers = {t1, t2}
  MaxTime = 5
  BusyWait = 1
  EarlyWake = 2
  EarlyLong = 3
INVARIANT CancelReturns
CHECK_DEADLOCK FALSE
