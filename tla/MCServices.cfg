SPECIFICATION ServicesSpec
CONSTANTS
  Timers = {t1, t2}
  MaxTime = 5
  BusyWait = 1
  EarlyWake = 2
  EarlyLong = 3
  Callers = {a1}
  MaxWorkers = 3
  MaxLoad = 2
  Threads = {a1, a2}
  Coroutines = {c1}
  Owner = a1
  Root = root
  MaxSends = 2
  Schedulers = {s1, s2}
  Users = {u1, u2}
  Main = u1
  TimerThread = timer
  WorkerThread = worker
  PoolSize = 1
  None = None
  Allocating = {s1, timer, u2}
  MaxCycles = 2
INVARIANTS
  ResumedOnce NoOversleep
  ChosenIsLightest IndexInRange TakenAreAwaited RegisteredFollow CachesOutliveThreads
PROPERTIES ImplementsAlarms EveryTimerEnds ScopeEnds TeardownReturns
CHECK_DEADLOCK FALSE
