SPECIFICATION Spec
CONSTANTS
  Threads = {a1, a2}
  Coroutines = {c1}
  Owner = a1
  Root = root
  MaxSends = 2
INVARIANT AddedAreAwaited
CHECK_DEADLOCK FALSE
