SPECIFICATION Spec
CONSTANTS
  Threads = {a1, a2}
  Coroutines = {c1}
  Owner = c1
  Root = root
  MaxSends = 2
INVARIANT ScopeServesCoroutines
CHECK_DEADLOCK FALSE
