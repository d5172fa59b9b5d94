SPECIFICATION PartSpec
CONSTANTS
  Coroutines = {c1, c2}
  Workers = {w1, w2, w3}
  CacheSize = 1
  MaxFailures = 1
  NULL = NULL
  Callers = {a1, a2}
  Poppers = {p1}
  Values = {v1, v2}
  MaxLength = 3
  Lists = {l1, l2}
  Nodes = {n1, n2, n3}
  PoolLimit = 1
  Buffers = {b1, b2}
  Sizes = {0, 2, 3}
  t1 = t1
  t2 = t2
  Threads = {t1, t2}
  Blocks = {k1, k2, k3}
  Buckets = 2
  MaxSize = 3
  ByteLimit <- Limits
  Nil = Nil
INVARIANTS OneOwner  MemoryOwned
PROPERTIES ImplementsDelegation CallsReturn SharedListIsQueue AreSequences
CHECK_DEADLOCK FALSE
