SPECIFICATION FairSpec
CONSTANTS
  Callers = {c1, c2}
  Poppers = {p1, p2}
  Values = {v1}
  MaxLength = 2
  NULL = NULL
PROPERTY ClosedPopReturns
CHECK_DEADLOCK FALSE
