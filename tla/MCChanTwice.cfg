SPECIFICATION Spec
CONSTANTS
  Callers = {a, b, c}
  Capacity = 1
  MaxSends = 3
INVARIANT AtMostOnce
SYMMETRY Symmetry
CHECK_DEADLOCK FALSE
