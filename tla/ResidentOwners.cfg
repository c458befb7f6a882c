SPECIFICATION Spec
CONSTANTS
  i1 = i1  i2 = i2  b1 = b1  b2 = b2
  Iocbs = {i1, i2}
  Free = Free
  Bytes = {b1}
  Content <- ContentOne
  CacheSize = 1
  MaxSessions = 2
  MaxPuts = 1
  MaxResets = 0
SYMMETRY Symmetry
INVARIANTS OwnersApart ToldIsTrue
CHECK_DEADLOCK FALSE
