SPECIFICATION Spec
CONSTANTS
  i1 = i1  i2 = i2  b1 = b1  b2 = b2
  Iocbs = {i1}
  Free = Free
  Bytes = {b1, b2}
  Content <- ContentThree
  CacheSize = 2
  MaxSessions = 1
  MaxPuts = 3
  MaxResets = 1
INVARIANTS TypeOK WriteContinues CommitIsFinal ToldIsTrue ReadInOrder
PROPERTIES FaultSilences CallsReturn KeepsStreams
CHECK_DEADLOCK FALSE
