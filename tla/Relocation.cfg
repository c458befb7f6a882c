SPECIFICATION RelocationSpec
CONSTANTS
  ByteSize = 8
  TextSize = 4
  DataSize = 14
  Base = 29
  Zp = 2
  Values = {3, 7, 20}
  MaxOperands = 2
INVARIANTS RelocatesAsLinked
CHECK_DEADLOCK FALSE
