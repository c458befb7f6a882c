SPECIFICATION Spec
CONSTANTS
  Lengths <- EchoLengths
  MaxRounds = 4
  MaxBytes = 4
  MaxBusy = 3
  Fallback = 3
  MaxEdges = 4
  Quiet = 3
INVARIANT EchoTrue
PROPERTIES DataArrives CountsShown
CHECK_DEADLOCK FALSE
