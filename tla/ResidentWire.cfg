SPECIFICATION Spec
CONSTANTS
  MaxRequests = 3
  MaxPolls = 3
  MaxResets = 1
INVARIANTS TypeOK OwnReply AtMostOnce ClearMeansEmpty
PROPERTIES ExchangeEnds KeepsPromise
CHECK_DEADLOCK FALSE
