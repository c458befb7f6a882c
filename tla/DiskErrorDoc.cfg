SPECIFICATION ErrorsSpec
CONSTANTS
  Reasons = {"r1", "r2"}
INVARIANTS DiskErrorAsDocumented
