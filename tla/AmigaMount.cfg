SPECIFICATION Spec
CONSTANTS
  Types = {"dd", "hd"}
  Copies = {1, 2}
  BootType = "dd"
  MaxPolls = 2
INVARIANTS TypeOK GeometryMatches InhibitBalanced SuccessIsTrue
PROPERTIES EjectsUnused CommandsEnd
CHECK_DEADLOCK FALSE
