SPECIFICATION Spec
CONSTANTS
  Items = {a, b, c}
  PageSize = 2
  ChunkSize = 2
  IndexMod = 4
  MaxChanges = 1
INVARIANTS PrintsAll StoresAll
PROPERTIES LoopsEnd
