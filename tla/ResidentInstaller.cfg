SPECIFICATION Spec
CONSTANTS
  HatSlots = 4
  Iocbs = 2
  BufferSize = 3
  BootMemlo = 1
  LoaderStart = 6
INVARIANTS PublishedWorks CallerUntouched OutcomeTrue
PROPERTIES WritesFreeMemory InstallsAtomically
