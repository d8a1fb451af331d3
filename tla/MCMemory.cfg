SPECIFICATION MemorySpec
CONSTANTS
  PAGE_SIZE = 2
  MAX_PAGES = 6
  KernelEnd = 1
  Fallback = 9
  MemoryMaps <- Maps
INVARIANTS
  Accounting
  OwnersKeepTheirs
  MapsStayGood
  FramesReturned
  ProgramSeesItsOwn
  WaitTellsTruth
  ValidBufferIsMapped
PROPERTIES
  FirstFitOrNothing
