SPECIFICATION FairSpec
CONSTANTS
  TOTAL_SECTORS = 9
  DATA_START = 5
  MAX_INODES = 4
  INODES_PER_SECTOR = 2
  SECTOR_SIZE = 1
  MAX_FILE_SIZE = 3
  READ_BUFFER_SIZE = 2
  Names = {"a", "b"}
  LongNames = {}
  Paths <- TwoPaths
  Buffers <- FlatBuffers
  Sizes = {1, 2}
  InitCount = 2
  InitInodes <- FlatInodes
  InitData <- FlatData
  MaxOps = 2
  MaxCrashes = 1
  MaxErrors = 2
INVARIANTS
  MemoryClean
PROPERTIES
  MarkerCoversChanges
  EveryCallReturns
CHECK_DEADLOCK FALSE
