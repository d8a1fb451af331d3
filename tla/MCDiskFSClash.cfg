SPECIFICATION Spec
CONSTANTS
  TOTAL_SECTORS = 11
  DATA_START = 6
  MAX_INODES = 6
  INODES_PER_SECTOR = 2
  SECTOR_SIZE = 2
  MAX_FILE_SIZE = 4
  READ_BUFFER_SIZE = 3
  Names = {"a", "b", "d"}
  LongNames = {}
  Paths <- ClashPaths
  Buffers <- TreeBuffers
  Sizes = {0, 2, 4}
  InitCount = 4
  InitInodes <- TreeInodes
  InitData <- TreeData
  MaxOps = 3
  MaxCrashes = 0
  MaxErrors = 0
PROPERTIES
  WriteReadsBack
CHECK_DEADLOCK FALSE
