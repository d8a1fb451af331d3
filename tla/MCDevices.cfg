SPECIFICATION DevicesSpec
CONSTANTS
  Sectors = {s1, s2, s3}
  Contents = {z, a}
  Zero = z
  CACHE_SLOTS = 2
  NoSector = none
INVARIANTS
  ResultIsCurrent
  TrueMeansDone
  NoStuckModifier
  NothingInvented
  ReadsTheTime
PROPERTIES
  ImplementsStore
  ImplementsQueue
  InputSettles
  ReleasesAreReported
