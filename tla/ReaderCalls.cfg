\* Three calls of up to four queries on two threads; one facade of each family.
SPECIFICATION PartsSpec
CONSTANTS
  PageSize = 4096
  MaxI64 = 100
  MinExactRerank = 64
  MinGraphList = 200
  SmallWindow = 16384
  None = None
  Threads = 2
  ChunkSize = 3
  PerWorker = 1
  PreloadsAll = TRUE
  VectorCount = 4000
  Degree = 3
  WindowBytes = 65536
  MaxQueries = 4
  MaxCalls = 3
  LSearch = 400
  Filters <- MCFilters
  Unset = Unset
  Auto = Auto
  Malformed = Malformed
  VectorsPerList = 64
  ListFraction = 16
  MinNprobe = 2
  CandidatesPerResult = 1
  RotationBlock = 64
  MaxRows = 3
  MaxRounds = 3
CHECK_DEADLOCK FALSE
INVARIANTS
  BatchesAreExact
  FacadeIsHonest
  
