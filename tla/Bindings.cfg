SPECIFICATION PartsSpec
CONSTANTS
  Threads = {t1, t2}
  Clients = {t1, t2, t3}
  Workers = {w1, w2}
  Handles = {Reader, Writer}
  Tracked = {Reader}
  MayUse <- MCMayUse
  Reads = 2
  Calls = 2
  Trainers = 2
  OneThread = {t1}
  ThreeThreads = {t1, t2, t3}
  Reader = Reader
  Writer = Writer
  None = None
  Garbage = Garbage
  DefaultBytes = 9
  Dimension = 2
  MaxBytes = 127
  Ranges = {0, 1, 2, 3, 4, 5}
  ChunkRanges = 2
  Pieces = 3
  PieceBytes = 2
  Records = 2
  Methods = 2
INVARIANTS
  HandlesAreSafe
  CallsTellTheTruth
PROPERTY
  CallsEnd
