SPECIFICATION PartsSpec
CONSTANTS
  None = None
  FormatPage = 8
  ByteBits = 2
  RawSize = 2
  BlockNodes = 2
  MaxRelative = 15
  PageSize = 16
  HeaderSize = 12
  SectionHeader = 8
  BufferSize = 20
  MaxDegree = 3
  Shapes <- MCShapes
  GroupBits = 2
  IdBits = 5
  I64Bytes = 2
  I32Bytes = 1
  F32Bytes = 1
  HeaderBytes = 4
  MaxBatchBytes = 21
  StreamSlack = 1
  ListBatch = 24
  ByteChoices = {0, 1, 2, 3, 4, 6, 7}
  BufferLen = 4
  LenChoices = {0, 5, 12, 24, 30}
  MaxLists = 5
  RowChoices = {1, 3, 7}
  MidIds = {0, 6}
  MaxMid = 4
  PackedKsub = 2
  WideKsub = 4
  Metrics = {0, 1, 2}
INVARIANTS
  WrittenIsReadBack
  AcceptedFilesAreSound
  NoPartialFileLoads
  ListReadsCoverOnce
CHECK_DEADLOCK FALSE
