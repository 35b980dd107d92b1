SPECIFICATION PartsSpec
CONSTANTS
  Budgets = {3, 6, 9, 11, 14, 17, 24, 40}
  Layouts <- MCLayouts
  RowIdHeader = 1
  Orders = {1, 3, 6}
  Adjacencies = {2, 6, 14}
  Vectors = {0, 3, 12}
  Tiers = {"local", "remote"}
  PreloadCap <- MCPreloadCap
  PerCacheCap <- MCPerCacheCap
  Alignment = 2
  DecodeBuffer = 2
  PlanOf <- MCPlanOf
  MinWindow = 4
  MaxWindow = 64
  Capabilities <- MCCapabilities
  None = None
  PageSize = 4
  MaxI64 = 8
  MinExactRerank = 6
  MinGraphList = 20
  SmallWindow = 16
  Unset = Unset
  Auto = Auto
  VectorsPerList = 64
  ListFraction = 16
  MinNprobe = 8
  CandidatesPerResult = 4
  RotationBlock = 64
CHECK_DEADLOCK FALSE
INVARIANTS
  EncodingAutoIsOmitted
