SPECIFICATION PartsSpec
CONSTANTS
  Parts = {"graph", "errors", "rerank", "list"}
  Offsets = {0, 1, 2, 3, 4}
  None = None
  Nodes = {0, 1, 2, 3, 4, 5}
  Neighbors <- MCNeighbors
  Distances <- MCDistances
  PageOf <- MCOwn
  WindowOf <- MCOwn
  WindowLength <- MCUnit
  BeamWidth = 2
  SearchListSizes = {2, 4}
  SparseUpTo = 2
  Limit = 3
  RerankLimit = 2
  SearchSlack = {0}
  Windows = {0, 1, 2}
  WindowBytes <- MCWindowBytes
  RerankSlack = {0, 1}
  Budgets = {0, 3}
  PoolLimits = {1, 3}
  MaxRanges = 2
  MaxBytes = 3
INVARIANTS
  SearchKeepsClosest
  InputsAreHeld
  WindowBytesExact
PROPERTIES
  SearchStopsAtOptimum
  LoadsWithinLimits
  ImplementsRecencyOrder
CHECK_DEADLOCK FALSE
