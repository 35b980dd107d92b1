\* A rerank of more windows than the query may hold, on a healthy index.
SPECIFICATION PartsSpec
CONSTANTS
  Parts = {"path"}
  Offsets = {0, 1, 2, 3, 4}
  None = None
  Nodes = {0, 1, 2}
  Neighbors <- MCPath
  Distances <- MCTwoDistances
  PageOf <- MCOwn
  WindowOf <- MCOwn
  WindowLength <- MCUnit
  BeamWidth = 1
  SearchListSizes = {3}
  SparseUpTo = 0
  Limit = 2
  RerankLimit = 3
  SearchSlack = {0}
  Windows = {0, 1, 2}
  WindowBytes <- MCWindowBytes
  RerankSlack = {0, 1}
  Budgets = {0, 3}
  PoolLimits = {1, 3}
  MaxRanges = 2
  MaxBytes = 3
INVARIANTS
  PathInputsAvailable
CHECK_DEADLOCK FALSE
