SPECIFICATION PartsSpec
CONSTANTS
  N = 4
  R = 2
  L = 2
  BatchNodes = 3
  Alpha <- MCAlpha
  Vectors <- MCVectors
  Plans <- MCPlans
  Graphs <- MCGraphs
  SampleSize = 2
  Nobody = Nobody
  Infinity = 99
  MaxElems = 12
  MinRows = 2
  MinFlops = 6
  TargetBlocks = 4
  CentroidDistances = {0, 1, 2, 3}
  Ks = {0, 1, 2, 3, 5, 6, 7, 12, 13}
  ThreadCounts = {1, 2, 3, 8}
  Inputs <- MCInputs
  K = 3
  MaxPoints = 2
  Niter = 3
  Nredo = 2
  Grain = 3
  EpsDen = 4
  Tolerance = 1000
  Unbounded = 100000000
  Points = {1, 2, 3, 4, 5, 6}
  InitialK = 2
  TargetK = 4
  MinSplit = 4
  Configs <- MCConfigs
  MaxTraining = 4
  MinIvf = 3
  PerList = 2
  ScoreCells = 6
  Threads = 2
  Stream = 6
  Batch = 3
  None = None
  NaN = NaN
  Names = {"main", "worker"}
  Versions = {1, 2}
  NList = 3
  Nearest <- NearestLists
  Greedy <- GreedyLists
  Rank <- Ranks
  Dist <- Distances
  Lower <- LowerBounds
  Large = TRUE
  BatchSize = 2
  MaxRows = 4
INVARIANTS
  GraphsAreRight
  TrainingIsSound
  IndexesStayCoherent
PROPERTIES
  BuildersImprove
