\* Three callers race for a good and a corrupt page and a validation may panic; loads
\* wait for each other in a cache that cannot keep both windows.
SPECIFICATION PartsSpec
CONSTANTS
  Workers = {w1, w2, w3}
  Offsets = {0, 1}
  NumShards = 2
  ShardOf <- MCShardOf
  PlannedLength <- MCLengths
  Slack = {0}
  Totals = {}
  InitialTotal = 2
  ConcurrentResize = FALSE
  MaxLoads = 1
  Nobody = Nobody
  Callers = {c1, c2, c3}
  NumPages = 2
  Corrupt = {1}
  MaxCalls = 1
  MaxPanics = 2
INVARIANTS
  VerdictSound
PROPERTIES
  VerdictFinal
  WaitsEnd
  CacheIsSingleFlight
CHECK_DEADLOCK FALSE
