\* Loads that overlap each other and a resize; the caches are smaller than a
\* window, fit one or fit both.
SPECIFICATION Spec
CONSTANTS
  w1 = w1
  w2 = w2
  Nobody = Nobody
  Workers = {w1, w2}
  Offsets = {0, 1}
  NumShards = 2
  ShardOf <- MCShardOf
  PlannedLength <- MCLengths
  Slack = {0, 1}
  Totals = {0, 3}
  InitialTotal = 6
  ConcurrentResize = TRUE
  MaxLoads = 2
INVARIANTS
  ReservationOwned
  AccountingExact
  SleepsOnRunningLoader
PROPERTIES
  LoadDelivers
CHECK_DEADLOCK FALSE
