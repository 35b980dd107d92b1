SPECIFICATION PartsSpec
CONSTANTS
  None = None
  NaN = NaN
  Infinity = 99
  Unbounded = Unbounded
  Failed = Failed
  Lists = {1, 2, 3, 4}
  Shapes = {0, 2}
  Bytes <- ListBytes
  Budget = 10
  Fixed = 5
  OfferedIds = {1, 2, 3}
  OfferedDistances = {1, 2, 3, 4}
  Ks = {2, 3}
  Limit = 4
  MaxOffers = 4
INVARIANTS
  CacheIsSound
  SearchesAreExact
  ScansAreAccounted
PROPERTIES
  ScansAdvance
