SPECIFICATION CacheSpec
CONSTANTS
  MaxVersion = 3
  MaxCacheFaults = 3
  MaxStops = 2
INVARIANTS SavedIsLoadable NeverStale
PROPERTY KeepsPromise
CHECK_DEADLOCK FALSE
