SPECIFICATION MCSpec
CONSTANTS
  N = 4
  Bounds <- MCBounds
  Trees <- MCTrees
  Blobs <- MCBlobs
  Tags <- MCTags
  Entries <- MCEntries
  Target <- MCTarget
  BlobSize <- MCBlobSize
  Filters <- MCFilters
INVARIANTS DiscoveryComplete PlanExact FailuresExplained
PROPERTIES ImplementsSelection PlanningEnds
CHECK_DEADLOCK FALSE
