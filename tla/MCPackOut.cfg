SPECIFICATION Spec
CONSTANTS
  Parts = {"stream", "order", "delta"}
  Count = 4
  Lookahead = 2
  BodyPackets = 1
  MaxBandData = 2
  Collected = 4
  Paths = {1, 2, 3}
  NameHash <- MCNameHash
  Shapes <- MCShapes
  RawSizes = {1, 3}
  MinBlob = 3
  MaxBlob = 6
  Window = 2
  CacheBytes = 10
  Byte = {0, 1}
  MaxBase = 6
  MaxTarget = 5
  Budgets = {5, 20}
  MinCopy = 2
  ProbeWindow = 2
  MaxBlockMatches = 2
  InsertMax = 2
  HalfWord = 8
  HashBase = 27
  Digit = 2
  SizeDigit = 2
INVARIANTS ResponseHonest PackWellFormed Reconstructs
PROPERTIES NoMissedBlock ResponseEnds
CHECK_DEADLOCK FALSE
