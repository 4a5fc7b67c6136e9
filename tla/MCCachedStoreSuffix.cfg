SPECIFICATION Spec
CONSTANTS
  Parts = {"store"}
  Callers = {c1, c2, c3}
  Keys = {k1}
  Cells = {x1, x2, x3}
  NoCell = NoCell
  MaxCalls = 2
  Files = {"head", "part", "other"}
  Heads = {"head"}
  TmpFiles = {"t1", "t2"}
  NoFile = "none"
  PartReaders = {"p1", "p2"}
  DirOf <- MCDirOf
  SizeOf <- MCSizeOf
  PartBytes = 2
  MaxBytes = 2
  TargetBytes = 1
  QueueCap = 1
  CacheLoads <- MCCacheLoads
  Readers = {"r1", "r2"}
  PartSize = 3
  Sizes = {0, 3, 4}
  Word = 8
  StoreLoads <- SuffixLoads
  MaxReads = 1
INVARIANT EveryRangeMatches
CHECK_DEADLOCK FALSE
