SPECIFICATION Spec
CONSTANTS
  b = b
  t = t
  c1 = c1
  c2 = c2
  g = g
  p1 = p1
  p2 = p2
  p3 = p3
  main = main
  rel = rel
  HEAD = HEAD
  None = None
  Objects <- MCObjects
  Kind <- MCKind
  Children <- MCChildren
  Depth <- MCDepth
  Offloaded = {b}
  Refs = {main, rel, HEAD}
  Symbolic = {HEAD}
  Pushes = {p1, p2, p3}
  Commands <- MCCommands
  Pack <- MCPack
  ThinBases <- MCThinBases
  MaxCrashes = 1
INVARIANTS TypeOK EveryPrefixClosed EveryPrefixResolves VisibleComplete PointersBacked ReportedIsDurable SelfContainedAccepted
PROPERTIES RefsMoveByCas DurableHistory
CHECK_DEADLOCK FALSE
