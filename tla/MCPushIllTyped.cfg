SPECIFICATION Spec
CONSTANTS
  b = b
  t0 = t0
  c = c
  t = t
  d = d
  p = p
  main = main
  None = None
  Objects <- MCObjects
  Kind <- MCKind
  Children <- MCChildren
  Depth <- MCDepth
  Offloaded = {}
  Refs = {main}
  Symbolic = {}
  Pushes = {p}
  Commands <- MCCommands
  Pack <- MCPack
  ThinBases <- MCThinBases
  MaxCrashes = 1
INVARIANTS EveryPrefixClosed
CHECK_DEADLOCK FALSE
