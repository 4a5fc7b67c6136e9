SPECIFICATION Spec
CONSTANTS
  Parts = {"bodies", "refs", "fetch"}
  Bodies <- MCBodies
  Stored = {1}
  Names = {0, 1, 2}
  HeadRef = 0
  Oids = {"c", "t1", "t2", "t3", "gone"}
  TagTarget <- MCTagTarget
  Missing = {"gone"}
  MaxSymrefDepth = 3
  MaxPeelDepth = 2
  PrefixLists <- MCPrefixes
  Starts <- MCStarts
  N = 3
  Block = 1
  MaxLost = 1
  MaxPushes = 1
INVARIANTS ServedIsWhatWasAsked ListingTrue NegotiationSound
PROPERTIES EndpointsEnd
CHECK_DEADLOCK FALSE
