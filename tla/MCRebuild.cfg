SPECIFICATION Spec
CONSTANTS
  r = r
  a = a
  b = b
  m = m
  w1 = w1
  w2 = w2
  p = p
  q = q
  rebuild = rebuild
  Commits = {r, a, b, m}
  Parents <- MCParents
  Generation <- MCGeneration
  Walkers = {}
  Pushes = {p, q}
  New <- MCNew
  Rebuilder = rebuild
  Stored = {r, a}
  Recorded <- Corrupted
  MaxCrashes = 1
PROPERTIES RebuildCorrects
CHECK_DEADLOCK FALSE
