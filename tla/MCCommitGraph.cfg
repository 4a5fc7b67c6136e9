SPECIFICATION FairSpec
CONSTANTS
  r = r
  a = a
  b = b
  m = m
  w1 = w1
  w2 = w2
  p = p
  q = q
  rebuild = rebuild
  Commits = {r, a, b, m}
  Parents <- MCParents
  Generation <- MCGeneration
  Walkers = {w1}
  Pushes = {p}
  New <- MCNew
  Rebuilder = rebuild
  Stored = {r, a}
  Recorded <- Lost
  MaxCrashes = 1
INVARIANTS GraphTypeOK GenerationsExact RecordsGrounded
PROPERTIES EveryCallEnds
CHECK_DEADLOCK FALSE
