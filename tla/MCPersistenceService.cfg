\* Two callers, lost acknowledgements, one retry and two replays each.
CONSTANTS
  c1 = c1  c2 = c2
  n1 = n1  n2 = n2  e = e  d = d
  Calls = {c1, c2}
  Rows = {n1, n2, e, d}
  Ends <- McEnds
  Base <- McBase
  Chunks <- McChunks
  Stamp <- McStamp
  MaxAttempts = 2
  AckMayBeLost = TRUE
  MaxPartialReplays = 2
  NoCall = NoCall
SPECIFICATION Spec
INVARIANTS ResolvedIsDurable NoOrphanRows
PROPERTIES ContentNeverRegresses EveryCallSettles
CHECK_DEADLOCK FALSE
