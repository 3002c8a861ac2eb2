\* Three calls under one key, one of them of another request, and a call
\* without a key; an edge per statement, an incident per page.
CONSTANTS
  Calls = {1, 2, 3, 4}
  Identity <- McIdentity
  Request <- McRequest
  NoRequest = NoRequest
  Observed <- McObserved
  Releases <- McReleases
  Versions = {1, 2}
  Package <- McPackage
  MaxScanned = 1
  ChunkSize = 1
  MaxLane = 2
  Limit = 1
SPECIFICATION IndexSpec
INVARIANTS OneRequestOrNothing PagesLoseNothing
PROPERTIES AnswerIsComplete EveryRequestSettles
CHECK_DEADLOCK FALSE
