\* More identifiers than table slots, two keys and two requests, so
\* that expiry, re-use of a key and admission at the limit all happen.
CONSTANTS
  Ids = {i1, i2, i3}
  Keys = {k1, k2}
  Requests = {r1, r2}
  NoKey = NoKey
  NoId = NoId
  NoRequest = NoRequest
  ReportedCodes = {"INGESTION_FAILED", "PARTIAL_COLLECTION"}
  CodeLists = {{}, {"PARTIAL_COLLECTION"},
               {"INGESTION_FAILED", "PARTIAL_COLLECTION"}}
  MaxJobs = 2
  MaxRunning = 1
  ActiveTimeout = 2
  Retention = 1
SPECIFICATION ManagerSpec
INVARIANTS KeyResolvesItsJob
PROPERTIES ImplementsLifecycle EveryJobForgotten
CHECK_DEADLOCK FALSE
