\* More tasks than slots; no idempotency keys, which the manager run exercises.
CONSTANTS
  Ids = {i1, i2, i3}
  Keys = {}
  Requests = {r1}
  NoKey = NoKey
  NoId = NoId
  NoRequest = NoRequest
  ReportedCodes = {"INGESTION_FAILED"}
  CodeLists = {{}}
  MaxJobs = 3
  MaxRunning = 2
  ActiveTimeout = 1
  Retention = 1
  MaxConcurrent = 2
SPECIFICATION DispatcherSpec
INVARIANTS NothingIsLeftBehind
PROPERTIES ImplementsTaskPool PoolDrains
CHECK_DEADLOCK FALSE
