\* Two jobs of either kind behind one pool slot, both optional stages configured;
\* no idempotency keys, which the manager run exercises.
CONSTANTS
  Ids = {i1, i2}
  Keys = {}
  npm = npm
  lockfile = lockfile
  Requests = {npm, lockfile}
  NpmRequests = {npm}
  LockfileSnapshots = TRUE
  Typosquatting = TRUE
  NoKey = NoKey
  NoId = NoId
  NoRequest = NoRequest
  ReportedCodes = {"REGISTRY_REQUEST_FAILED", "LOCKFILE_INVALID",
    "GRAPH_VALIDATION_FAILED", "INGESTION_FAILED", "PERSISTENCE_PARTIAL",
    "PERSISTENCE_FAILED", "PARTIAL_COLLECTION", "SNAPSHOT_HISTORY_NOT_CLOSED",
    "TYPOSQUATTING_SCAN_FAILED"}
  CodeLists <- WorkerCodeLists
  MaxJobs = 2
  MaxRunning = 2
  MaxConcurrent = 1
  ActiveTimeout = 1
  Retention = 1
SPECIFICATION IngestionSpec
INVARIANTS VerdictIsTrue
PROPERTIES AbortedTasksStartNothing KeepsWorkerContract EveryIngestionSettles
CHECK_DEADLOCK FALSE
