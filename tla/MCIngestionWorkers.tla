-------------------------- MODULE MCIngestionWorkers --------------------------
(* Model-checking definitions for IngestionWorkers.                        *)
EXTENDS IngestionWorkers

CONSTANTS npm, lockfile

(* The lists of codes the workers' partially-completed results carry.      *)
WorkerCodeLists ==
  {{"PARTIAL_COLLECTION"}, {"PARTIAL_COLLECTION", "REGISTRY_REQUEST_FAILED"},
   {"SNAPSHOT_HISTORY_NOT_CLOSED"},
   {"SNAPSHOT_HISTORY_NOT_CLOSED", "PARTIAL_COLLECTION"},
   {"TYPOSQUATTING_SCAN_FAILED"},
   {"TYPOSQUATTING_SCAN_FAILED", "PARTIAL_COLLECTION"}}

=============================================================================
