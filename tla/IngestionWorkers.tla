--------------------------- MODULE IngestionWorkers ---------------------------
(***************************************************************************)
(* The two worker tasks (api/jobs/workers.ts) running in the dispatcher:   *)
(* collect a graph batch, persist it, and for a lockfile close the         *)
(* snapshots it supersedes and scan it for typosquatting, then record the  *)
(* result with the job manager.                                            *)
(*                                                                         *)
(* Every step below is the code between two awaits.  What the awaited      *)
(* collaborators do is left to their own modules; here they settle in any  *)
(* of the ways they may.  A job may meanwhile time out or be forgotten,    *)
(* and shutdown may abort the task, at every await.                        *)
(***************************************************************************)
EXTENDS WorkerDispatcher

CONSTANTS
  NpmRequests,       \* the requests of kind "npm"; the others are lockfiles
  LockfileSnapshots, \* dependencies.lockfileSnapshots is configured
  Typosquatting      \* dependencies.typosquatting is configured

WorkerCodes ==
  {"REGISTRY_REQUEST_FAILED", "LOCKFILE_INVALID", "GRAPH_VALIDATION_FAILED",
   "INGESTION_FAILED", "PERSISTENCE_PARTIAL", "PERSISTENCE_FAILED",
   "PARTIAL_COLLECTION", "SNAPSHOT_HISTORY_NOT_CLOSED",
   "TYPOSQUATTING_SCAN_FAILED"}

ASSUME WorkerAssumption ==
  /\ NpmRequests \subseteq Requests
  /\ LockfileSnapshots \in BOOLEAN /\ Typosquatting \in BOOLEAN
  /\ WorkerCodes \subseteq ReportedCodes
  /\ {{"PARTIAL_COLLECTION"}, {"PARTIAL_COLLECTION", "REGISTRY_REQUEST_FAILED"}}
       \subseteq CodeLists
  /\ \A c \in {"SNAPSHOT_HISTORY_NOT_CLOSED", "TYPOSQUATTING_SCAN_FAILED"} :
       {{c}, {c, "PARTIAL_COLLECTION"}} \subseteq CodeLists

VARIABLES
  pc,       \* pc[i]: the await that job i's task is suspended at
  task,     \* task[i]: the request its closure holds
  issues,   \* issues[i]: the codes of the nonfatal collection issues
  batch     \* batch[i]: what persist() told of its batch, and what HydraDB
            \* holds of it on account of this job once every statement it
            \* sent is decided.  The two may differ.

workerVars == <<pc, task, issues, batch>>
ingestionVars == <<systemVars, workerVars>>

Awaits == {"called", "collecting", "persisting", "closing", "scanning",
           "returning", "throwing"}

IsNpm(i) == task[i] \in NpmRequests

Goto(i, where) == pc' = [pc EXCEPT ![i] = where]

(* The continuation of an await runs when the thread is free.              *)
Resumes(i, where) == ~pumping /\ pc[i] = where

(* updateJob called by the task: a refused call throws, the catch block's  *)
(* failJob is refused too, and the task rejects.                           *)
Records(i, Report) ==
  /\ UNCHANGED dispatcherVars
  /\ \/ /\ SweptJobs[i].status = "running"
        /\ Report
        /\ Goto(i, "returning")
     \/ /\ UpdateRefused(i)
        /\ Goto(i, "throwing")

Result(i, codes) ==
  Records(i, IF codes = {} THEN CompleteJob(i)
                           ELSE PartiallyCompleteJob(i, codes))

(* The catch block: an aborted task rethrows the abort reason, any other   *)
(* records the failure.                                                    *)
Catch(i, code) ==
  IF i \in aborted THEN Goto(i, "throwing") /\ UNCHANGED systemVars
  ELSE Records(i, FailJob(i, code))

(* npmPartialFailureCodes, and the single code of a partial lockfile.      *)
Noting(i, codes) == issues' = [issues EXCEPT ![i] = codes]

(* Faults, used only to see that a property notices them: collector codes  *)
(* passed on unmapped, an abort that is not looked at before writing, and  *)
(* one that is looked at after the npm graph is in.                        *)
NpmIssuesUnmapped == {{}, {"PACKAGE_COLLECTION_FAILED"}}

NpmIssues ==
  {{}, {"PARTIAL_COLLECTION"}, {"PARTIAL_COLLECTION", "REGISTRY_REQUEST_FAILED"}}

LockfileIssues == {{}, {"PARTIAL_COLLECTION"}}

-----------------------------------------------------------------------------
(* Collection                                                              *)

Begin(i) ==
  /\ PumpStarts(i)
  /\ Goto(i, "called")
  /\ task' = [task EXCEPT ![i] = jobs[i].request]
  /\ UNCHANGED <<issues, batch>>

(* orchestrateNpmIngestion goes to the registry.                           *)
NpmCalled(i) ==
  /\ pc[i] = "called" /\ IsNpm(i)
  /\ CallReturns(i)
  /\ Goto(i, "collecting")
  /\ UNCHANGED <<task, issues, batch>>

(* collectPackageLock and mergeGraphFragments are synchronous, so a lock   *)
(* is accepted or rejected before pump() goes on.                          *)
LockfileCollected(i) ==
  /\ pc[i] = "called" /\ ~IsNpm(i)
  /\ CallReturns(i)
  /\ Goto(i, "persisting")
  /\ \E codes \in LockfileIssues : Noting(i, codes)
  /\ UNCHANGED <<task, batch>>

LockfileRejected(i) ==
  /\ pc[i] = "called" /\ ~IsNpm(i)
  /\ \E code \in {"LOCKFILE_INVALID", "GRAPH_VALIDATION_FAILED"} :
       Records(i, FailJob(i, code))
  /\ UNCHANGED <<task, issues, batch>>

RejectedCallReturns(i) ==
  /\ pc[i] \in {"returning", "throwing"}
  /\ CallReturns(i)
  /\ UNCHANGED workerVars

NpmCollectedUnchecked(i) ==
  /\ Resumes(i, "collecting")
  /\ Goto(i, "persisting")
  /\ \E codes \in NpmIssues : Noting(i, codes)
  /\ UNCHANGED <<systemVars, task, batch>>

(* throwIfAborted after the orchestrator and again before persist() see    *)
(* the same signal.                                                        *)
NpmCollected(i) ==
  /\ Resumes(i, "collecting")
  /\ i \notin aborted
  /\ Goto(i, "persisting")
  /\ \E codes \in NpmIssues : Noting(i, codes)
  /\ UNCHANGED <<systemVars, task, batch>>

(* No usable batch, a batch that does not validate, or an abort.           *)
NpmNotCollected(i) ==
  /\ Resumes(i, "collecting")
  /\ \E code \in {"REGISTRY_REQUEST_FAILED", "GRAPH_VALIDATION_FAILED",
                  "INGESTION_FAILED"} : Catch(i, code)
  /\ UNCHANGED <<task, issues, batch>>

-----------------------------------------------------------------------------
(* Persistence and what follows it                                         *)

(* throwIfAborted and the scan, when there is one, or the final record.    *)
ScanOrRecord(i) ==
  IF ~Typosquatting THEN Result(i, issues[i])
  ELSE /\ Goto(i, IF i \in aborted THEN "throwing" ELSE "scanning")
       /\ UNCHANGED systemVars

AfterLockfilePersisted(i) ==
  IF ~LockfileSnapshots THEN ScanOrRecord(i)
  ELSE /\ Goto(i, IF i \in aborted THEN "throwing" ELSE "closing")
       /\ UNCHANGED systemVars

Untried == [told |-> "none", held |-> "nothing"]
Durable == [told |-> "verified", held |-> "all"]

(* persist() rejects with partialWrites when its last pass had a statement *)
(* acknowledged, which leaves something, and all of it when verification   *)
(* failed or only acknowledgements were lost.  Without partialWrites it    *)
(* says nothing of the graph: a statement may have committed without its   *)
(* answer, and the counters of a replay that fails early start at zero.    *)
Rejections ==
  [told : {"partial"}, held : {"some", "all"}]
    \cup [told : {"failed"}, held : {"nothing", "some", "all"}]

PersistedUnlessAborted(i) ==
  /\ Resumes(i, "persisting")
  /\ batch' = [batch EXCEPT ![i] = Durable]
  /\ IF i \in aborted THEN Goto(i, "throwing") /\ UNCHANGED systemVars
     ELSE IF IsNpm(i) THEN Result(i, issues[i]) ELSE AfterLockfilePersisted(i)
  /\ UNCHANGED <<task, issues>>

(* The npm worker looks at its abort signal no more once the graph is in.  *)
Persisted(i) ==
  /\ Resumes(i, "persisting")
  /\ batch' = [batch EXCEPT ![i] = Durable]
  /\ IF IsNpm(i) THEN Result(i, issues[i]) ELSE AfterLockfilePersisted(i)
  /\ UNCHANGED <<task, issues>>

PersistenceFailureCode(told) ==
  IF told = "partial" THEN "PERSISTENCE_PARTIAL" ELSE "PERSISTENCE_FAILED"

NotPersisted(i) ==
  /\ Resumes(i, "persisting")
  /\ \E outcome \in Rejections :
       /\ batch' = [batch EXCEPT ![i] = outcome]
       /\ Catch(i, PersistenceFailureCode(outcome.told))
  /\ UNCHANGED <<task, issues>>

SnapshotsClosed(i) ==
  /\ Resumes(i, "closing")
  /\ ScanOrRecord(i)
  /\ UNCHANGED <<task, issues, batch>>

SnapshotsNotClosed(i) ==
  /\ Resumes(i, "closing")
  /\ Result(i, {"SNAPSHOT_HISTORY_NOT_CLOSED"} \cup issues[i])
  /\ UNCHANGED <<task, issues, batch>>

Scanned(i) ==
  /\ Resumes(i, "scanning")
  /\ Result(i, issues[i])
  /\ UNCHANGED <<task, issues, batch>>

ScanFailed(i) ==
  /\ Resumes(i, "scanning")
  /\ Result(i, {"TYPOSQUATTING_SCAN_FAILED"} \cup issues[i])
  /\ UNCHANGED <<task, issues, batch>>

-----------------------------------------------------------------------------
(* The dispatcher sees the promise of the task settle.                     *)

Gone(i) ==
  /\ Goto(i, "none")
  /\ task' = [task EXCEPT ![i] = NoRequest]
  /\ Noting(i, {})
  /\ UNCHANGED batch

Returns(i) ==
  /\ pc[i] = "returning"
  /\ TaskSettles(i) \/ (~Terminal(SweptJobs[i]) /\ TaskFails(i))
  /\ Gone(i)

Throws(i) ==
  /\ pc[i] = "throwing"
  /\ TaskFails(i)
  /\ Gone(i)

IngestionInit ==
  /\ DispatcherInit
  /\ pc = [i \in Ids |-> "none"]
  /\ task = [i \in Ids |-> NoRequest]
  /\ issues = [i \in Ids |-> {}]
  /\ batch = [i \in Ids |-> Untried]

WorkerStep(i) ==
  \/ NpmCalled(i) \/ LockfileCollected(i) \/ LockfileRejected(i)
  \/ RejectedCallReturns(i)
  \/ NpmCollected(i) \/ NpmNotCollected(i)
  \/ Persisted(i) \/ NotPersisted(i)
  \/ SnapshotsClosed(i) \/ SnapshotsNotClosed(i)
  \/ Scanned(i) \/ ScanFailed(i)
  \/ Returns(i) \/ Throws(i)

(* The rest of the system, which leaves the tasks alone.                   *)
EnvironmentStep ==
  /\ RouteStep \/ BeginPump \/ EndPump \/ (\E i \in Ids : PumpSkips(i))
     \/ CloseStep \/ TimePasses
  /\ UNCHANGED workerVars

IngestionNext ==
  \/ \E i \in Ids : Begin(i) \/ WorkerStep(i)
  \/ EnvironmentStep

PumpRuns ==
  \/ (BeginPump \/ EndPump \/ \E i \in Ids : PumpSkips(i))
     /\ UNCHANGED workerVars
  \/ \E i \in Ids : Begin(i)

(* As for the dispatcher; each await settles because what is awaited is    *)
(* bounded by timeouts and by a number of attempts.                        *)
IngestionFairness ==
  /\ WF_ingestionVars(PumpRuns)
  /\ WF_ingestionVars(FinishClose /\ UNCHANGED workerVars)
  /\ \A i \in Ids : WF_ingestionVars(WorkerStep(i))

IngestionSpec ==
  IngestionInit /\ [][IngestionNext]_ingestionVars /\ IngestionFairness

-----------------------------------------------------------------------------
(* Types of the workers' own state, and no task outside running has a      *)
(* continuation.                                                           *)
WorkerTypeOK ==
  /\ pc \in [Ids -> Awaits \cup {"none"}]
  /\ task \in [Ids -> Requests \cup {NoRequest}]
  /\ issues \in [Ids -> NpmIssues]
  /\ batch \in [Ids -> {Untried, Durable} \cup Rejections]
  /\ running = {i \in Ids : pc[i] # "none"}

(* What a client reads from GET /ingestions/:id claims no more than HydraDB *)
(* holds, whatever timeouts and aborts came in between: a job completes,   *)
(* wholly or partially, only when all of its batch is there and verified;  *)
(* PERSISTENCE_PARTIAL when at least some of it is; a collection failure   *)
(* when nothing of it is.  PERSISTENCE_FAILED denies nothing: it only says *)
(* that persist() knew of no write, over a graph that may hold any part of *)
(* the batch.                                                              *)
VerdictMatchesGraph ==
  \A i \in Ids : LET codes == jobs[i].codes IN
    /\ jobs[i].status \in {"completed", "partially-completed"}
         => batch[i].held = "all" /\ batch[i].told = "verified"
    /\ "PERSISTENCE_PARTIAL" \in codes => batch[i].held # "nothing"
    /\ "PERSISTENCE_FAILED" \in codes => batch[i].told = "failed"
    /\ jobs[i].status = "failed"
       /\ codes \cap {"REGISTRY_REQUEST_FAILED", "LOCKFILE_INVALID",
                      "GRAPH_VALIDATION_FAILED", "INGESTION_FAILED"} # {}
         => batch[i].held = "nothing"

(* An aborted task never begins to write, and never goes on to close       *)
(* snapshots or to scan: after shutdown only a write already under way may *)
(* still reach the graph.                                                  *)
AbortedTasksStartNothing ==
  [][\A i \in aborted :
       pc'[i] # pc[i] => pc'[i] \in {"none", "returning", "throwing"}]_ingestionVars

(* "interrupting after durable writes may incorrectly label a persisted    *)
(* graph as absent": a graph that persist() verified is never labelled     *)
(* INTERNAL_JOB_ERROR by the npm worker, even when shutdown aborts it      *)
(* while it persists.  The lockfile worker looks at its signal again       *)
(* before each of its optional stages and does label it so; without those  *)
(* stages it does not.                                                     *)
LabelledAbsent(i) ==
  /\ batch[i].told = "verified"
  /\ jobs[i].codes = {"INTERNAL_JOB_ERROR"}

VerifiedGraphIsRecorded ==
  \A i \in Ids : LabelledAbsent(i) =>
    /\ jobs[i].request \notin NpmRequests
    /\ LockfileSnapshots \/ Typosquatting

(* Both workers keep to the contract the dispatcher relies on.             *)
KeepsWorkerContract == DispatcherInit /\ [][DispatcherNext]_systemVars

(* Every submitted ingestion is settled, so polling it comes to an end.    *)
EveryIngestionSettles ==
  \A i \in Ids : Active(jobs[i]) ~> ~Active(jobs[i])

(* What a finished job says of the graph is so, and a graph known to be    *)
(* whole is not withheld but where the lockfile worker is aborted.         *)
VerdictIsTrue == VerdictMatchesGraph /\ VerifiedGraphIsRecorded

=============================================================================
