------------------------------ MODULE JobManager ------------------------------
(***************************************************************************)
(* The in-memory ingestion job table (api/jobs/job-manager.ts): admission  *)
(* with idempotency keys, the queued / running / terminal life cycle, the  *)
(* concurrency limit, timeouts of abandoned jobs and expiry of finished    *)
(* ones.                                                                   *)
(*                                                                         *)
(* Every public method first sweeps the table (sweepAt) and only then does *)
(* its own work; the sweep stays even when the method then throws.  Time   *)
(* appears as the age of a job: the time since the timestamp its next      *)
(* deadline is measured from (submittedAtMs while queued, startedAtMs      *)
(* while running, completedAtMs once terminal), saturated above every      *)
(* deadline.                                                               *)
(***************************************************************************)
EXTENDS Naturals, FiniteSets

CONSTANTS
  Ids,            \* values randomUUID() may return; each is returned once
  Keys,           \* SHA-256 digests of Idempotency-Key headers
  Requests,       \* normalised requests: a kind and its fingerprint
  NoKey,          \* the header is absent
  NoId,           \* no entry in jobsByIdempotencyToken
  NoRequest,      \* the request of a job that does not exist
  ReportedCodes,  \* failure codes that workers pass to updateJob
  CodeLists,      \* errorCodes that workers pass with partially-completed
  MaxJobs,        \* maxJobs
  MaxRunning,     \* maxRunningJobs
  ActiveTimeout,  \* activeJobTimeoutMs
  Retention       \* terminalRetentionMs

(* The constructor rejects option values outside these ranges.             *)
ASSUME JobManagerAssumption ==
  /\ IsFiniteSet(Ids)
  /\ NoKey \notin Keys
  /\ NoId \notin Ids
  /\ MaxJobs \in Nat \ {0} /\ MaxRunning \in 1..MaxJobs
  /\ ActiveTimeout \in Nat \ {0} /\ Retention \in Nat \ {0}
  /\ CodeLists \subseteq SUBSET ReportedCodes
  /\ "JOB_TIMED_OUT" \notin ReportedCodes
  /\ "INTERNAL_JOB_ERROR" \notin ReportedCodes

VARIABLES
  jobs,           \* jobs[i]: the stored record of job i, or NoJob
  index,          \* jobsByIdempotencyToken
  issued,         \* identifiers the factory has returned so far
  closed          \* close() has been called

managerVars == <<jobs, index, issued, closed>>

Active(j) == j.status \in {"queued", "running"}
Terminal(j) == j.status \in {"completed", "partially-completed", "failed"}
Statuses == {"absent", "queued", "running", "completed",
             "partially-completed", "failed"}
Codes == ReportedCodes \cup {"JOB_TIMED_OUT", "INTERNAL_JOB_ERROR"}

(* Ages stop growing once they have passed both deadlines.                 *)
MaxAge == IF ActiveTimeout > Retention THEN ActiveTimeout ELSE Retention

Job == [status : Statuses, request : Requests \cup {NoRequest},
        key : Keys \cup {NoKey}, codes : SUBSET Codes, age : 0..MaxAge]

NoJob == [status |-> "absent", request |-> NoRequest, key |-> NoKey,
          codes |-> {}, age |-> 0]

QueuedJob(r, k) == [status |-> "queued", request |-> r, key |-> k,
                    codes |-> {}, age |-> 0]

StartedJob(j) == [j EXCEPT !.status = "running", !.age = 0]

(* finishJob and failJob: completedAtMs and expiresAtMs restart the age.   *)
FinishedJob(j, s, cs) == [j EXCEPT !.status = s, !.codes = cs, !.age = 0]
FailedJob(j, c) == FinishedJob(j, "failed", {c})

Live(table) == {i \in Ids : table[i].status # "absent"}
RunningJobs(table) == {i \in Ids : table[i].status = "running"}

-----------------------------------------------------------------------------
(* sweepAt: fail stale active work, then drop expired terminal jobs and    *)
(* the index entries that still point at them.                             *)

(* Faults, used only to see that a property notices them: a timeout that   *)
(* forgets running jobs, an index entry that outlives its job and, below,  *)
(* a failure that overwrites a result.                                     *)
TimedOutOnlyQueued(j) == j.status = "queued" /\ j.age >= ActiveTimeout

TimedOut(j) == Active(j) /\ j.age >= ActiveTimeout
Expired(j) == Terminal(j) /\ j.age >= Retention

SweptJob(j) ==
  IF TimedOut(j) THEN FailedJob(j, "JOB_TIMED_OUT")
  ELSE IF Expired(j) THEN NoJob
  ELSE j

SweptJobs == [i \in Ids |-> SweptJob(jobs[i])]

SweptIndexKept == index

SweptIndex ==
  [k \in Keys |->
     IF \E i \in Ids : Expired(jobs[i]) /\ jobs[i].key = k /\ index[k] = i
     THEN NoId ELSE index[k]]

(* What every public method leaves behind when it reads or throws: getJob, *)
(* getExecutionContext, getStats, sweep, the sweep timer, and every        *)
(* rejected or replayed createJob and rejected updateJob.                  *)
SweepOnly ==
  /\ ~closed
  /\ jobs' = SweptJobs
  /\ index' = SweptIndex
  /\ UNCHANGED <<issued, closed>>

-----------------------------------------------------------------------------
(* createJob                                                               *)

(* The job an idempotency key resolves to after the sweep, if any.         *)
Replays(k) ==
  /\ k # NoKey
  /\ SweptIndex[k] # NoId
  /\ SweptJobs[SweptIndex[k]].status # "absent"

HasRoom == Cardinality(Live(SweptJobs)) < MaxJobs

(* createJob past its sweep and checks: `record` is stored under a fresh   *)
(* identifier and the key, if any, resolves to it from now on.             *)
Store(i, k, record) ==
  /\ ~closed
  /\ ~Replays(k)
  /\ HasRoom
  /\ i \in Ids \ issued
  /\ jobs' = [SweptJobs EXCEPT ![i] = record]
  /\ index' = IF k = NoKey THEN SweptIndex
              ELSE [SweptIndex EXCEPT ![k] = i]
  /\ issued' = issued \cup {i}
  /\ UNCHANGED closed

CreateJob(i, r, k) == Store(i, k, QueuedJob(r, k))

(* The outcomes that admit nothing: the same key and request return the    *)
(* existing job, the same key with another request is a conflict, and a    *)
(* full table refuses.                                                     *)
CreateReplayed(r, k) ==
  Replays(k) /\ SweptJobs[SweptIndex[k]].request = r /\ SweepOnly

CreateConflicts(r, k) ==
  Replays(k) /\ SweptJobs[SweptIndex[k]].request # r /\ SweepOnly

CreateRefused(k) ==
  ~Replays(k) /\ ~HasRoom /\ SweepOnly

-----------------------------------------------------------------------------
(* updateJob                                                               *)

Update(i, newRecord) ==
  /\ ~closed
  /\ jobs' = [SweptJobs EXCEPT ![i] = newRecord]
  /\ index' = SweptIndex
  /\ UNCHANGED <<issued, closed>>

MayStart(i) ==
  /\ SweptJobs[i].status = "queued"
  /\ Cardinality(RunningJobs(SweptJobs)) < MaxRunning

StartJob(i) ==
  MayStart(i) /\ Update(i, StartedJob(SweptJobs[i]))

CompleteJob(i) ==
  /\ SweptJobs[i].status = "running"
  /\ Update(i, FinishedJob(SweptJobs[i], "completed", {}))

PartiallyCompleteJob(i, cs) ==
  /\ SweptJobs[i].status = "running"
  /\ cs # {}
  /\ Update(i, FinishedJob(SweptJobs[i], "partially-completed", cs))

FailJobUnguarded(i, c) ==
  /\ SweptJobs[i].status # "absent"
  /\ Update(i, FailedJob(SweptJobs[i], c))

FailJob(i, c) ==
  /\ Active(SweptJobs[i])
  /\ Update(i, FailedJob(SweptJobs[i], c))

(* Terminal, queued or forgotten jobs take no result: the call throws      *)
(* INVALID_JOB_TRANSITION, JOB_NOT_FOUND or JOB_CONCURRENCY_LIMIT.         *)
UpdateRefused(i) ==
  /\ SweptJobs[i].status # "running"
  /\ ~MayStart(i)
  /\ SweepOnly

-----------------------------------------------------------------------------
CloseManager ==
  /\ closed' = TRUE
  /\ UNCHANGED <<jobs, index, issued>>

(* Date.now() moves on.                                                    *)
Older(j) ==
  [j EXCEPT !.age = IF j.status # "absent" /\ @ < MaxAge THEN @ + 1 ELSE @]

Tick ==
  /\ jobs' = [i \in Ids |-> Older(jobs[i])]
  /\ UNCHANGED <<index, issued, closed>>

ManagerInit ==
  /\ jobs = [i \in Ids |-> NoJob]
  /\ index = [k \in Keys |-> NoId]
  /\ issued = {}
  /\ closed = FALSE

CreateStep ==
  \E r \in Requests, k \in Keys \cup {NoKey} :
    \/ \E i \in Ids : CreateJob(i, r, k)
    \/ CreateReplayed(r, k)
    \/ CreateConflicts(r, k)
    \/ CreateRefused(k)

UpdateStep ==
  \E i \in Ids :
    \/ StartJob(i)
    \/ CompleteJob(i)
    \/ \E cs \in CodeLists : PartiallyCompleteJob(i, cs)
    \/ \E c \in ReportedCodes \cup {"INTERNAL_JOB_ERROR"} : FailJob(i, c)
    \/ UpdateRefused(i)

ManagerNext == CreateStep \/ UpdateStep \/ SweepOnly \/ CloseManager \/ Tick

(* The sweep timer (sweepIntervalMs > 0) and the clock keep going; clients *)
(* and workers owe nothing.                                                *)
ManagerFairness == WF_managerVars(SweepOnly) /\ WF_managerVars(Tick)

ManagerSpec == ManagerInit /\ [][ManagerNext]_managerVars /\ ManagerFairness

-----------------------------------------------------------------------------
(* Types of the job table, the idempotency index and the issued ids.       *)
ManagerTypeOK ==
  /\ jobs \in [Ids -> Job]
  /\ index \in [Keys -> Ids \cup {NoId}]
  /\ issued \in SUBSET Ids
  /\ closed \in BOOLEAN

(* A key resolves to a job exactly as long as a job with that key is       *)
(* remembered, and to that job: so no two remembered jobs share a key (a   *)
(* retried request cannot start a second ingestion), and no key points at  *)
(* a job that sweepAt already dropped.                                     *)
KeyResolvesItsJob ==
  \A k \in Keys :
    /\ index[k] # NoId => jobs[index[k]].key = k
    /\ \A i \in Ids : jobs[i].key = k => index[k] = i

(* Retained jobs, running jobs and identifiers stay within the bounds the  *)
(* constructor was given, whatever the order of the calls and sweeps.      *)
WithinLimits ==
  /\ Cardinality(Live(jobs)) <= MaxJobs
  /\ Cardinality(RunningJobs(jobs)) <= MaxRunning

(* A worker that overruns its time cannot still record a result: a job     *)
(* that leaves "running" with its age past activeJobTimeoutMs always fails *)
(* with JOB_TIMED_OUT and nothing else.                                    *)
LateResultIsTimeout ==
  [][\A i \in Ids :
       Active(jobs[i]) /\ jobs[i].age >= ActiveTimeout /\ ~Active(jobs'[i])
         => jobs'[i].codes = {"JOB_TIMED_OUT"}]_managerVars

(* A terminal job is kept for the whole retention period, and from the     *)
(* moment it is dropped its key is free again in the same step.            *)
ForgottenOnlyWhenExpired ==
  [][\A i \in Ids :
       jobs[i].status # "absent" /\ jobs'[i].status = "absent"
         => /\ Terminal(jobs[i]) /\ jobs[i].age >= Retention
            /\ \A k \in Keys : index'[k] # i]_managerVars

(* The table drains: every admitted job is eventually settled and then     *)
(* forgotten, even if its worker never reports, unless the manager is      *)
(* closed.  This is what keeps capacity from leaking.                      *)
EveryJobForgotten ==
  \A i \in Ids : jobs[i].status # "absent" ~> jobs[i].status = "absent" \/ closed

(* The job manager implements the abstract life cycle.                     *)
PhaseOf(i) ==
  IF i \notin issued THEN "unborn"
  ELSE IF jobs[i].status = "absent" THEN "forgotten"
  ELSE jobs[i].status

Lifecycle == INSTANCE JobLifecycle
  WITH phase <- [i \in Ids |-> PhaseOf(i)],
       outcome <- [i \in Ids |-> jobs[i].codes]

ImplementsLifecycle == Lifecycle!Spec

=============================================================================
