------------------------ MODULE IngestionWorkersProofs ------------------------
(***************************************************************************)
(* Proofs about the job manager, the worker dispatcher that drives it and  *)
(* the two ingestion workers that run in the dispatcher, for any set of    *)
(* identifiers, keys and requests, any limits the constructors accept, and *)
(* with either optional stage configured or not.                           *)
(*                                                                         *)
(* The first part speaks of JobManager alone, the second of the dispatcher *)
(* with arbitrary tasks, the third of the real workers: they keep to the   *)
(* contract the dispatcher relies on, so all that is proved of the pool    *)
(* holds of it with the real workers inside; and what a finished job says  *)
(* of the graph is so.                                                     *)
(***************************************************************************)
EXTENDS IngestionWorkers, FiniteSetTheorems, TLAPS

-----------------------------------------------------------------------------
(* The job manager                                                         *)

-----------------------------------------------------------------------------
(* Types                                                                   *)

LEMMA MaxAgeType == MaxAge \in Nat /\ ActiveTimeout <= MaxAge /\ Retention <= MaxAge
BY JobManagerAssumption DEF MaxAge

(* What the job operators return is a job record again.                    *)
LEMMA JobOperatorsType ==
  /\ NoJob \in Job
  /\ \A r \in Requests, k \in Keys \cup {NoKey} : QueuedJob(r, k) \in Job
  /\ \A j \in Job :
       /\ StartedJob(j) \in Job
       /\ FinishedJob(j, "completed", {}) \in Job
       /\ \A cs \in CodeLists : FinishedJob(j, "partially-completed", cs) \in Job
       /\ \A c \in Codes : FailedJob(j, c) \in Job
       /\ Older(j) \in Job
       /\ SweptJob(j) \in Job
<1>1. NoJob \in Job
  BY MaxAgeType DEF NoJob, Job, Statuses, Codes
<1>2. \A r \in Requests, k \in Keys \cup {NoKey} : QueuedJob(r, k) \in Job
  BY MaxAgeType DEF QueuedJob, Job, Statuses, Codes
<1>3. ASSUME NEW j \in Job
      PROVE  /\ StartedJob(j) \in Job
             /\ FinishedJob(j, "completed", {}) \in Job
             /\ \A cs \in CodeLists : FinishedJob(j, "partially-completed", cs) \in Job
             /\ \A c \in Codes : FailedJob(j, c) \in Job
  <2>1. 0 \in 0..MaxAge
    BY MaxAgeType
  <2>2. ASSUME NEW s \in Statuses, NEW cs \in SUBSET Codes
        PROVE  FinishedJob(j, s, cs) \in Job
    BY <2>1, <2>2 DEF FinishedJob, Job
  <2>3. StartedJob(j) \in Job
    BY <2>1 DEF StartedJob, Job, Statuses
  <2>4. \A cs \in CodeLists : cs \in SUBSET Codes
    BY JobManagerAssumption DEF Codes
  <2>5. {"completed", "partially-completed", "failed"} \subseteq Statuses
    BY DEF Statuses
  <2>. QED
    BY <2>2, <2>3, <2>4, <2>5 DEF FailedJob
<1>4. ASSUME NEW j \in Job PROVE Older(j) \in Job
  BY <1>4, MaxAgeType DEF Older, Job, Statuses
<1>5. ASSUME NEW j \in Job PROVE SweptJob(j) \in Job
  BY <1>1, <1>3, <1>5 DEF SweptJob, Codes
<1>. QED
  BY <1>1, <1>2, <1>3, <1>4, <1>5

LEMMA SweepType ==
  ASSUME ManagerTypeOK
  PROVE  /\ SweptJobs \in [Ids -> Job]
         /\ SweptIndex \in [Keys -> Ids \cup {NoId}]
<1>1. SweptJobs \in [Ids -> Job]
  BY JobOperatorsType DEF ManagerTypeOK, SweptJobs
<1>2. SweptIndex \in [Keys -> Ids \cup {NoId}]
  BY DEF ManagerTypeOK, SweptIndex
<1>. QED
  BY <1>1, <1>2

LEMMA ManagerTypeStep ==
  ASSUME ManagerTypeOK, [ManagerNext]_managerVars
  PROVE  ManagerTypeOK'
<1>. USE SweepType
<1>1. ASSUME NEW r \in Requests, NEW k \in Keys \cup {NoKey}, NEW i \in Ids,
             CreateJob(i, r, k)
      PROVE  ManagerTypeOK'
  BY <1>1, JobOperatorsType DEF CreateJob, Store, ManagerTypeOK
<1>2. CASE SweepOnly
  BY <1>2 DEF SweepOnly, ManagerTypeOK
<1>3. ASSUME NEW i \in Ids, NEW j \in Job, Update(i, j)
      PROVE  ManagerTypeOK'
  BY <1>3 DEF Update, ManagerTypeOK
<1>4. ASSUME NEW i \in Ids
      PROVE  /\ StartJob(i) => ManagerTypeOK'
             /\ CompleteJob(i) => ManagerTypeOK'
             /\ \A cs \in CodeLists : PartiallyCompleteJob(i, cs) => ManagerTypeOK'
             /\ \A c \in ReportedCodes \cup {"INTERNAL_JOB_ERROR"} :
                  FailJob(i, c) => ManagerTypeOK'
  <2>1. SweptJobs[i] \in Job
    BY <1>4
  <2>. QED
    BY <1>3, <1>4, <2>1, JobOperatorsType
    DEF StartJob, CompleteJob, PartiallyCompleteJob, FailJob, Codes
<1>5. CASE CloseManager
  BY <1>5 DEF CloseManager, ManagerTypeOK
<1>6. CASE Tick
  BY <1>6, JobOperatorsType DEF Tick, ManagerTypeOK
<1>7. CASE UNCHANGED managerVars
  BY <1>7 DEF managerVars, ManagerTypeOK
<1>. QED
  BY <1>1, <1>2, <1>4, <1>5, <1>6, <1>7
  DEF ManagerNext, CreateStep, UpdateStep, CreateReplayed, CreateConflicts,
      CreateRefused, UpdateRefused

LEMMA ManagerTypeInit == ManagerInit => ManagerTypeOK
BY JobOperatorsType DEF ManagerInit, ManagerTypeOK

(* Every job record, index entry and code stays of its type.               *)
THEOREM ManagerTypes == ManagerSpec => []ManagerTypeOK
BY ManagerTypeInit, ManagerTypeStep, PTL DEF ManagerSpec

-----------------------------------------------------------------------------
(* Idempotency keys                                                        *)

Keyed(table, idx) ==
  \A k \in Keys :
    /\ idx[k] # NoId => table[idx[k]].key = k
    /\ \A i \in Ids : table[i].key = k => idx[k] = i

AbsentIsNoJob(table) ==
  \A i \in Ids : table[i].status = "absent" => table[i] = NoJob

OnlyIssued(table, ids) ==
  \A i \in Ids : table[i].status # "absent" => i \in ids

(* KeyResolvesItsJob is not inductive by itself: admission stores a record *)
(* under a fresh identifier, which must not be the target of another key,  *)
(* and a job that is gone must have given up its key.                      *)
KeyInv ==
  /\ ManagerTypeOK
  /\ Keyed(jobs, index)
  /\ AbsentIsNoJob(jobs)
  /\ OnlyIssued(jobs, issued)

LEMMA KeyInvImplies == KeyInv => KeyResolvesItsJob
BY DEF KeyInv, Keyed, KeyResolvesItsJob

LEMMA SweptJobFacts ==
  ASSUME NEW j \in Job
  PROVE  /\ Expired(j) => SweptJob(j) = NoJob
         /\ ~Expired(j) => /\ SweptJob(j).key = j.key
                           /\ SweptJob(j).request = j.request
         /\ ~Expired(j) /\ ~TimedOut(j) => SweptJob(j) = j
         /\ TimedOut(j) => SweptJob(j) = FailedJob(j, "JOB_TIMED_OUT")
         /\ TimedOut(j) => ~Expired(j)
BY DEF SweptJob, Expired, TimedOut, Active, Terminal, FailedJob, FinishedJob,
       NoJob, Job

LEMMA FinishedFacts ==
  ASSUME NEW j \in Job, NEW s, NEW cs
  PROVE  /\ FinishedJob(j, s, cs).status = s
         /\ FinishedJob(j, s, cs).key = j.key
         /\ FinishedJob(j, s, cs).codes = cs
         /\ FinishedJob(j, s, cs).request = j.request
BY DEF FinishedJob, Job

LEMMA StartedFacts ==
  ASSUME NEW j \in Job
  PROVE  /\ StartedJob(j).status = "running"
         /\ StartedJob(j).key = j.key
BY DEF StartedJob, Job

LEMMA NoJobFacts == NoJob.status = "absent" /\ NoJob.key = NoKey /\ NoKey \notin Keys
BY JobManagerAssumption DEF NoJob

(* The sweep keeps keys and jobs together.                                 *)
LEMMA SweepKeepsKeys ==
  ASSUME KeyInv
  PROVE  /\ Keyed(SweptJobs, SweptIndex)
         /\ AbsentIsNoJob(SweptJobs)
         /\ OnlyIssued(SweptJobs, issued)
<1>. USE DEF KeyInv
<1>1. \A i \in Ids : jobs[i] \in Job /\ SweptJobs[i] = SweptJob(jobs[i])
  BY DEF ManagerTypeOK, SweptJobs
<1>2. \A k \in Keys : SweptIndex[k] # NoId =>
        SweptIndex[k] = index[k] /\ index[k] \in Ids /\ ~Expired(jobs[index[k]])
  <2>. SUFFICES ASSUME NEW k \in Keys, SweptIndex[k] # NoId
                PROVE  /\ SweptIndex[k] = index[k] /\ index[k] \in Ids
                       /\ ~Expired(jobs[index[k]])
    OBVIOUS
  <2>1. SweptIndex[k] = index[k]
    BY DEF SweptIndex
  <2>2. index[k] \in Ids
    BY <2>1 DEF ManagerTypeOK
  <2>3. jobs[index[k]].key = k
    BY <2>1 DEF Keyed
  <2>. QED
    BY <2>1, <2>2, <2>3 DEF SweptIndex
<1>3. \A k \in Keys : SweptIndex[k] # NoId => SweptJobs[SweptIndex[k]].key = k
  BY <1>1, <1>2, SweptJobFacts DEF Keyed
<1>4. ASSUME NEW k \in Keys, NEW i \in Ids, SweptJobs[i].key = k
      PROVE  SweptIndex[k] = i
  <2>1. ~Expired(jobs[i]) /\ jobs[i].key = k
    BY <1>1, <1>4, SweptJobFacts, NoJobFacts
  <2>2. index[k] = i
    BY <2>1 DEF Keyed
  <2>. QED
    BY <2>1, <2>2 DEF SweptIndex
<1>5. \A i \in Ids : SweptJobs[i].status = "absent" => SweptJobs[i] = NoJob
  <2>. SUFFICES ASSUME NEW i \in Ids, SweptJobs[i].status = "absent"
                PROVE  SweptJobs[i] = NoJob
    OBVIOUS
  <2>1. CASE Expired(jobs[i])
    BY <2>1, <1>1, SweptJobFacts
  <2>2. CASE TimedOut(jobs[i])
    BY <2>2, <1>1, SweptJobFacts, FinishedFacts DEF FailedJob
  <2>3. CASE ~Expired(jobs[i]) /\ ~TimedOut(jobs[i])
    BY <2>3, <1>1, SweptJobFacts DEF AbsentIsNoJob
  <2>. QED
    BY <2>1, <2>2, <2>3
<1>6. \A i \in Ids : SweptJobs[i].status # "absent" => i \in issued
  <2>. SUFFICES ASSUME NEW i \in Ids, SweptJobs[i].status # "absent"
                PROVE  jobs[i].status # "absent"
    BY DEF OnlyIssued
  <2>. QED
    BY <1>1, SweptJobFacts, NoJobFacts DEF TimedOut, Active
<1>. QED
  BY <1>3, <1>4, <1>5, <1>6 DEF Keyed, AbsentIsNoJob, OnlyIssued

(* A table that differs from the swept one in records only, not in keys.   *)
LEMMA RewriteKeepsKeys ==
  ASSUME KeyInv,
         NEW table \in [Ids -> Job],
         \A i \in Ids : /\ table[i].key = SweptJobs[i].key
                        /\ table[i].status = "absent" => table[i] = SweptJobs[i]
                        /\ table[i].status # "absent" => SweptJobs[i].status # "absent"
  PROVE  /\ Keyed(table, SweptIndex)
         /\ AbsentIsNoJob(table)
         /\ OnlyIssued(table, issued)
<1>1. /\ Keyed(SweptJobs, SweptIndex)
      /\ AbsentIsNoJob(SweptJobs)
      /\ OnlyIssued(SweptJobs, issued)
  BY SweepKeepsKeys
<1>2. \A k \in Keys : SweptIndex[k] \in Ids \cup {NoId}
  BY SweepType DEF KeyInv
<1>3. Keyed(table, SweptIndex)
  BY <1>1, <1>2 DEF Keyed
<1>4. AbsentIsNoJob(table) /\ OnlyIssued(table, issued)
  BY <1>1 DEF AbsentIsNoJob, OnlyIssued
<1>. QED
  BY <1>3, <1>4

LEMMA UpdateKeepsKeys ==
  ASSUME KeyInv, NEW i \in Ids, NEW j \in Job, Update(i, j),
         j.key = SweptJobs[i].key, j.status # "absent",
         SweptJobs[i].status # "absent"
  PROVE  Keyed(jobs', index') /\ AbsentIsNoJob(jobs') /\ OnlyIssued(jobs', issued')
<1>1. SweptJobs \in [Ids -> Job]
  BY SweepType DEF KeyInv
<1>2. jobs' \in [Ids -> Job] /\ index' = SweptIndex /\ issued' = issued
  BY <1>1 DEF Update
<1>3. \A n \in Ids : jobs'[n] = IF n = i THEN j ELSE SweptJobs[n]
  BY <1>1 DEF Update
<1>. QED
  BY <1>1, <1>2, <1>3, RewriteKeepsKeys

LEMMA StoreKeepsKeys ==
  ASSUME KeyInv, NEW i \in Ids, NEW k \in Keys \cup {NoKey}, NEW j \in Job,
         Store(i, k, j), j.key = k, j.status # "absent"
  PROVE  Keyed(jobs', index') /\ AbsentIsNoJob(jobs') /\ OnlyIssued(jobs', issued')
<1>1. /\ Keyed(SweptJobs, SweptIndex)
      /\ AbsentIsNoJob(SweptJobs)
      /\ OnlyIssued(SweptJobs, issued)
  BY SweepKeepsKeys
<1>2. SweptJobs \in [Ids -> Job] /\ SweptIndex \in [Keys -> Ids \cup {NoId}]
  BY SweepType DEF KeyInv
<1>3. SweptJobs[i] = NoJob
  BY <1>1 DEF Store, OnlyIssued, AbsentIsNoJob
<1>4. k # NoKey => SweptIndex[k] = NoId
  <2>. SUFFICES ASSUME k # NoKey, SweptIndex[k] # NoId
                PROVE  FALSE
    OBVIOUS
  <2>1. SweptIndex[k] \in Ids /\ SweptJobs[SweptIndex[k]].key = k
    BY <1>1, <1>2 DEF Keyed
  <2>2. SweptJobs[SweptIndex[k]].status # "absent"
    BY <1>1, <2>1, NoJobFacts DEF AbsentIsNoJob
  <2>. QED
    BY <2>2 DEF Store, Replays
<1>5. /\ \A n \in Ids : jobs'[n] = IF n = i THEN j ELSE SweptJobs[n]
      /\ \A m \in Keys : index'[m] = IF m = k THEN i ELSE SweptIndex[m]
      /\ issued' = issued \cup {i}
  BY <1>2, NoJobFacts DEF Store
<1>6. Keyed(jobs', index')
  <2>1. ASSUME NEW m \in Keys, index'[m] # NoId
        PROVE  jobs'[index'[m]].key = m
    <3>1. CASE m = k
      BY <3>1, <1>5
    <3>2. CASE m # k
      <4>1. index'[m] = SweptIndex[m] /\ SweptIndex[m] \in Ids
        BY <3>2, <1>2, <1>5, <2>1
      <4>2. SweptJobs[SweptIndex[m]].key = m
        BY <1>1, <2>1, <4>1 DEF Keyed
      <4>. QED
        BY <1>3, <1>5, <4>1, <4>2, NoJobFacts
    <3>. QED
      BY <3>1, <3>2
  <2>2. ASSUME NEW m \in Keys, NEW n \in Ids, jobs'[n].key = m
        PROVE  index'[m] = n
    <3>1. CASE n = i
      BY <3>1, <1>5, <2>2
    <3>2. CASE n # i
      <4>1. SweptJobs[n].key = m
        BY <3>2, <1>5, <2>2
      <4>2. SweptIndex[m] = n
        BY <1>1, <4>1 DEF Keyed
      <4>3. m # k
        BY <1>4, <4>2, NoJobFacts, JobManagerAssumption
      <4>. QED
        BY <1>5, <4>2, <4>3
    <3>. QED
      BY <3>1, <3>2
  <2>. QED
    BY <2>1, <2>2 DEF Keyed
<1>7. AbsentIsNoJob(jobs') /\ OnlyIssued(jobs', issued')
  BY <1>1, <1>5 DEF AbsentIsNoJob, OnlyIssued
<1>. QED
  BY <1>6, <1>7

LEMMA KeyInit == ManagerInit => KeyInv
BY ManagerTypeInit, NoJobFacts
DEF ManagerInit, KeyInv, Keyed, AbsentIsNoJob, OnlyIssued

LEMMA KeyStep ==
  ASSUME KeyInv, [ManagerNext]_managerVars
  PROVE  KeyInv'
<1>. SUFFICES Keyed(jobs', index') /\ AbsentIsNoJob(jobs') /\ OnlyIssued(jobs', issued')
  BY ManagerTypeStep DEF KeyInv, Keyed, AbsentIsNoJob, OnlyIssued
<1>0. SweptJobs \in [Ids -> Job] /\ jobs \in [Ids -> Job]
  BY SweepType DEF KeyInv, ManagerTypeOK
<1>1. ASSUME NEW r \in Requests, NEW k \in Keys \cup {NoKey}, NEW i \in Ids,
             CreateJob(i, r, k)
      PROVE  Keyed(jobs', index') /\ AbsentIsNoJob(jobs') /\ OnlyIssued(jobs', issued')
  <2>1. /\ QueuedJob(r, k) \in Job
        /\ QueuedJob(r, k).key = k /\ QueuedJob(r, k).status # "absent"
    BY JobOperatorsType DEF QueuedJob
  <2>. QED
    BY <1>1, <2>1, StoreKeepsKeys DEF CreateJob
<1>2. CASE SweepOnly
  BY <1>2, SweepKeepsKeys DEF SweepOnly
<1>3. ASSUME NEW i \in Ids, StartJob(i)
      PROVE  Keyed(jobs', index') /\ AbsentIsNoJob(jobs') /\ OnlyIssued(jobs', issued')
  <2>1. SweptJobs[i] \in Job
    BY <1>0
  <2>. QED
    BY <1>3, <2>1, UpdateKeepsKeys, StartedFacts, JobOperatorsType
    DEF StartJob, MayStart
<1>4. ASSUME NEW i \in Ids, CompleteJob(i)
      PROVE  Keyed(jobs', index') /\ AbsentIsNoJob(jobs') /\ OnlyIssued(jobs', issued')
  <2>1. SweptJobs[i] \in Job
    BY <1>0
  <2>. QED
    BY <1>4, <2>1, UpdateKeepsKeys, FinishedFacts, JobOperatorsType DEF CompleteJob
<1>5. ASSUME NEW i \in Ids, NEW cs \in CodeLists, PartiallyCompleteJob(i, cs)
      PROVE  Keyed(jobs', index') /\ AbsentIsNoJob(jobs') /\ OnlyIssued(jobs', issued')
  <2>1. SweptJobs[i] \in Job
    BY <1>0
  <2>. QED
    BY <1>5, <2>1, UpdateKeepsKeys, FinishedFacts, JobOperatorsType
    DEF PartiallyCompleteJob
<1>6. ASSUME NEW i \in Ids, NEW c \in ReportedCodes \cup {"INTERNAL_JOB_ERROR"},
             FailJob(i, c)
      PROVE  Keyed(jobs', index') /\ AbsentIsNoJob(jobs') /\ OnlyIssued(jobs', issued')
  <2>1. SweptJobs[i] \in Job /\ c \in Codes
    BY <1>0 DEF Codes
  <2>2. FailedJob(SweptJobs[i], c) \in Job
    BY <2>1, JobOperatorsType
  <2>3. /\ FailedJob(SweptJobs[i], c).key = SweptJobs[i].key
        /\ FailedJob(SweptJobs[i], c).status = "failed"
    BY <2>1, FinishedFacts DEF FailedJob
  <2>4. SweptJobs[i].status # "absent" /\ Update(i, FailedJob(SweptJobs[i], c))
    BY <1>6 DEF FailJob, Active
  <2>. QED
    BY <2>2, <2>3, <2>4, UpdateKeepsKeys
<1>7. CASE CloseManager
  BY <1>7 DEF CloseManager, KeyInv
<1>8. CASE Tick
  <2>1. /\ index' = index /\ issued' = issued
        /\ \A i \in Ids : jobs'[i] = Older(jobs[i])
    BY <1>8 DEF Tick
  <2>2. \A j \in Job : /\ Older(j).key = j.key /\ Older(j).status = j.status
                       /\ j.status = "absent" => Older(j) = j
    BY DEF Older, Job
  <2>3. \A i \in Ids : /\ jobs'[i].key = jobs[i].key
                       /\ jobs'[i].status = jobs[i].status
                       /\ jobs[i].status = "absent" => jobs'[i] = jobs[i]
    BY <1>0, <2>1, <2>2
  <2>4. \A k \in Keys : index[k] \in Ids \cup {NoId}
    BY DEF KeyInv, ManagerTypeOK
  <2>5. Keyed(jobs', index')
    BY <2>1, <2>3, <2>4 DEF KeyInv, Keyed
  <2>6. AbsentIsNoJob(jobs') /\ OnlyIssued(jobs', issued')
    BY <2>1, <2>3 DEF KeyInv, AbsentIsNoJob, OnlyIssued
  <2>. QED
    BY <2>5, <2>6
<1>9. CASE UNCHANGED managerVars
  BY <1>9 DEF managerVars, KeyInv
<1>. QED
  BY <1>1, <1>2, <1>3, <1>4, <1>5, <1>6, <1>7, <1>8, <1>9
  DEF ManagerNext, CreateStep, UpdateStep, CreateReplayed, CreateConflicts,
      CreateRefused, UpdateRefused

(* One remembered job per idempotency key, and the index finds it: a       *)
(* retried request is answered from the table as long as the table         *)
(* remembers it, whatever the order of calls, timeouts and expiries.       *)
THEOREM KeysResolve == ManagerSpec => []KeyResolvesItsJob
BY KeyInit, KeyStep, KeyInvImplies, PTL DEF ManagerSpec

-----------------------------------------------------------------------------
(* Limits                                                                  *)

LEMMA LiveIsFinite ==
  ASSUME NEW table
  PROVE  /\ IsFiniteSet(Live(table)) /\ Cardinality(Live(table)) \in Nat
         /\ IsFiniteSet(RunningJobs(table)) /\ Cardinality(RunningJobs(table)) \in Nat
<1>1. Live(table) \subseteq Ids /\ RunningJobs(table) \subseteq Ids
  BY DEF Live, RunningJobs
<1>. QED
  BY <1>1, JobManagerAssumption, FS_Subset, FS_CardinalityType

(* A sweep only takes jobs out.                                            *)
LEMMA SweepShrinks ==
  ASSUME ManagerTypeOK
  PROVE  /\ Live(SweptJobs) \subseteq Live(jobs)
         /\ RunningJobs(SweptJobs) \subseteq RunningJobs(jobs)
<1>1. \A i \in Ids : jobs[i] \in Job /\ SweptJobs[i] = SweptJob(jobs[i])
  BY DEF ManagerTypeOK, SweptJobs
<1>2. \A j \in Job : /\ SweptJob(j).status # "absent" => j.status # "absent"
                     /\ SweptJob(j).status = "running" => j.status = "running"
  <2>. SUFFICES ASSUME NEW j \in Job
                PROVE  /\ SweptJob(j).status # "absent" => j.status # "absent"
                       /\ SweptJob(j).status = "running" => j.status = "running"
    OBVIOUS
  <2>1. CASE Expired(j)
    BY <2>1, SweptJobFacts, NoJobFacts
  <2>2. CASE TimedOut(j)
    BY <2>2, SweptJobFacts, FinishedFacts DEF FailedJob, TimedOut, Active
  <2>3. CASE ~Expired(j) /\ ~TimedOut(j)
    BY <2>3, SweptJobFacts
  <2>. QED
    BY <2>1, <2>2, <2>3
<1>. QED
  BY <1>1, <1>2 DEF Live, RunningJobs

(* WithinLimits after a step that leaves no more jobs, and no more running *)
(* ones, than the swept table held.                                        *)
LEMMA NoMoreThanSwept ==
  ASSUME ManagerTypeOK, WithinLimits, NEW table,
         Live(table) \subseteq Live(SweptJobs),
         RunningJobs(table) \subseteq RunningJobs(SweptJobs)
  PROVE  /\ Cardinality(Live(table)) <= MaxJobs
         /\ Cardinality(RunningJobs(table)) <= MaxRunning
<1>1. Live(table) \subseteq Live(jobs) /\ RunningJobs(table) \subseteq RunningJobs(jobs)
  BY SweepShrinks
<1>2. /\ Cardinality(Live(table)) <= Cardinality(Live(jobs))
      /\ Cardinality(RunningJobs(table)) <= Cardinality(RunningJobs(jobs))
  BY <1>1, LiveIsFinite, FS_Subset
<1>. QED
  BY <1>2, LiveIsFinite, JobManagerAssumption DEF WithinLimits

LEMMA AddingOne ==
  ASSUME NEW S, IsFiniteSet(S), NEW T, NEW x, T \subseteq S \cup {x},
         NEW n \in Nat, Cardinality(S) < n
  PROVE  Cardinality(T) <= n
<1>1. /\ IsFiniteSet(S \cup {x})
      /\ Cardinality(S \cup {x}) <= Cardinality(S) + 1
      /\ Cardinality(S) \in Nat /\ Cardinality(S \cup {x}) \in Nat
  <2>1. /\ IsFiniteSet(S \cup {x})
        /\ Cardinality(S \cup {x}) =
             IF x \in S THEN Cardinality(S) ELSE Cardinality(S) + 1
    BY FS_AddElement
  <2>2. Cardinality(S) \in Nat
    BY FS_CardinalityType
  <2> QED  BY <2>1, <2>2
<1>2. Cardinality(T) <= Cardinality(S \cup {x}) /\ Cardinality(T) \in Nat
  BY <1>1, FS_Subset, FS_CardinalityType
<1>. QED
  BY <1>1, <1>2

LEMMA LimitsInit == ManagerInit => WithinLimits
<1>. SUFFICES ASSUME ManagerInit PROVE WithinLimits
  OBVIOUS
<1>1. Live(jobs) = {} /\ RunningJobs(jobs) = {}
  BY DEF ManagerInit, Live, RunningJobs, NoJob
<1>. QED
  BY <1>1, FS_EmptySet, JobManagerAssumption DEF WithinLimits

LEMMA LimitsStep ==
  ASSUME ManagerTypeOK, WithinLimits, [ManagerNext]_managerVars
  PROVE  WithinLimits'
<1>. SUFFICES /\ Cardinality(Live(jobs')) <= MaxJobs
              /\ Cardinality(RunningJobs(jobs')) <= MaxRunning
  BY DEF WithinLimits, Live, RunningJobs
<1>0. SweptJobs \in [Ids -> Job] /\ jobs \in [Ids -> Job]
  BY SweepType DEF ManagerTypeOK
<1>1. ASSUME NEW r \in Requests, NEW k \in Keys \cup {NoKey}, NEW i \in Ids,
             CreateJob(i, r, k)
      PROVE  /\ Cardinality(Live(jobs')) <= MaxJobs
             /\ Cardinality(RunningJobs(jobs')) <= MaxRunning
  <2>1. \A n \in Ids : jobs'[n] = IF n = i THEN QueuedJob(r, k) ELSE SweptJobs[n]
    BY <1>0, <1>1 DEF CreateJob, Store
  <2>2. Live(jobs') \subseteq Live(SweptJobs) \cup {i}
    BY <2>1 DEF Live
  <2>3. RunningJobs(jobs') \subseteq RunningJobs(SweptJobs)
    BY <2>1 DEF RunningJobs, QueuedJob
  <2>4. Cardinality(Live(SweptJobs)) < MaxJobs
    BY <1>1 DEF CreateJob, Store, HasRoom
  <2>5. Cardinality(Live(jobs')) <= MaxJobs
    BY <2>2, <2>4, AddingOne, LiveIsFinite, JobManagerAssumption
  <2>6. Cardinality(RunningJobs(jobs')) <= MaxRunning
    <3>1. RunningJobs(jobs') \subseteq RunningJobs(jobs)
      BY <2>3, SweepShrinks
    <3>2. Cardinality(RunningJobs(jobs')) <= Cardinality(RunningJobs(jobs))
      BY <3>1, LiveIsFinite, FS_Subset
    <3>. QED
      BY <3>2, LiveIsFinite, JobManagerAssumption DEF WithinLimits
  <2>. QED
    BY <2>5, <2>6
<1>2. CASE SweepOnly
  BY <1>2, NoMoreThanSwept DEF SweepOnly
<1>3. ASSUME NEW i \in Ids, StartJob(i)
      PROVE  /\ Cardinality(Live(jobs')) <= MaxJobs
             /\ Cardinality(RunningJobs(jobs')) <= MaxRunning
  <2>1. \A n \in Ids : jobs'[n] = IF n = i THEN StartedJob(SweptJobs[i]) ELSE SweptJobs[n]
    BY <1>0, <1>3 DEF StartJob, Update
  <2>2. Live(jobs') \subseteq Live(SweptJobs)
    BY <1>3, <2>1 DEF Live, StartJob, MayStart
  <2>3. RunningJobs(jobs') \subseteq RunningJobs(SweptJobs) \cup {i}
    BY <2>1 DEF RunningJobs
  <2>4. Cardinality(RunningJobs(SweptJobs)) < MaxRunning
    BY <1>3 DEF StartJob, MayStart
  <2>5. Cardinality(RunningJobs(jobs')) <= MaxRunning
    BY <2>3, <2>4, AddingOne, LiveIsFinite, JobManagerAssumption
  <2>6. Cardinality(Live(jobs')) <= MaxJobs
    <3>1. Live(jobs') \subseteq Live(jobs)
      BY <2>2, SweepShrinks
    <3>2. Cardinality(Live(jobs')) <= Cardinality(Live(jobs))
      BY <3>1, LiveIsFinite, FS_Subset
    <3>. QED
      BY <3>2, LiveIsFinite, JobManagerAssumption DEF WithinLimits
  <2>. QED
    BY <2>5, <2>6
<1>4. ASSUME NEW i \in Ids, NEW s \in {"completed", "partially-completed", "failed"},
             NEW cs, Active(SweptJobs[i]), Update(i, FinishedJob(SweptJobs[i], s, cs))
      PROVE  /\ Cardinality(Live(jobs')) <= MaxJobs
             /\ Cardinality(RunningJobs(jobs')) <= MaxRunning
  <2>1. FinishedJob(SweptJobs[i], s, cs).status = s
    BY <1>0, FinishedFacts
  <2>2. \A n \in Ids :
          jobs'[n] = IF n = i THEN FinishedJob(SweptJobs[i], s, cs) ELSE SweptJobs[n]
    BY <1>0, <1>4 DEF Update
  <2>3. Live(jobs') \subseteq Live(SweptJobs)
    BY <1>4, <2>1, <2>2 DEF Live, Active
  <2>4. RunningJobs(jobs') \subseteq RunningJobs(SweptJobs)
    BY <2>1, <2>2 DEF RunningJobs
  <2>. QED
    BY <2>3, <2>4, NoMoreThanSwept
<1>5. CASE CloseManager
  BY <1>5 DEF CloseManager, WithinLimits
<1>6. CASE Tick
  <2>1. \A i \in Ids : jobs[i] \in Job /\ jobs'[i] = Older(jobs[i])
    BY <1>0, <1>6 DEF Tick
  <2>2. \A i \in Ids : jobs'[i].status = jobs[i].status
    BY <2>1 DEF Older, Job
  <2>3. Live(jobs') = Live(jobs) /\ RunningJobs(jobs') = RunningJobs(jobs)
    BY <2>2 DEF Live, RunningJobs
  <2>. QED
    BY <2>3 DEF WithinLimits
<1>7. CASE UNCHANGED managerVars
  BY <1>7 DEF managerVars, WithinLimits
<1>8. ASSUME NEW i \in Ids
      PROVE  /\ CompleteJob(i) =>
                  Active(SweptJobs[i]) /\ Update(i, FinishedJob(SweptJobs[i], "completed", {}))
             /\ \A cs : PartiallyCompleteJob(i, cs) =>
                  /\ Active(SweptJobs[i])
                  /\ Update(i, FinishedJob(SweptJobs[i], "partially-completed", cs))
             /\ \A c : FailJob(i, c) =>
                  Active(SweptJobs[i]) /\ Update(i, FinishedJob(SweptJobs[i], "failed", {c}))
  BY DEF CompleteJob, PartiallyCompleteJob, FailJob, FailedJob, Active
<1>. QED
  BY <1>1, <1>2, <1>3, <1>4, <1>5, <1>6, <1>7, <1>8
  DEF ManagerNext, CreateStep, UpdateStep, CreateReplayed, CreateConflicts,
      CreateRefused, UpdateRefused

(* The process never remembers more than maxJobs jobs nor runs more than   *)
(* maxRunningJobs of them.                                                 *)
THEOREM LimitsHold == ManagerSpec => []WithinLimits
BY LimitsInit, LimitsStep, ManagerTypes, PTL DEF ManagerSpec

-----------------------------------------------------------------------------
(* Timeouts and expiry                                                     *)

LEMMA LateStep ==
  ASSUME ManagerTypeOK, [ManagerNext]_managerVars
  PROVE  \A i \in Ids :
           Active(jobs[i]) /\ jobs[i].age >= ActiveTimeout /\ ~Active(jobs'[i])
             => jobs'[i].codes = {"JOB_TIMED_OUT"}
<1>. SUFFICES ASSUME NEW i \in Ids, TimedOut(jobs[i]), ~Active(jobs'[i])
              PROVE  jobs'[i].codes = {"JOB_TIMED_OUT"}
  BY DEF TimedOut
<1>0. SweptJobs \in [Ids -> Job] /\ jobs[i] \in Job
  BY SweepType DEF ManagerTypeOK
<1>1. /\ SweptJobs[i] = FailedJob(jobs[i], "JOB_TIMED_OUT")
      /\ SweptJobs[i].codes = {"JOB_TIMED_OUT"}
      /\ SweptJobs[i].status = "failed"
  BY <1>0, SweptJobFacts, FinishedFacts DEF SweptJobs, FailedJob
<1>2. ASSUME NEW n \in Ids, NEW j, jobs' = [SweptJobs EXCEPT ![n] = j],
             SweptJobs[n].status # "failed"
      PROVE  jobs'[i] = SweptJobs[i]
  BY <1>0, <1>1, <1>2
<1>3. ASSUME NEW r \in Requests, NEW k \in Keys \cup {NoKey}, NEW n \in Ids,
             CreateJob(n, r, k)
      PROVE  jobs'[i] = SweptJobs[i] \/ Active(jobs'[i])
  BY <1>0, <1>3 DEF CreateJob, Store, QueuedJob, Active
<1>4. CASE SweepOnly
  BY <1>1, <1>4 DEF SweepOnly
<1>5. ASSUME NEW n \in Ids,
             StartJob(n) \/ CompleteJob(n)
             \/ (\E cs \in CodeLists : PartiallyCompleteJob(n, cs))
             \/ (\E c \in ReportedCodes \cup {"INTERNAL_JOB_ERROR"} : FailJob(n, c))
      PROVE  jobs'[i] = SweptJobs[i]
  BY <1>2, <1>5
  DEF StartJob, MayStart, CompleteJob, PartiallyCompleteJob, FailJob, Active, Update
<1>6. CASE CloseManager \/ Tick \/ UNCHANGED managerVars
  <2>1. \A j \in Job : Older(j).status = j.status
    BY DEF Older, Job
  <2>. QED
    BY <1>0, <1>6, <2>1 DEF CloseManager, Tick, managerVars, TimedOut, Active
<1>. QED
  BY <1>1, <1>3, <1>4, <1>5, <1>6
  DEF ManagerNext, CreateStep, UpdateStep, CreateReplayed, CreateConflicts,
      CreateRefused, UpdateRefused

(* A worker that overran activeJobTimeoutMs can record nothing any more:   *)
(* whoever touches the table first, the job ends as JOB_TIMED_OUT.         *)
THEOREM LateResultsTimeOut == ManagerSpec => LateResultIsTimeout
<1>1. ManagerTypeOK /\ [ManagerNext]_managerVars =>
        [\A i \in Ids :
           Active(jobs[i]) /\ jobs[i].age >= ActiveTimeout /\ ~Active(jobs'[i])
             => jobs'[i].codes = {"JOB_TIMED_OUT"}]_managerVars
  BY LateStep
<1>. QED
  BY <1>1, ManagerTypes, PTL DEF ManagerSpec, LateResultIsTimeout

LEMMA ForgetStep ==
  ASSUME KeyInv, KeyInv', [ManagerNext]_managerVars
  PROVE  \A i \in Ids :
           jobs[i].status # "absent" /\ jobs'[i].status = "absent"
             => /\ Terminal(jobs[i]) /\ jobs[i].age >= Retention
                /\ \A k \in Keys : index'[k] # i
<1>. SUFFICES ASSUME NEW i \in Ids, jobs[i].status # "absent",
                     jobs'[i].status = "absent"
              PROVE  Expired(jobs[i]) /\ \A k \in Keys : index'[k] # i
  BY DEF Expired
<1>0. /\ SweptJobs \in [Ids -> Job] /\ jobs[i] \in Job
      /\ SweptJobs[i] = SweptJob(jobs[i])
  BY SweepType DEF KeyInv, ManagerTypeOK, SweptJobs
<1>1. \A k \in Keys : index'[k] # i
  <2>1. jobs'[i].key = NoKey
    BY NoJobFacts DEF KeyInv, AbsentIsNoJob
  <2>. QED
    BY <2>1, JobManagerAssumption DEF KeyInv, Keyed
<1>2. SweptJobs[i].status = "absent" => Expired(jobs[i])
  <2>1. CASE TimedOut(jobs[i])
    BY <1>0, <2>1, SweptJobFacts, FinishedFacts DEF FailedJob
  <2>2. CASE ~TimedOut(jobs[i])
    BY <1>0, <2>2, SweptJobFacts
  <2>. QED
    BY <2>1, <2>2
<1>3. ASSUME NEW r \in Requests, NEW k \in Keys \cup {NoKey}, NEW n \in Ids,
             CreateJob(n, r, k)
      PROVE  SweptJobs[i].status = "absent"
  BY <1>0, <1>3 DEF CreateJob, Store, QueuedJob
<1>4. ASSUME SweepOnly PROVE SweptJobs[i].status = "absent"
  BY <1>4 DEF SweepOnly
<1>5. ASSUME NEW n \in Ids, NEW j, j.status # "absent", Update(n, j)
      PROVE  SweptJobs[i].status = "absent"
  BY <1>0, <1>5 DEF Update
<1>6. ASSUME NEW n \in Ids,
             StartJob(n) \/ CompleteJob(n)
             \/ (\E cs \in CodeLists : PartiallyCompleteJob(n, cs))
             \/ (\E c \in ReportedCodes \cup {"INTERNAL_JOB_ERROR"} : FailJob(n, c))
      PROVE  SweptJobs[i].status = "absent"
  <2>1. SweptJobs[n] \in Job
    BY <1>0
  <2>2. /\ StartedJob(SweptJobs[n]).status # "absent"
        /\ \A s \in {"completed", "partially-completed", "failed"} :
             \A cs : FinishedJob(SweptJobs[n], s, cs).status # "absent"
    BY <2>1, StartedFacts, FinishedFacts
  <2>. QED
    BY <1>5, <1>6, <2>2
    DEF StartJob, CompleteJob, PartiallyCompleteJob, FailJob, FailedJob
<1>7. CASE CloseManager \/ Tick \/ UNCHANGED managerVars
  <2>1. \A j \in Job : Older(j).status = j.status
    BY DEF Older, Job
  <2>2. jobs'[i].status = jobs[i].status
    BY <1>0, <1>7, <2>1 DEF CloseManager, Tick, managerVars
  <2>. QED
    BY <2>2
<1>. QED
  BY <1>1, <1>2, <1>3, <1>4, <1>6, <1>7
  DEF ManagerNext, CreateStep, UpdateStep, CreateReplayed, CreateConflicts,
      CreateRefused, UpdateRefused

(* A terminal job can be polled for the whole retention period, and when   *)
(* it is dropped no key is left pointing at it.                            *)
THEOREM ForgottenWhenExpired == ManagerSpec => ForgottenOnlyWhenExpired
<1>1. KeyInv /\ KeyInv' /\ [ManagerNext]_managerVars =>
        [\A i \in Ids :
           jobs[i].status # "absent" /\ jobs'[i].status = "absent"
             => /\ Terminal(jobs[i]) /\ jobs[i].age >= Retention
                /\ \A k \in Keys : index'[k] # i]_managerVars
  BY ForgetStep
<1>2. KeyInv /\ [ManagerNext]_managerVars => KeyInv'
  BY KeyStep
<1>. QED
  BY <1>1, <1>2, KeyInit, PTL DEF ManagerSpec, ForgottenOnlyWhenExpired

-----------------------------------------------------------------------------
(* Refinement of the abstract life cycle                                   *)

CodesFit(j) ==
  /\ j.status \in {"absent", "queued", "running", "completed"} => j.codes = {}
  /\ j.status \in {"failed", "partially-completed"} => j.codes # {}

LifeInv ==
  /\ KeyInv
  /\ WithinLimits
  /\ \A i \in Ids : CodesFit(jobs[i])

(* What one step, sweep included, does to job i.                           *)
LifeEdge(i) ==
  \/ /\ jobs'[i].status = jobs[i].status /\ jobs'[i].codes = jobs[i].codes
     /\ i \in issued' <=> i \in issued
  \/ /\ jobs[i] = NoJob /\ jobs'[i].status = "queued" /\ jobs'[i].codes = {}
     /\ i \notin issued /\ i \in issued'
  \/ /\ i \in issued /\ i \in issued'
     /\ \/ /\ jobs[i].status = "queued" /\ jobs'[i].status = "running"
           /\ jobs'[i].codes = {}
        \/ /\ jobs[i].status = "running" /\ jobs'[i].status = "completed"
           /\ jobs'[i].codes = {}
        \/ /\ jobs[i].status = "running"
           /\ jobs'[i].status = "partially-completed"
           /\ jobs'[i].codes # {}
        \/ /\ Active(jobs[i]) /\ jobs'[i].status = "failed" /\ jobs'[i].codes # {}
        \/ /\ Terminal(jobs[i]) /\ jobs'[i].status = "absent" /\ jobs'[i].codes = {}

(* The sweep alone moves a job along an edge, and never an active one that *)
(* it leaves active.                                                       *)
LEMMA SweptEdge ==
  ASSUME KeyInv, NEW i \in Ids, jobs'[i] = SweptJobs[i], issued \subseteq issued',
         i \in issued' => i \in issued
  PROVE  LifeEdge(i)
<1>0. jobs[i] \in Job /\ SweptJobs[i] = SweptJob(jobs[i])
  BY DEF KeyInv, ManagerTypeOK, SweptJobs
<1>1. jobs[i].status # "absent" => i \in issued
  BY DEF KeyInv, OnlyIssued
<1>2. CASE Expired(jobs[i])
  <2>1. jobs'[i].status = "absent" /\ jobs'[i].codes = {}
    BY <1>0, <1>2, SweptJobFacts DEF NoJob
  <2>. QED
    BY <1>1, <1>2, <2>1 DEF Expired, Terminal, LifeEdge
<1>3. CASE TimedOut(jobs[i])
  <2>1. jobs'[i].status = "failed" /\ jobs'[i].codes # {}
    BY <1>0, <1>3, SweptJobFacts, FinishedFacts DEF FailedJob
  <2>. QED
    BY <1>1, <1>3, <2>1 DEF TimedOut, Active, LifeEdge
<1>4. CASE ~Expired(jobs[i]) /\ ~TimedOut(jobs[i])
  BY <1>0, <1>4, SweptJobFacts DEF LifeEdge
<1>. QED
  BY <1>2, <1>3, <1>4

LEMMA ActiveNotSwept ==
  ASSUME KeyInv, NEW i \in Ids, Active(SweptJobs[i])
  PROVE  SweptJobs[i] = jobs[i] /\ i \in issued /\ jobs[i] \in Job
<1>0. jobs[i] \in Job /\ SweptJobs[i] = SweptJob(jobs[i])
  BY DEF KeyInv, ManagerTypeOK, SweptJobs
<1>1. ~Expired(jobs[i])
  BY <1>0, SweptJobFacts, NoJobFacts DEF Active
<1>2. ~TimedOut(jobs[i])
  BY <1>0, SweptJobFacts, FinishedFacts DEF Active, FailedJob
<1>3. SweptJobs[i] = jobs[i]
  BY <1>0, <1>1, <1>2, SweptJobFacts
<1>. QED
  BY <1>0, <1>3 DEF KeyInv, OnlyIssued, Active

LEMMA LifeEdges ==
  ASSUME LifeInv, [ManagerNext]_managerVars
  PROVE  \A i \in Ids : LifeEdge(i)
<1>. SUFFICES ASSUME NEW i \in Ids PROVE LifeEdge(i)
  OBVIOUS
<1>. KeyInv
  BY DEF LifeInv
<1>0. SweptJobs \in [Ids -> Job] /\ jobs \in [Ids -> Job] /\ jobs[i] \in Job
  BY SweepType DEF KeyInv, ManagerTypeOK
<1>1. ASSUME NEW r \in Requests, NEW k \in Keys \cup {NoKey}, NEW n \in Ids,
             CreateJob(n, r, k)
      PROVE  LifeEdge(i)
  <2>1. /\ jobs'[n] = QueuedJob(r, k) /\ issued' = issued \cup {n} /\ n \notin issued
        /\ n # i => jobs'[i] = SweptJobs[i]
    BY <1>0, <1>1 DEF CreateJob, Store
  <2>2. CASE n = i
    <3>1. jobs[i] = NoJob
      BY <2>1, <2>2 DEF KeyInv, OnlyIssued, AbsentIsNoJob
    <3>. QED
      BY <2>1, <2>2, <3>1 DEF LifeEdge, QueuedJob
  <2>3. CASE n # i
    BY <2>1, <2>3, SweptEdge
  <2>. QED
    BY <2>2, <2>3
<1>2. CASE SweepOnly
  BY <1>2, SweptEdge DEF SweepOnly
<1>3. ASSUME NEW n \in Ids, NEW j, Active(SweptJobs[n]), Update(n, j),
             \/ /\ SweptJobs[n].status = "queued"
                /\ j.status = "running" /\ j.codes = {}
             \/ /\ SweptJobs[n].status = "running"
                /\ j.status = "completed" /\ j.codes = {}
             \/ /\ SweptJobs[n].status = "running"
                /\ j.status = "partially-completed" /\ j.codes # {}
             \/ j.status = "failed" /\ j.codes # {}
      PROVE  LifeEdge(i)
  <2>1. jobs'[n] = j /\ (n # i => jobs'[i] = SweptJobs[i]) /\ issued' = issued
    BY <1>0, <1>3 DEF Update
  <2>2. SweptJobs[n] = jobs[n] /\ n \in issued
    BY <1>3, ActiveNotSwept
  <2>3. CASE n = i
    BY <1>3, <2>1, <2>2, <2>3 DEF LifeEdge
  <2>4. CASE n # i
    BY <2>1, <2>4, SweptEdge
  <2>. QED
    BY <2>3, <2>4
<1>4. ASSUME NEW n \in Ids, StartJob(n)
      PROVE  LifeEdge(i)
  <2>1. Active(SweptJobs[n]) /\ SweptJobs[n].status = "queued"
    BY <1>4 DEF StartJob, MayStart, Active
  <2>2. SweptJobs[n] = jobs[n] /\ jobs[n] \in Job /\ jobs[n].codes = {}
    BY <1>4, <2>1, ActiveNotSwept DEF LifeInv, CodesFit
  <2>3. StartedJob(SweptJobs[n]).status = "running" /\ StartedJob(SweptJobs[n]).codes = {}
    BY <2>2 DEF StartedJob, Job
  <2>4. Update(n, StartedJob(SweptJobs[n]))
    BY <1>4 DEF StartJob
  <2>. QED
    BY <1>3, <2>1, <2>3, <2>4
<1>5. ASSUME NEW n \in Ids, NEW s, NEW cs, Active(SweptJobs[n]),
             Update(n, FinishedJob(SweptJobs[n], s, cs)),
             \/ SweptJobs[n].status = "running" /\ s = "completed" /\ cs = {}
             \/ SweptJobs[n].status = "running" /\ s = "partially-completed" /\ cs # {}
             \/ s = "failed" /\ cs # {}
      PROVE  LifeEdge(i)
  <2>1. /\ FinishedJob(SweptJobs[n], s, cs).status = s
        /\ FinishedJob(SweptJobs[n], s, cs).codes = cs
    BY <1>0, FinishedFacts
  <2>. QED
    BY <1>3, <1>5, <2>1
<1>6. ASSUME NEW n \in Ids, CompleteJob(n)
      PROVE  LifeEdge(i)
  BY <1>5, <1>6 DEF CompleteJob, Active
<1>7. ASSUME NEW n \in Ids, NEW cs, PartiallyCompleteJob(n, cs)
      PROVE  LifeEdge(i)
  BY <1>5, <1>7 DEF PartiallyCompleteJob, Active
<1>8. ASSUME NEW n \in Ids, NEW c, FailJob(n, c)
      PROVE  LifeEdge(i)
  BY <1>5, <1>8 DEF FailJob, FailedJob
<1>9. CASE CloseManager \/ UNCHANGED managerVars
  BY <1>9 DEF CloseManager, managerVars, LifeEdge
<1>10. CASE Tick
  <2>1. Older(jobs[i]).status = jobs[i].status /\ Older(jobs[i]).codes = jobs[i].codes
    BY <1>0 DEF Older, Job
  <2>. QED
    BY <1>10, <2>1 DEF Tick, LifeEdge
<1>. QED
  BY <1>1, <1>2, <1>4, <1>6, <1>7, <1>8, <1>9, <1>10
  DEF ManagerNext, CreateStep, UpdateStep, CreateReplayed, CreateConflicts,
      CreateRefused, UpdateRefused

LEMMA LifeInitLemma == ManagerInit => LifeInv
BY KeyInit, LimitsInit DEF ManagerInit, LifeInv, CodesFit, NoJob

LEMMA LifeStep ==
  ASSUME LifeInv, [ManagerNext]_managerVars
  PROVE  LifeInv'
<1>1. KeyInv' /\ WithinLimits'
  BY KeyStep, LimitsStep DEF LifeInv, KeyInv
<1>2. ASSUME NEW i \in Ids PROVE CodesFit(jobs'[i])
  <2>1. LifeEdge(i) /\ CodesFit(jobs[i])
    BY LifeEdges DEF LifeInv
  <2>. QED
    BY <2>1 DEF LifeEdge, CodesFit
<1>. QED
  BY <1>1, <1>2 DEF LifeInv, CodesFit

LEMMA SameCardinality == \A S : Lifecycle!Cardinality(S) = Cardinality(S)
BY DEF Lifecycle!Cardinality, Cardinality

LEMMA PhaseSets ==
  KeyInv => /\ Lifecycle!Remembered([i \in Ids |-> PhaseOf(i)]) = Live(jobs)
            /\ Lifecycle!Executing([i \in Ids |-> PhaseOf(i)]) = RunningJobs(jobs)
BY DEF KeyInv, OnlyIssued, ManagerTypeOK, Job, Statuses, PhaseOf, Live, RunningJobs,
       Lifecycle!Remembered, Lifecycle!Executing

LEMMA InitMapsToInit == ManagerInit => Lifecycle!Init
BY DEF ManagerInit, Lifecycle!Init, PhaseOf, NoJob

LEMMA StepMapsToStep ==
  ASSUME LifeInv, [ManagerNext]_managerVars
  PROVE  [Lifecycle!Next]_(Lifecycle!lifecycleVars)
<1>. DEFINE ph == [i \in Ids |-> PhaseOf(i)]
            out == [i \in Ids |-> jobs[i].codes]
<1>1. LifeInv' /\ KeyInv' /\ WithinLimits' /\ KeyInv
  BY LifeStep DEF LifeInv
<1>2. ph' \in [Ids -> Lifecycle!Phases]
  BY <1>1 DEF PhaseOf, Lifecycle!Phases, Lifecycle!TerminalPhases, KeyInv,
              ManagerTypeOK, Job, Statuses
<1>3. ASSUME NEW i \in Ids
      PROVE  /\ ph'[i] # ph[i] => <<ph[i], ph'[i]>> \in Lifecycle!MayFollow
             /\ ph[i] \in Lifecycle!TerminalPhases /\ ph'[i] = ph[i] => out'[i] = out[i]
             /\ ph'[i] \in {"queued", "running", "completed"} => out'[i] = {}
             /\ ph'[i] \in {"failed", "partially-completed"} => out'[i] # {}
  <2>1. LifeEdge(i) /\ CodesFit(jobs'[i])
    BY <1>1, LifeEdges DEF LifeInv
  <2>2. /\ ph[i] = PhaseOf(i) /\ ph'[i] = PhaseOf(i)'
        /\ out[i] = jobs[i].codes /\ out'[i] = jobs'[i].codes
    OBVIOUS
  <2>3. ph'[i] # ph[i] => <<ph[i], ph'[i]>> \in Lifecycle!MayFollow
    BY <2>1, <2>2 DEF LifeEdge, PhaseOf, Active, Terminal, NoJob,
       Lifecycle!MayFollow, Lifecycle!TerminalPhases
  <2>4. ph[i] \in Lifecycle!TerminalPhases /\ ph'[i] = ph[i] => out'[i] = out[i]
    BY <2>1, <2>2 DEF LifeEdge, PhaseOf, Active, Terminal, NoJob,
       Lifecycle!TerminalPhases
  <2>5. /\ ph'[i] \in {"queued", "running", "completed"} => out'[i] = {}
        /\ ph'[i] \in {"failed", "partially-completed"} => out'[i] # {}
    BY <2>1, <2>2 DEF CodesFit, PhaseOf
  <2>. QED
    BY <2>3, <2>4, <2>5
<1>4. /\ Lifecycle!Cardinality(Lifecycle!Remembered(ph')) <= MaxJobs
      /\ Lifecycle!Cardinality(Lifecycle!Executing(ph')) <= MaxRunning
  <2>1. (KeyInv => /\ Lifecycle!Remembered([i \in Ids |-> PhaseOf(i)]) = Live(jobs)
                   /\ Lifecycle!Executing([i \in Ids |-> PhaseOf(i)]) = RunningJobs(jobs))'
    BY PhaseSets, PTL
  <2>2. /\ Lifecycle!Remembered(ph') = Live(jobs)'
        /\ Lifecycle!Executing(ph') = RunningJobs(jobs)'
    BY <1>1, <2>1
  <2>. QED
    BY <1>1, <2>2, SameCardinality DEF WithinLimits
<1>. QED
  BY <1>2, <1>3, <1>4 DEF Lifecycle!Next, Lifecycle!Remembered, Lifecycle!Executing

(* The job manager implements the abstract life cycle: every call, sweep   *)
(* included, moves each job along at most one edge of it, and within the   *)
(* limits.                                                                 *)
THEOREM RefinesLifecycle == ManagerSpec => ImplementsLifecycle
<1>1. LifeInv /\ [ManagerNext]_managerVars => [Lifecycle!Next]_(Lifecycle!lifecycleVars)
  BY StepMapsToStep
<1>2. LifeInv /\ [ManagerNext]_managerVars => LifeInv'
  BY LifeStep
<1>. QED
  BY <1>1, <1>2, LifeInitLemma, InitMapsToInit, PTL
  DEF ManagerSpec, ImplementsLifecycle, Lifecycle!Spec

-----------------------------------------------------------------------------
(* The dispatcher                                                          *)

-----------------------------------------------------------------------------
(* Sequences: what appending to and taking from the queue does to the set  *)
(* of waiting tasks.                                                       *)

Distinct(q) == \A m, n \in 1..Len(q) : q[m] = q[n] => m = n

LEMMA RangeOfSeq ==
  ASSUME NEW q \in Seq(Ids)
  PROVE  Range(q) = {q[n] : n \in 1..Len(q)} /\ Range(q) \subseteq Ids
BY DEF Range

LEMMA AppendFacts ==
  ASSUME NEW q \in Seq(Ids), NEW i \in Ids
  PROVE  /\ Append(q, i) \in Seq(Ids)
         /\ Len(Append(q, i)) = Len(q) + 1
         /\ Range(Append(q, i)) = Range(q) \cup {i}
         /\ Distinct(q) /\ i \notin Range(q) => Distinct(Append(q, i))
<1>1. /\ Append(q, i) \in Seq(Ids) /\ Len(Append(q, i)) = Len(q) + 1
      /\ \A n \in 1..Len(q) : Append(q, i)[n] = q[n]
      /\ Append(q, i)[Len(q) + 1] = i
  OBVIOUS
<1>2. Range(Append(q, i)) = Range(q) \cup {i}
  <2>1. /\ Range(Append(q, i)) = {Append(q, i)[n] : n \in 1..Len(Append(q, i))}
        /\ Range(q) = {q[n] : n \in 1..Len(q)}
    BY <1>1, RangeOfSeq
  <2>2. ASSUME NEW n \in 1..Len(Append(q, i))
        PROVE  Append(q, i)[n] \in Range(q) \cup {i}
    <3>1. CASE n = Len(q) + 1
      BY <3>1, <1>1
    <3>2. CASE n # Len(q) + 1
      <4>1. n \in 1..Len(q)
        BY <3>2, <1>1
      <4>. QED
        BY <4>1, <1>1, <2>1
    <3>. QED
      BY <3>1, <3>2
  <2>3. \A n \in 1..Len(q) : n \in 1..Len(Append(q, i))
    BY <1>1
  <2>4. Len(q) + 1 \in 1..Len(Append(q, i))
    BY <1>1
  <2>5. Range(q) \subseteq Range(Append(q, i)) /\ i \in Range(Append(q, i))
    <3>1. ASSUME NEW n \in 1..Len(q) PROVE q[n] \in Range(Append(q, i))
      BY <1>1, <2>1, <2>3
    <3>2. i \in Range(Append(q, i))
      BY <1>1, <2>1, <2>4
    <3>. QED
      BY <3>1, <3>2, <2>1
  <2>. QED
    BY <2>1, <2>2, <2>5
<1>3. ASSUME Distinct(q), i \notin Range(q) PROVE Distinct(Append(q, i))
  BY <1>1, <1>3, RangeOfSeq DEF Distinct
<1>. QED
  BY <1>1, <1>2, <1>3

LEMMA TailFacts ==
  ASSUME NEW q \in Seq(Ids), q # <<>>
  PROVE  /\ Tail(q) \in Seq(Ids)
         /\ Len(q) = Len(Tail(q)) + 1
         /\ Head(q) \in Ids
         /\ Range(q) = Range(Tail(q)) \cup {Head(q)}
         /\ Distinct(q) => Distinct(Tail(q)) /\ Head(q) \notin Range(Tail(q))
<1>1. /\ Tail(q) \in Seq(Ids) /\ Len(q) = Len(Tail(q)) + 1 /\ Len(q) \in Nat \ {0}
      /\ Head(q) = q[1] /\ Head(q) \in Ids
      /\ \A n \in 1..Len(Tail(q)) : Tail(q)[n] = q[n + 1]
  OBVIOUS
<1>2. Range(q) = Range(Tail(q)) \cup {Head(q)}
  <2>1. Range(q) \subseteq Range(Tail(q)) \cup {Head(q)}
    <3>1. ASSUME NEW n \in 1..Len(q)
          PROVE  q[n] \in Range(Tail(q)) \cup {Head(q)}
      <4>1. CASE n = 1
        BY <4>1, <1>1
      <4>2. CASE n # 1
        <5>1. n - 1 \in 1..Len(Tail(q)) /\ Tail(q)[n - 1] = q[n]
          BY <4>2, <1>1
        <5>. QED
          BY <1>1, <5>1, RangeOfSeq
      <4>. QED
        BY <4>1, <4>2
    <3>. QED
      BY <3>1, RangeOfSeq
  <2>2. Range(Tail(q)) \cup {Head(q)} \subseteq Range(q)
    <3>1. ASSUME NEW n \in 1..Len(Tail(q)) PROVE Tail(q)[n] \in Range(q)
      <4>1. n + 1 \in 1..Len(q) /\ Tail(q)[n] = q[n + 1]
        BY <1>1
      <4>. QED
        BY <4>1, RangeOfSeq
    <3>2. 1 \in 1..Len(q)
      BY <1>1
    <3>3. Head(q) \in Range(q)
      BY <3>2, <1>1, RangeOfSeq
    <3>4. Range(Tail(q)) = {Tail(q)[n] : n \in 1..Len(Tail(q))}
      BY <1>1, RangeOfSeq
    <3>. QED
      BY <3>1, <3>3, <3>4
  <2>. QED
    BY <2>1, <2>2
<1>3. ASSUME Distinct(q)
      PROVE  Distinct(Tail(q)) /\ Head(q) \notin Range(Tail(q))
  <2>1. \A n \in 1..Len(Tail(q)) : n + 1 \in 1..Len(q)
    BY <1>1
  <2>2. Distinct(Tail(q))
    BY <1>1, <1>3, <2>1 DEF Distinct
  <2>3. Head(q) \notin Range(Tail(q))
    <3>1. ASSUME NEW n \in 1..Len(Tail(q)) PROVE Tail(q)[n] # Head(q)
      <4>1. /\ Tail(q)[n] = q[n + 1] /\ n + 1 \in 1..Len(q)
            /\ 1 \in 1..Len(q) /\ n + 1 # 1
        BY <1>1, <2>1
      <4>. QED
        BY <1>1, <1>3, <4>1 DEF Distinct
    <3>2. Range(Tail(q)) = {Tail(q)[n] : n \in 1..Len(Tail(q))}
      BY <1>1, RangeOfSeq
    <3>. QED
      BY <3>1, <3>2
  <2>. QED
    BY <2>2, <2>3
<1>. QED
  BY <1>1, <1>2, <1>3

LEMMA EmptyQueue == Range(<<>>) = {} /\ <<>> \in Seq(Ids) /\ Distinct(<<>>) /\ Len(<<>>) = 0
BY DEF Range, Distinct

-----------------------------------------------------------------------------
(* The job table, seen from the dispatcher: which calls can make a job     *)
(* queued or running.                                                      *)

NoNewActive(i) ==
  \A n \in Ids \ {i} :
    /\ jobs'[n].status = "queued" => jobs[n].status = "queued"
    /\ jobs'[n].status = "running" => jobs[n].status = "running"

LEMMA SweptActive ==
  ASSUME ManagerTypeOK, NEW n \in Ids
  PROVE  /\ SweptJobs[n] \in Job
         /\ Active(SweptJobs[n]) => SweptJobs[n] = jobs[n]
<1>1. jobs[n] \in Job /\ SweptJobs[n] = SweptJob(jobs[n])
  BY DEF ManagerTypeOK, SweptJobs
<1>2. SweptJobs[n] \in Job
  BY <1>1, JobOperatorsType
<1>3. CASE Expired(jobs[n])
  BY <1>1, <1>2, <1>3, SweptJobFacts, NoJobFacts DEF Active
<1>4. CASE TimedOut(jobs[n])
  BY <1>1, <1>2, <1>4, SweptJobFacts, FinishedFacts DEF Active, FailedJob
<1>5. CASE ~Expired(jobs[n]) /\ ~TimedOut(jobs[n])
  BY <1>1, <1>2, <1>5, SweptJobFacts
<1>. QED
  BY <1>3, <1>4, <1>5

LEMMA FailedIfActiveFacts ==
  ASSUME NEW j \in Job
  PROVE  FailedIfActive(j) \in Job /\ ~Active(FailedIfActive(j))
<1>1. FailedJob(j, "INTERNAL_JOB_ERROR") \in Job
  BY JobOperatorsType DEF Codes
<1>2. FailedJob(j, "INTERNAL_JOB_ERROR").status = "failed"
  BY FinishedFacts DEF FailedJob
<1>. QED
  BY <1>1, <1>2 DEF FailedIfActive, Active

(* A sweep makes no job active.                                            *)
LEMMA SweepEffect ==
  ASSUME ManagerTypeOK, SweepOnly, NEW i
  PROVE  ManagerTypeOK' /\ NoNewActive(i) /\ issued' = issued /\ closed' = closed
<1>1. ManagerTypeOK'
  BY SweepType DEF SweepOnly, ManagerTypeOK
<1>2. jobs' = SweptJobs /\ issued' = issued /\ closed' = closed
  BY DEF SweepOnly
<1>3. NoNewActive(i)
  BY <1>2, SweptActive DEF NoNewActive, Active
<1>. QED
  BY <1>1, <1>2, <1>3

(* An update touches one record.                                           *)
LEMMA UpdateEffect ==
  ASSUME ManagerTypeOK, NEW i \in Ids, NEW j \in Job, Update(i, j)
  PROVE  /\ ManagerTypeOK' /\ NoNewActive(i) /\ jobs'[i] = j
         /\ issued' = issued /\ closed' = closed
<1>1. ManagerTypeOK'
  BY SweepType DEF Update, ManagerTypeOK
<1>2. /\ jobs' = [SweptJobs EXCEPT ![i] = j] /\ SweptJobs \in [Ids -> Job]
      /\ issued' = issued /\ closed' = closed
  BY SweepType DEF Update
<1>3. jobs'[i] = j /\ \A n \in Ids \ {i} : jobs'[n] = SweptJobs[n]
  BY <1>2
<1>4. NoNewActive(i)
  BY <1>3, SweptActive DEF NoNewActive, Active
<1>. QED
  BY <1>1, <1>2, <1>3, <1>4

(* So does admission.                                                      *)
LEMMA StoreEffect ==
  ASSUME ManagerTypeOK, NEW i \in Ids, NEW k \in Keys \cup {NoKey},
         NEW j \in Job, Store(i, k, j)
  PROVE  /\ ManagerTypeOK' /\ NoNewActive(i) /\ jobs'[i] = j
         /\ issued' = issued \cup {i} /\ closed' = closed /\ i \notin issued
<1>1. ManagerTypeOK'
  BY SweepType DEF Store, ManagerTypeOK
<1>2. /\ jobs' = [SweptJobs EXCEPT ![i] = j] /\ SweptJobs \in [Ids -> Job]
      /\ issued' = issued \cup {i} /\ closed' = closed /\ i \notin issued
  BY SweepType DEF Store
<1>3. jobs'[i] = j /\ \A n \in Ids \ {i} : jobs'[n] = SweptJobs[n]
  BY <1>2
<1>4. NoNewActive(i)
  BY <1>3, SweptActive DEF NoNewActive, Active
<1>. QED
  BY <1>1, <1>2, <1>3, <1>4

(* A result leaves its job terminal, and only a job that was active takes  *)
(* one; the sweep of a refused call leaves no more active jobs either.     *)
LEMMA ReportEffect ==
  ASSUME ManagerTypeOK, NEW i \in Ids, TaskReports(i)
  PROVE  /\ ManagerTypeOK' /\ NoNewActive(NoId)
         /\ issued' = issued /\ closed' = closed
<1>0. SweptJobs[i] \in Job
  BY SweptActive
<1>1. ASSUME NEW j \in Job, ~Active(j), Update(i, j)
      PROVE  /\ ManagerTypeOK' /\ NoNewActive(NoId)
             /\ issued' = issued /\ closed' = closed
  <2>1. /\ ManagerTypeOK' /\ NoNewActive(i) /\ jobs'[i] = j
        /\ issued' = issued /\ closed' = closed
    BY <1>1, UpdateEffect
  <2>. QED
    BY <1>1, <2>1 DEF NoNewActive, Active
<1>2. CASE CompleteJob(i)
  BY <1>0, <1>1, <1>2, JobOperatorsType, FinishedFacts DEF CompleteJob, Active
<1>3. ASSUME NEW cs \in CodeLists, PartiallyCompleteJob(i, cs)
      PROVE  /\ ManagerTypeOK' /\ NoNewActive(NoId)
             /\ issued' = issued /\ closed' = closed
  BY <1>0, <1>1, <1>3, JobOperatorsType, FinishedFacts
  DEF PartiallyCompleteJob, Active
<1>4. ASSUME NEW c \in ReportedCodes, FailJob(i, c)
      PROVE  /\ ManagerTypeOK' /\ NoNewActive(NoId)
             /\ issued' = issued /\ closed' = closed
  <2>1. FailedJob(SweptJobs[i], c) \in Job
    BY <1>0, JobOperatorsType DEF Codes
  <2>2. ~Active(FailedJob(SweptJobs[i], c))
    BY <1>0, FinishedFacts DEF FailedJob, Active
  <2>. QED
    BY <1>1, <1>4, <2>1, <2>2 DEF FailJob
<1>5. CASE UpdateRefused(i)
  BY <1>5, SweepEffect DEF UpdateRefused
<1>. QED
  BY <1>2, <1>3, <1>4, <1>5 DEF TaskReports

-----------------------------------------------------------------------------
(* The invariant of the pool                                               *)

QueueInv ==
  /\ active = Range(queue) \cup running
  /\ Range(queue) \cap running = {}
  /\ Distinct(queue)

(* close() waits on a pool that nothing can enter any more.                *)
WaiterInv ==
  /\ idleWaiter = "resolved" => Idle(queue, running)
  /\ dispatcherState = "accepting" => idleWaiter = "none"

(* None of the properties of the pool is inductive alone: that a job which *)
(* is running has its task in the pool needs the queue without duplicates, *)
(* and that close() finds the pool idle needs the waiter and the admission *)
(* gate.                                                                   *)
PoolInv ==
  /\ DispatcherTypeOK
  /\ EveryActiveJobOwned
  /\ QueueInv
  /\ Cardinality(running) <= MaxConcurrent
  /\ NoLostWakeup
  /\ ClosedMeansQuiet
  /\ WaiterInv
  /\ active \subseteq issued

LEMMA PoolInit == DispatcherInit => PoolInv
<1>. SUFFICES ASSUME DispatcherInit PROVE PoolInv
  OBVIOUS
<1>1. ManagerTypeOK
  BY ManagerTypeInit DEF DispatcherInit
<1>2. DispatcherTypeOK
  <2>1. tally \in [{"accepted", "settled", "failed", "cancelled"} -> Nat]
    BY DEF DispatcherInit
  <2>. QED
    BY <1>1, <2>1, EmptyQueue DEF DispatcherInit, DispatcherTypeOK
<1>3. EveryActiveJobOwned
  BY NoJobFacts DEF DispatcherInit, ManagerInit, EveryActiveJobOwned
<1>4. Cardinality(running) = 0 /\ MaxConcurrent \in Nat
  BY FS_EmptySet, DispatcherAssumption, JobManagerAssumption DEF DispatcherInit
<1>5. QueueInv /\ NoLostWakeup /\ ClosedMeansQuiet /\ WaiterInv
  BY EmptyQueue
  DEF DispatcherInit, ManagerInit, QueueInv, NoLostWakeup, MayPump,
      ClosedMeansQuiet, WaiterInv, Idle
<1>. QED
  BY <1>2, <1>3, <1>4, <1>5 DEF PoolInv, DispatcherInit

(* Sets of identifiers are finite, so the pool's counts are numbers.       *)
LEMMA RunningIsFinite ==
  ASSUME DispatcherTypeOK
  PROVE  IsFiniteSet(running) /\ Cardinality(running) \in Nat
BY FS_Subset, FS_CardinalityType, JobManagerAssumption DEF DispatcherTypeOK

(* Calls on the job manager that leave the pool as it is.                  *)
LEMMA TableStepKeepsPool ==
  ASSUME PoolInv, ManagerTypeOK', NoNewActive(NoId), issued \subseteq issued',
         UNCHANGED dispatcherVars, closed' => dispatcherState = "closed"
  PROVE  PoolInv'
<1>. USE DEF PoolInv, dispatcherVars
<1>1. DispatcherTypeOK'
  BY DEF DispatcherTypeOK
<1>2. EveryActiveJobOwned'
  BY JobManagerAssumption DEF EveryActiveJobOwned, NoNewActive, Pending
<1>3. QueueInv' /\ Cardinality(running') <= MaxConcurrent
  BY DEF QueueInv, Distinct
<1>4. NoLostWakeup' /\ ClosedMeansQuiet' /\ WaiterInv'
  BY DEF NoLostWakeup, MayPump, ClosedMeansQuiet, WaiterInv, Idle
<1>. QED
  BY <1>1, <1>2, <1>3, <1>4

LEMMA SubmitKeepsPool ==
  ASSUME PoolInv, NEW i \in Ids, NEW r \in Requests,
         NEW k \in Keys \cup {NoKey}, Submit(i, r, k)
  PROVE  PoolInv'
<1>. USE DEF PoolInv
<1>1. /\ QueuedJob(r, k) \in Job /\ QueuedJob(r, k).status = "queued"
  BY JobOperatorsType DEF QueuedJob
<1>2. /\ ManagerTypeOK' /\ NoNewActive(i) /\ jobs'[i] = QueuedJob(r, k)
      /\ issued' = issued \cup {i} /\ closed' = closed
  BY <1>1, StoreEffect DEF Submit, CreateJob, DispatcherTypeOK
<1>3. /\ queue \in Seq(Ids) /\ queue' = Append(queue, i) /\ i \notin active
      /\ active' = active \cup {i} /\ running' = running /\ aborted' = aborted
      /\ dispatcherState = "accepting" /\ dispatcherState' = dispatcherState
      /\ pumping' = pumping /\ calling' = calling /\ idleWaiter' = idleWaiter
      /\ pumpScheduled' = TRUE
  BY DEF Submit, Enqueue, CanAccept, SchedulePump, DispatcherTypeOK
<1>4. /\ queue' \in Seq(Ids) /\ Range(queue') = Range(queue) \cup {i}
      /\ Distinct(queue) /\ i \notin Range(queue) => Distinct(queue')
  BY <1>3, AppendFacts
<1>5. DispatcherTypeOK'
  BY <1>2, <1>3, <1>4 DEF Submit, Enqueue, Count, DispatcherTypeOK
<1>6. EveryActiveJobOwned'
  BY <1>1, <1>2, <1>3, <1>4 DEF EveryActiveJobOwned, NoNewActive, Pending
<1>7. QueueInv'
  BY <1>3, <1>4 DEF QueueInv
<1>8. NoLostWakeup' /\ ClosedMeansQuiet' /\ WaiterInv'
  BY <1>2, <1>3 DEF NoLostWakeup, ClosedMeansQuiet, WaiterInv
<1>. QED
  BY <1>2, <1>3, <1>5, <1>6, <1>7, <1>8

(* Steps that move the pump, the waiter or the state and no task.          *)
LEMMA FlagStepKeepsPool ==
  ASSUME PoolInv, DispatcherTypeOK', NoLostWakeup', ClosedMeansQuiet', WaiterInv',
         UNCHANGED <<jobs, issued, queue, running, active>>
  PROVE  PoolInv'
BY DEF PoolInv, EveryActiveJobOwned, Pending, QueueInv, Distinct

LEMMA PumpStartKeepsPool ==
  ASSUME PoolInv, NEW i \in Ids, PumpStarts(i)
  PROVE  PoolInv'
<1>. USE DEF PoolInv
<1>1. /\ SweptJobs[i] \in Job /\ StartedJob(SweptJobs[i]) \in Job
      /\ StartedJob(SweptJobs[i]).status = "running"
  BY SweptActive, JobOperatorsType, StartedFacts DEF DispatcherTypeOK
<1>2. /\ ManagerTypeOK' /\ NoNewActive(i)
      /\ jobs'[i].status = "running"
      /\ issued' = issued /\ closed' = closed
  BY <1>1, UpdateEffect DEF PumpStarts, StartJob, DispatcherTypeOK
<1>3. /\ queue \in Seq(Ids) /\ queue # <<>> /\ i = Head(queue)
      /\ queue' = Tail(queue) /\ running' = running \cup {i}
      /\ Cardinality(running) < MaxConcurrent
      /\ dispatcherState \in {"accepting", "draining"}
      /\ pumping /\ pumping' /\ calling' = i
      /\ UNCHANGED <<active, aborted, dispatcherState, pumpScheduled, idleWaiter, tally>>
  BY DEF PumpStarts, MayPump, DispatcherTypeOK
<1>4. /\ queue' \in Seq(Ids)
      /\ Range(queue) = Range(queue') \cup {i}
      /\ Distinct(queue) => Distinct(queue') /\ i \notin Range(queue')
  BY <1>3, TailFacts
<1>5. DispatcherTypeOK'
  BY <1>2, <1>3, <1>4 DEF DispatcherTypeOK
<1>6. EveryActiveJobOwned'
  BY <1>2, <1>3, <1>4 DEF EveryActiveJobOwned, NoNewActive, Pending
<1>7. QueueInv'
  BY <1>3, <1>4 DEF QueueInv
<1>8. Cardinality(running') <= MaxConcurrent
  <2>1. /\ IsFiniteSet(running) /\ MaxConcurrent \in Nat
        /\ Cardinality(running) < MaxConcurrent /\ running' \subseteq running \cup {i}
    BY <1>3, RunningIsFinite, DispatcherAssumption, JobManagerAssumption
  <2>. QED
    BY <2>1, AddingOne
<1>9. NoLostWakeup' /\ ClosedMeansQuiet' /\ WaiterInv'
  BY <1>2, <1>3 DEF NoLostWakeup, ClosedMeansQuiet, WaiterInv, Idle
<1>. QED
  BY <1>2, <1>3, <1>5, <1>6, <1>7, <1>8, <1>9

LEMMA PumpSkipKeepsPool ==
  ASSUME PoolInv, NEW i \in Ids, PumpSkips(i)
  PROVE  PoolInv'
<1>. USE DEF PoolInv
<1>1. SweptJobs[i] \in Job
  BY SweptActive DEF DispatcherTypeOK
<1>2. /\ ManagerTypeOK' /\ NoNewActive(i) /\ ~Active(jobs'[i])
      /\ issued' = issued /\ closed' = closed
  BY <1>1, FailedIfActiveFacts, UpdateEffect DEF PumpSkips, DispatcherTypeOK
<1>3. /\ queue \in Seq(Ids) /\ queue # <<>> /\ i = Head(queue)
      /\ queue' = Tail(queue) /\ active' = active \ {i}
      /\ dispatcherState \in {"accepting", "draining"}
      /\ pumpScheduled' = TRUE
      /\ idleWaiter' = IF idleWaiter = "waiting" /\ Idle(Tail(queue), running)
                       THEN "resolved" ELSE idleWaiter
      /\ UNCHANGED <<running, aborted, dispatcherState, pumping, calling>>
  BY DEF PumpSkips, MayPump, DispatcherTypeOK, SchedulePump, ResolveIdleWaiters
<1>4. /\ queue' \in Seq(Ids)
      /\ Range(queue) = Range(queue') \cup {i}
      /\ Distinct(queue) => Distinct(queue') /\ i \notin Range(queue')
  BY <1>3, TailFacts
<1>5. DispatcherTypeOK'
  BY <1>2, <1>3, <1>4 DEF PumpSkips, Count, DispatcherTypeOK
<1>6. EveryActiveJobOwned'
  BY <1>2, <1>3, <1>4 DEF EveryActiveJobOwned, NoNewActive, Pending, Active
<1>7. QueueInv'
  BY <1>3, <1>4 DEF QueueInv
<1>9. NoLostWakeup' /\ ClosedMeansQuiet' /\ WaiterInv'
  BY <1>2, <1>3 DEF NoLostWakeup, ClosedMeansQuiet, WaiterInv, Idle
<1>. QED
  BY <1>2, <1>3, <1>5, <1>6, <1>7, <1>9

(* A task leaves the pool with a job that is no longer active.             *)
LEMMA ReleaseKeepsPool ==
  ASSUME PoolInv, NEW i \in running, Release(i),
         ManagerTypeOK', NoNewActive(i), ~Active(jobs'[i]),
         issued' = issued, closed' = closed,
         tally' \in [{"accepted", "settled", "failed", "cancelled"} -> Nat]
  PROVE  PoolInv'
<1>. USE DEF PoolInv
<1>0. i \in Ids
  BY DEF DispatcherTypeOK
<1>1. /\ running' = running \ {i} /\ active' = active \ {i}
      /\ aborted' = aborted \ {i}
      /\ pumpScheduled' = (pumpScheduled \/ dispatcherState # "closed")
      /\ idleWaiter' = IF idleWaiter = "waiting" /\ Idle(queue, running \ {i})
                       THEN "resolved" ELSE idleWaiter
      /\ UNCHANGED <<queue, dispatcherState, pumping, calling>>
  BY DEF Release, SchedulePump, ResolveIdleWaiters
<1>2. DispatcherTypeOK'
  BY <1>1 DEF DispatcherTypeOK
<1>3. EveryActiveJobOwned'
  BY <1>0, <1>1 DEF EveryActiveJobOwned, NoNewActive, Pending, Active
<1>4. QueueInv'
  BY <1>1 DEF QueueInv, Distinct
<1>5. Cardinality(running') <= MaxConcurrent
  <2>1. running' \subseteq running
    BY <1>1
  <2>. QED
    BY <2>1, FS_Subset, RunningIsFinite, FS_CardinalityType, DispatcherAssumption,
       JobManagerAssumption
<1>6. NoLostWakeup'
  BY <1>1 DEF NoLostWakeup, MayPump, Idle
<1>7. ClosedMeansQuiet'
  BY <1>1 DEF ClosedMeansQuiet, Idle
<1>8. WaiterInv'
  BY <1>1 DEF WaiterInv, Idle
<1>. QED
  BY <1>1, <1>2, <1>3, <1>4, <1>5, <1>6, <1>7, <1>8

LEMMA CountType ==
  ASSUME DispatcherTypeOK, NEW field \in {"accepted", "settled", "failed", "cancelled"},
         Count(field)
  PROVE  tally' \in [{"accepted", "settled", "failed", "cancelled"} -> Nat]
BY DEF DispatcherTypeOK, Count

LEMMA SettleKeepsPool ==
  ASSUME PoolInv, NEW i \in Ids, TaskSettles(i)
  PROVE  PoolInv'
<1>1. /\ ManagerTypeOK /\ i \in running /\ Release(i)
      /\ tally' \in [{"accepted", "settled", "failed", "cancelled"} -> Nat]
  BY CountType DEF PoolInv, DispatcherTypeOK, TaskSettles
<1>2. /\ ManagerTypeOK' /\ NoNewActive(i)
      /\ issued' = issued /\ closed' = closed
  BY <1>1, SweepEffect DEF TaskSettles
<1>3. ~Active(jobs'[i])
  BY DEF TaskSettles, SweepOnly, Terminal, Active
<1>. QED
  BY <1>1, <1>2, <1>3, ReleaseKeepsPool

LEMMA TaskFailureKeepsPool ==
  ASSUME PoolInv, NEW i \in Ids, TaskFails(i)
  PROVE  PoolInv'
<1>1. /\ ManagerTypeOK /\ i \in running /\ Release(i)
      /\ tally' \in [{"accepted", "settled", "failed", "cancelled"} -> Nat]
  BY CountType DEF PoolInv, DispatcherTypeOK, TaskFails
<1>2. SweptJobs[i] \in Job
  BY <1>1, SweptActive
<1>3. /\ ManagerTypeOK' /\ NoNewActive(i) /\ ~Active(jobs'[i])
      /\ issued' = issued /\ closed' = closed
  BY <1>1, <1>2, FailedIfActiveFacts, UpdateEffect DEF TaskFails
<1>. QED
  BY <1>1, <1>3, ReleaseKeepsPool

LEMMA DrainKeepsPool ==
  ASSUME PoolInv, CloseDraining
  PROVE  PoolInv'
<1>. USE DEF PoolInv
<1>1. /\ dispatcherState = "accepting" /\ dispatcherState' = "draining"
      /\ pumpScheduled' = TRUE
      /\ idleWaiter' = IF Idle(queue, running) THEN "resolved" ELSE "waiting"
      /\ UNCHANGED <<managerVars, queue, running, active, aborted, pumping, calling, tally>>
  BY DEF CloseDraining, SchedulePump, AwaitIdle, DispatcherTypeOK
<1>2. DispatcherTypeOK'
  BY <1>1 DEF DispatcherTypeOK, ManagerTypeOK, managerVars
<1>3. NoLostWakeup' /\ ClosedMeansQuiet' /\ WaiterInv'
  BY <1>1 DEF NoLostWakeup, ClosedMeansQuiet, WaiterInv, Idle, managerVars
<1>. QED
  BY <1>1, <1>2, <1>3, FlagStepKeepsPool DEF managerVars

LEMMA CancelKeepsPool ==
  ASSUME PoolInv, NEW abortRunning \in BOOLEAN, CloseCancelling(abortRunning)
  PROVE  PoolInv'
<1>. USE DEF PoolInv
<1>1. /\ dispatcherState = "accepting" /\ dispatcherState' = "cancelling"
      /\ queue' = <<>> /\ active' = active \ Range(queue)
      /\ aborted' \in SUBSET Ids
      /\ idleWaiter' = IF Idle(<<>>, running) THEN "resolved" ELSE "waiting"
      /\ UNCHANGED <<running, pumpScheduled, pumping, calling>>
  BY DEF CloseCancelling, AwaitIdle, Pending, DispatcherTypeOK
<1>2. /\ ManagerTypeOK' /\ issued' = issued /\ closed' = closed
      /\ \A n \in Ids : /\ n \in Range(queue) => ~Active(jobs'[n])
                        /\ Active(jobs'[n]) => jobs'[n] = jobs[n]
  <2>0. ManagerTypeOK
    BY DEF DispatcherTypeOK
  <2>1. CASE queue = <<>> /\ UNCHANGED managerVars
    BY <2>1, <2>0, EmptyQueue DEF managerVars, ManagerTypeOK
  <2>2. CASE queue # <<>>
    <3>1. /\ jobs' = [i \in Ids |-> IF i \in Pending
                                    THEN FailedIfActive(SweptJobs[i])
                                    ELSE SweptJobs[i]]
          /\ index' = SweptIndex
          /\ UNCHANGED <<issued, closed>>
      BY <2>2 DEF CloseCancelling
    <3>2. \A n \in Ids : /\ SweptJobs[n] \in Job
                         /\ Active(SweptJobs[n]) => SweptJobs[n] = jobs[n]
      BY <2>0, SweptActive
    <3>3. \A n \in Ids : /\ FailedIfActive(SweptJobs[n]) \in Job
                         /\ ~Active(FailedIfActive(SweptJobs[n]))
      BY <3>2, FailedIfActiveFacts
    <3>4. ManagerTypeOK'
      BY <2>0, <3>1, <3>2, <3>3, SweepType DEF ManagerTypeOK
    <3>. QED
      BY <3>1, <3>2, <3>3, <3>4 DEF Pending
  <2>. QED
    BY <2>1, <2>2 DEF CloseCancelling
<1>3. tally' \in [{"accepted", "settled", "failed", "cancelled"} -> Nat]
  <2>1. Len(queue) \in Nat
    BY DEF DispatcherTypeOK
  <2>. QED
    BY <2>1 DEF CloseCancelling, DispatcherTypeOK
<1>4. DispatcherTypeOK'
  BY <1>1, <1>2, <1>3, EmptyQueue DEF DispatcherTypeOK
<1>5. EveryActiveJobOwned'
  BY <1>1, <1>2 DEF EveryActiveJobOwned, Active, Pending
<1>6. QueueInv'
  BY <1>1, EmptyQueue DEF QueueInv
<1>7. NoLostWakeup' /\ ClosedMeansQuiet' /\ WaiterInv'
  BY <1>1, <1>2 DEF NoLostWakeup, MayPump, ClosedMeansQuiet, WaiterInv, Idle
<1>. QED
  BY <1>1, <1>2, <1>4, <1>5, <1>6, <1>7

LEMMA PoolStep ==
  ASSUME PoolInv, [DispatcherNext]_systemVars
  PROVE  PoolInv'
<1>. USE DEF PoolInv
<1>0. ManagerTypeOK /\ NoId \notin Ids
  BY JobManagerAssumption DEF DispatcherTypeOK
<1>1. ASSUME NEW r \in Requests, NEW k \in Keys \cup {NoKey}, NEW i \in Ids,
             Submit(i, r, k)
      PROVE  PoolInv'
  BY <1>1, SubmitKeepsPool
<1>2. ASSUME NEW r \in Requests, NEW k \in Keys \cup {NoKey}, NEW i \in Ids,
             SubmitUndispatched(i, r, k)
      PROVE  PoolInv'
  <2>1. /\ FailedJob(QueuedJob(r, k), "INTERNAL_JOB_ERROR") \in Job
        /\ ~Active(FailedJob(QueuedJob(r, k), "INTERNAL_JOB_ERROR"))
    <3>1. QueuedJob(r, k) \in Job
      BY <1>2, JobOperatorsType
    <3>2. FailedJob(QueuedJob(r, k), "INTERNAL_JOB_ERROR") \in Job
      BY <3>1, JobOperatorsType DEF Codes
    <3>3. FailedJob(QueuedJob(r, k), "INTERNAL_JOB_ERROR").status = "failed"
      BY <3>1, FinishedFacts DEF FailedJob
    <3>. QED
      BY <3>2, <3>3 DEF Active
  <2>2. /\ ManagerTypeOK' /\ NoNewActive(i) /\ ~Active(jobs'[i])
        /\ issued \subseteq issued' /\ closed' = closed
    BY <1>0, <1>2, <2>1, StoreEffect DEF SubmitUndispatched
  <2>3. NoNewActive(NoId)
    BY <2>2 DEF NoNewActive, Active
  <2>. QED
    BY <1>2, <2>2, <2>3, TableStepKeepsPool DEF SubmitUndispatched, ClosedMeansQuiet
<1>3. ASSUME SweepOnly, UNCHANGED dispatcherVars
      PROVE  PoolInv'
  <2>1. /\ ManagerTypeOK' /\ NoNewActive(NoId) /\ issued' = issued /\ closed' = closed
    BY <1>0, <1>3, SweepEffect
  <2>. QED
    BY <1>3, <2>1, TableStepKeepsPool DEF ClosedMeansQuiet
<1>4. CASE RouteStep
  BY <1>1, <1>2, <1>3, <1>4
  DEF RouteStep, SubmitNotStored, Poll, CreateReplayed, CreateConflicts, CreateRefused
<1>5. CASE BeginPump
  <2>1. DispatcherTypeOK'
    BY <1>5 DEF BeginPump, DispatcherTypeOK, ManagerTypeOK, managerVars
  <2>2. NoLostWakeup' /\ ClosedMeansQuiet' /\ WaiterInv'
    BY <1>5 DEF BeginPump, NoLostWakeup, ClosedMeansQuiet, WaiterInv, Idle, managerVars
  <2>. QED
    BY <1>5, <2>1, <2>2, FlagStepKeepsPool DEF BeginPump, managerVars
<1>6. CASE EndPump
  <2>1. DispatcherTypeOK'
    BY <1>6 DEF EndPump, ResolveIdleWaiters, DispatcherTypeOK, ManagerTypeOK, managerVars
  <2>2. NoLostWakeup' /\ ClosedMeansQuiet' /\ WaiterInv'
    BY <1>6 DEF EndPump, ResolveIdleWaiters, NoLostWakeup, MayPump, ClosedMeansQuiet,
                WaiterInv, Idle, managerVars
  <2>. QED
    BY <1>6, <2>1, <2>2, FlagStepKeepsPool DEF EndPump, managerVars
<1>7. ASSUME NEW i \in Ids, CallReturns(i)
      PROVE  PoolInv'
  <2>1. DispatcherTypeOK'
    BY <1>7 DEF CallReturns, DispatcherTypeOK, ManagerTypeOK, managerVars
  <2>2. NoLostWakeup' /\ ClosedMeansQuiet' /\ WaiterInv'
    BY <1>7 DEF CallReturns, NoLostWakeup, MayPump, ClosedMeansQuiet, WaiterInv, Idle,
                managerVars
  <2>. QED
    BY <1>7, <2>1, <2>2, FlagStepKeepsPool DEF CallReturns, managerVars
<1>8. CASE PumpStep
  BY <1>5, <1>6, <1>7, <1>8, PumpStartKeepsPool, PumpSkipKeepsPool DEF PumpStep
<1>9. ASSUME NEW i \in Ids, TaskReports(i)
      PROVE  PoolInv'
  <2>1. /\ ManagerTypeOK' /\ NoNewActive(NoId)
        /\ issued' = issued /\ closed' = closed
    BY <1>0, <1>9, ReportEffect
  <2>. QED
    BY <1>9, <2>1, TableStepKeepsPool DEF TaskReports, ClosedMeansQuiet
<1>10. CASE TaskStep
  BY <1>9, <1>10, SettleKeepsPool, TaskFailureKeepsPool DEF TaskStep
<1>11. CASE FinishClose
  <2>1. DispatcherTypeOK'
    BY <1>11 DEF FinishClose, DispatcherTypeOK, ManagerTypeOK, managerVars
  <2>2. NoLostWakeup' /\ ClosedMeansQuiet' /\ WaiterInv'
    BY <1>11 DEF FinishClose, NoLostWakeup, MayPump, ClosedMeansQuiet, WaiterInv, Idle,
                 managerVars
  <2>. QED
    BY <1>11, <2>1, <2>2, FlagStepKeepsPool DEF FinishClose, managerVars
<1>12. CASE CloseJobManager
  <2>1. ManagerTypeOK' /\ NoNewActive(NoId) /\ issued' = issued
    BY <1>0, <1>12 DEF CloseJobManager, CloseManager, ManagerTypeOK, NoNewActive
  <2>. QED
    BY <1>12, <2>1, TableStepKeepsPool DEF CloseJobManager
<1>13. CASE CloseStep
  BY <1>11, <1>12, <1>13, DrainKeepsPool, CancelKeepsPool DEF CloseStep
<1>14. CASE TimePasses
  <2>1. \A n \in Ids : jobs'[n] = Older(jobs[n]) /\ jobs[n] \in Job
    BY <1>0, <1>14 DEF TimePasses, Tick, ManagerTypeOK
  <2>2. \A n \in Ids : jobs'[n].status = jobs[n].status
    BY <2>1 DEF Older, Job
  <2>3. ManagerTypeOK' /\ issued' = issued /\ closed' = closed
    BY <1>0, <1>14, JobOperatorsType DEF TimePasses, Tick, ManagerTypeOK
  <2>. QED
    BY <1>14, <2>2, <2>3, TableStepKeepsPool
    DEF TimePasses, NoNewActive, ClosedMeansQuiet
<1>15. CASE UNCHANGED systemVars
  <2>1. UNCHANGED managerVars /\ UNCHANGED dispatcherVars
    BY <1>15 DEF systemVars, managerVars, dispatcherVars
  <2>2. ManagerTypeOK' /\ NoNewActive(NoId) /\ issued' = issued /\ closed' = closed
    BY <1>0, <2>1 DEF managerVars, ManagerTypeOK, NoNewActive
  <2>. QED
    BY <2>1, <2>2, TableStepKeepsPool DEF ClosedMeansQuiet
<1>. QED
  BY <1>4, <1>8, <1>10, <1>13, <1>14, <1>15 DEF DispatcherNext

(* Types of the pool and the job table, in every reachable state.          *)
THEOREM PoolTypes == DispatcherSpec => []DispatcherTypeOK
<1>1. PoolInv => DispatcherTypeOK
  BY DEF PoolInv
<1>. QED
  BY <1>1, PoolInit, PoolStep, PTL DEF DispatcherSpec

(* No job stays queued or running without its task in the pool.            *)
THEOREM NoJobAbandoned == DispatcherSpec => []EveryActiveJobOwned
<1>1. PoolInv => EveryActiveJobOwned
  BY DEF PoolInv
<1>. QED
  BY <1>1, PoolInit, PoolStep, PTL DEF DispatcherSpec

(* activeJobIds holds the waiting and the executing tasks, each once.      *)
THEOREM ActiveSetIsExact == DispatcherSpec => []ActiveIsPendingOrRunning
<1>1. PoolInv => ActiveIsPendingOrRunning
  BY DEF PoolInv, QueueInv, Distinct, ActiveIsPendingOrRunning, Pending
<1>. QED
  BY <1>1, PoolInit, PoolStep, PTL DEF DispatcherSpec

(* A free slot and waiting work never meet without a pump, and close() is  *)
(* told when the pool is idle.                                             *)
THEOREM NoWakeupLost == DispatcherSpec => []NoLostWakeup
<1>1. PoolInv => NoLostWakeup
  BY DEF PoolInv
<1>. QED
  BY <1>1, PoolInit, PoolStep, PTL DEF DispatcherSpec

(* Nothing is left in the pool when it reports closed.                     *)
THEOREM ClosedIsQuiet == DispatcherSpec => []ClosedMeansQuiet
<1>1. PoolInv => ClosedMeansQuiet
  BY DEF PoolInv
<1>. QED
  BY <1>1, PoolInit, PoolStep, PTL DEF DispatcherSpec

(* The pool keeps within maxConcurrentJobs and therefore never meets the   *)
(* job manager's own limit: every running job has its task in the pool, so *)
(* a free slot in the pool is a free slot in the table.                    *)
LEMMA PoolInvBoundsTable == PoolInv => ConcurrencyRespected
<1>. SUFFICES ASSUME PoolInv, MayPump, SweptJobs[Head(queue)].status = "queued"
              PROVE  Cardinality(RunningJobs(SweptJobs)) < MaxRunning
  BY DEF PoolInv, ConcurrencyRespected, MayStart
<1>1. RunningJobs(SweptJobs) \subseteq running
  <2>. SUFFICES ASSUME NEW n \in Ids, SweptJobs[n].status = "running"
                PROVE  n \in running
    BY DEF RunningJobs
  <2>1. jobs[n].status = "running"
    BY SweptActive DEF PoolInv, DispatcherTypeOK, Active
  <2>. QED
    BY <2>1 DEF PoolInv, EveryActiveJobOwned
<1>2. /\ IsFiniteSet(running) /\ Cardinality(running) \in Nat
      /\ Cardinality(running) < MaxConcurrent
      /\ MaxConcurrent \in Nat /\ MaxRunning \in Nat /\ MaxConcurrent <= MaxRunning
  BY RunningIsFinite, DispatcherAssumption, JobManagerAssumption DEF PoolInv, MayPump
<1>3. /\ Cardinality(RunningJobs(SweptJobs)) <= Cardinality(running)
      /\ Cardinality(RunningJobs(SweptJobs)) \in Nat
  BY <1>1, <1>2, FS_Subset, FS_CardinalityType
<1>. QED
  BY <1>2, <1>3

THEOREM ConcurrencyHolds == DispatcherSpec => []ConcurrencyRespected
BY PoolInvBoundsTable, PoolInit, PoolStep, PTL DEF DispatcherSpec

-----------------------------------------------------------------------------
(* The counters                                                            *)

Executing == Cardinality(running)

LEMMA TallyInit == DispatcherInit => TallyBalances
BY FS_EmptySet, EmptyQueue DEF DispatcherInit, TallyBalances

(* One task fewer, or one more, in the set of executing tasks.             *)
LEMMA ExecutingCounts ==
  ASSUME DispatcherTypeOK, NEW i
  PROVE  /\ i \in running => Cardinality(running \ {i}) = Executing - 1
         /\ i \notin running => Cardinality(running \cup {i}) = Executing + 1
         /\ Executing \in Nat /\ Len(queue) \in Nat
         /\ tally.accepted \in Nat /\ tally.settled \in Nat
         /\ tally.failed \in Nat /\ tally.cancelled \in Nat
<1>1. IsFiniteSet(running) /\ Executing \in Nat
  BY RunningIsFinite DEF Executing
<1>2. i \in running => Cardinality(running \ {i}) = Executing - 1
  BY <1>1, FS_RemoveElement DEF Executing
<1>3. i \notin running => Cardinality(running \cup {i}) = Executing + 1
  BY <1>1, FS_AddElement DEF Executing
<1>4. /\ tally.accepted \in Nat /\ tally.settled \in Nat
      /\ tally.failed \in Nat /\ tally.cancelled \in Nat /\ Len(queue) \in Nat
  BY DEF DispatcherTypeOK
<1>. QED
  BY <1>1, <1>2, <1>3, <1>4

LEMMA CountFacts ==
  ASSUME DispatcherTypeOK,
         NEW field \in {"accepted", "settled", "failed", "cancelled"}, Count(field)
  PROVE  LET now(f) == IF f = field THEN tally[f] + 1 ELSE tally[f]
         IN  /\ tally'.accepted = now("accepted") /\ tally'.settled = now("settled")
             /\ tally'.failed = now("failed") /\ tally'.cancelled = now("cancelled")
BY DEF Count, DispatcherTypeOK

(* A task that leaves the queue, or stops executing, by failing.           *)
LEMMA OneMoreFailed ==
  ASSUME DispatcherTypeOK, TallyBalances
  PROVE  /\ tally.accepted = (Len(queue) - 1) + Cardinality(running)
                             + tally.settled + (tally.failed + 1) + tally.cancelled
         /\ tally.accepted = Len(queue) + (Cardinality(running) - 1)
                             + tally.settled + (tally.failed + 1) + tally.cancelled
<1>. DEFINE l == Len(queue)  e == Cardinality(running)
            s == tally.settled  f == tally.failed  c == tally.cancelled
<1>1. l \in Nat /\ e \in Nat /\ s \in Nat /\ f \in Nat /\ c \in Nat
  BY ExecutingCounts DEF Executing
<1>2. tally.accepted = l + e + s + f + c
  BY DEF TallyBalances
<1>. HIDE DEF l, e, s, f, c
<1>3. /\ l + e + s + f + c = (l - 1) + e + s + (f + 1) + c
      /\ l + e + s + f + c = l + (e - 1) + s + (f + 1) + c
  BY <1>1
<1>. QED
  BY <1>2, <1>3 DEF l, e, s, f, c

LEMMA TallyStep ==
  ASSUME PoolInv, TallyBalances, [DispatcherNext]_systemVars
  PROVE  TallyBalances'
<1>. USE DEF TallyBalances, Executing
<1>0. DispatcherTypeOK /\ queue \in Seq(Ids)
  BY DEF PoolInv, DispatcherTypeOK
<1>a. /\ Executing \in Nat /\ Len(queue) \in Nat
      /\ tally.accepted \in Nat /\ tally.settled \in Nat
      /\ tally.failed \in Nat /\ tally.cancelled \in Nat
  BY <1>0, ExecutingCounts
<1>1. CASE UNCHANGED <<queue, running, tally>>
  BY <1>1
<1>2. ASSUME NEW i \in Ids, Enqueue(i)
      PROVE  TallyBalances'
  <2>1. Len(queue') = Len(queue) + 1 /\ running' = running
    BY <1>0, <1>2, AppendFacts DEF Enqueue
  <2>2. /\ tally'.accepted = tally.accepted + 1 /\ tally'.settled = tally.settled
        /\ tally'.failed = tally.failed /\ tally'.cancelled = tally.cancelled
    BY <1>0, <1>2, CountFacts DEF Enqueue
  <2>. QED
    BY <1>a, <2>1, <2>2
<1>3. ASSUME NEW i \in Ids, PumpStarts(i)
      PROVE  TallyBalances'
  <2>1. i \in Range(queue) /\ Len(queue) = Len(queue') + 1
    BY <1>0, <1>3, TailFacts DEF PumpStarts, MayPump
  <2>2. i \notin running /\ running' = running \cup {i} /\ tally' = tally
    BY <1>3, <2>1 DEF PumpStarts, PoolInv, QueueInv
  <2>3. queue' \in Seq(Ids)
    BY <1>0, <1>3, TailFacts DEF PumpStarts, MayPump
  <2>4. Cardinality(running') = Executing + 1
    BY <1>0, <2>2, ExecutingCounts
  <2>5. Len(queue') \in Nat
    BY <2>3
  <2>. QED
    BY <1>a, <2>1, <2>2, <2>4, <2>5
<1>4. ASSUME NEW i \in Ids, PumpSkips(i)
      PROVE  TallyBalances'
  <2>1. Len(queue) = Len(queue') + 1 /\ queue' \in Seq(Ids) /\ running' = running
    BY <1>0, <1>4, TailFacts DEF PumpSkips, MayPump
  <2>2. /\ tally'.accepted = tally.accepted /\ tally'.settled = tally.settled
        /\ tally'.failed = tally.failed + 1 /\ tally'.cancelled = tally.cancelled
    BY <1>0, <1>4, CountFacts DEF PumpSkips
  <2>3. Len(queue') = Len(queue) - 1 /\ Cardinality(running') = Cardinality(running)
    BY <1>a, <2>1
  <2>4. tally.accepted = (Len(queue) - 1) + Cardinality(running) + tally.settled
                         + (tally.failed + 1) + tally.cancelled
    BY <1>0, OneMoreFailed
  <2>. QED
    BY <2>2, <2>3, <2>4
<1>5. ASSUME NEW i \in running, NEW field \in {"settled", "failed"},
             Count(field), Release(i)
      PROVE  TallyBalances'
  <2>1. queue' = queue /\ running' = running \ {i}
    BY <1>5 DEF Release
  <2>2. Cardinality(running') = Executing - 1 /\ Executing \in Nat
    BY <1>0, <2>1, ExecutingCounts
  <2>3. /\ tally'.accepted = tally.accepted /\ tally'.cancelled = tally.cancelled
        /\ \/ tally'.settled = tally.settled + 1 /\ tally'.failed = tally.failed
           \/ tally'.settled = tally.settled /\ tally'.failed = tally.failed + 1
    BY <1>0, <1>5, CountFacts
  <2>4. Len(queue') = Len(queue) /\ Cardinality(running') = Cardinality(running) - 1
    BY <2>1, <2>2
  <2>5. CASE tally'.settled = tally.settled + 1 /\ tally'.failed = tally.failed
    BY <1>a, <2>3, <2>4, <2>5
  <2>6. CASE tally'.settled = tally.settled /\ tally'.failed = tally.failed + 1
    <3>1. tally.accepted = Len(queue) + (Cardinality(running) - 1) + tally.settled
                           + (tally.failed + 1) + tally.cancelled
      BY <1>0, OneMoreFailed
    <3>. QED
      BY <2>3, <2>4, <2>6, <3>1
  <2>. QED
    BY <2>3, <2>5, <2>6
<1>6. ASSUME NEW abortRunning \in BOOLEAN, CloseCancelling(abortRunning)
      PROVE  TallyBalances'
  <2>1. queue' = <<>> /\ Len(queue') = 0 /\ running' = running
    BY <1>6, EmptyQueue DEF CloseCancelling
  <2>2. /\ tally'.accepted = tally.accepted /\ tally'.settled = tally.settled
        /\ tally'.failed = tally.failed
        /\ tally'.cancelled = tally.cancelled + Len(queue)
    BY <1>0, <1>6 DEF CloseCancelling, DispatcherTypeOK
  <2>. QED
    BY <1>a, <2>1, <2>2
<1>7. CASE RouteStep
  BY <1>1, <1>2, <1>7
  DEF RouteStep, Submit, SubmitUndispatched, SubmitNotStored, Poll, dispatcherVars
<1>8. CASE PumpStep
  BY <1>1, <1>3, <1>4, <1>8 DEF PumpStep, BeginPump, EndPump, CallReturns
<1>9. CASE TaskStep
  BY <1>1, <1>5, <1>9 DEF TaskStep, TaskReports, TaskSettles, TaskFails, dispatcherVars
<1>10. CASE CloseStep
  BY <1>1, <1>6, <1>10
  DEF CloseStep, CloseDraining, FinishClose, CloseJobManager, dispatcherVars
<1>11. CASE TimePasses \/ UNCHANGED systemVars
  BY <1>1, <1>11 DEF TimePasses, systemVars, dispatcherVars
<1>. QED
  BY <1>7, <1>8, <1>9, <1>10, <1>11 DEF DispatcherNext

(* Every accepted task is waiting, executing or counted as finished.       *)
THEOREM TasksAreCounted == DispatcherSpec => []TallyBalances
<1>1. DispatcherInit => PoolInv /\ TallyBalances
  BY PoolInit, TallyInit
<1>2. PoolInv /\ TallyBalances /\ [DispatcherNext]_systemVars
        => (PoolInv /\ TallyBalances)'
  BY PoolStep, TallyStep
<1>. QED
  BY <1>1, <1>2, PTL DEF DispatcherSpec

-----------------------------------------------------------------------------
(* Shutdown, and the abstract pool                                         *)

(* Once cancelling or closed nothing starts, and there is no way back.     *)
THEOREM ShutdownHasNoWayBack == DispatcherSpec => ShutdownIsOneWay
<1>1. ASSUME PoolInv, [DispatcherNext]_systemVars
      PROVE  [/\ dispatcherState \in {"cancelling", "closed"} => running' \subseteq running
              /\ dispatcherState # "accepting" => dispatcherState' # "accepting"
              /\ dispatcherState = "closed" => dispatcherState' = "closed"]_systemVars
  <2>1. CASE RouteStep
    BY <2>1 DEF RouteStep, Submit, Enqueue, SubmitUndispatched, SubmitNotStored, Poll,
                dispatcherVars
  <2>2. CASE PumpStep
    BY <2>2 DEF PumpStep, BeginPump, EndPump, CallReturns, PumpStarts, PumpSkips, MayPump
  <2>3. CASE TaskStep
    BY <2>3 DEF TaskStep, TaskReports, TaskSettles, TaskFails, Release, dispatcherVars
  <2>4. CASE CloseStep
    BY <2>4 DEF CloseStep, CloseDraining, CloseCancelling, FinishClose, CloseJobManager,
                dispatcherVars
  <2>5. CASE TimePasses
    BY <2>5 DEF TimePasses, dispatcherVars
  <2>6. CASE UNCHANGED systemVars
    BY <2>6
  <2>. QED
    BY <1>1, <2>1, <2>2, <2>3, <2>4, <2>5, <2>6 DEF DispatcherNext
<1>. QED
  BY <1>1, PoolInit, PoolStep, PTL DEF DispatcherSpec, ShutdownIsOneWay

LEMMA PoolInitMaps == DispatcherInit => Pool!Init
BY EmptyQueue DEF DispatcherInit, ManagerInit, Pool!Init, Pending

LEMMA SamePoolCardinality == \A S : Pool!Cardinality(S) = Cardinality(S)
BY DEF Pool!Cardinality, Cardinality

LEMMA PoolStepMaps ==
  ASSUME PoolInv, [DispatcherNext]_systemVars
  PROVE  [Pool!Next]_(Pool!poolVars)
<1>. USE DEF Pool!poolVars
<1>0. /\ QueueInv /\ active \subseteq issued /\ issued \subseteq Ids
      /\ queue \in Seq(Ids)
  BY DEF PoolInv, DispatcherTypeOK, ManagerTypeOK
<1>1. CASE UNCHANGED <<queue, running, active, issued, dispatcherState>>
  BY <1>1 DEF Pending
<1>2. ASSUME NEW r \in Requests, NEW k \in Keys \cup {NoKey}, NEW i \in Ids,
             Submit(i, r, k)
      PROVE  Pool!Next
  <2>1. /\ Range(queue') = Range(queue) \cup {i}
        /\ active' = active \cup {i} /\ issued' = issued \cup {i} /\ i \notin issued
        /\ running' = running
        /\ dispatcherState = "accepting" /\ dispatcherState' = "accepting"
    BY <1>0, <1>2, AppendFacts DEF Submit, Enqueue, CanAccept, CreateJob, Store
  <2>2. Pool!Accept(i)
    BY <1>0, <2>1 DEF Pool!Accept, Pool!Fresh, Pending, QueueInv
  <2>. QED
    BY <2>2 DEF Pool!Next
<1>3. ASSUME NEW r \in Requests, NEW k \in Keys \cup {NoKey}, NEW i \in Ids,
             SubmitUndispatched(i, r, k)
      PROVE  Pool!Next
  <2>1. /\ issued' = issued \cup {i} /\ i \notin issued
        /\ UNCHANGED <<queue, running, active, dispatcherState>>
    BY <1>3 DEF SubmitUndispatched, Store, dispatcherVars
  <2>2. Pool!Reject(i)
    BY <1>0, <2>1 DEF Pool!Reject, Pool!Fresh, Pending, QueueInv
  <2>. QED
    BY <2>2 DEF Pool!Next
<1>4. ASSUME NEW i \in Ids, PumpStarts(i)
      PROVE  Pool!Next
  <2>1. /\ queue # <<>> /\ i = Head(queue) /\ queue' = Tail(queue)
        /\ running' = running \cup {i} /\ Cardinality(running) < MaxConcurrent
        /\ UNCHANGED <<active, issued, dispatcherState>>
    BY <1>4 DEF PumpStarts, MayPump, StartJob, Update
  <2>2. /\ Range(queue) = Range(queue') \cup {i}
        /\ i \notin Range(queue')
    BY <1>0, <2>1, TailFacts DEF QueueInv
  <2>3. Pool!Begin(i)
    BY <2>1, <2>2, SamePoolCardinality DEF Pool!Begin, Pending
  <2>. QED
    BY <2>3 DEF Pool!Next
<1>5. ASSUME NEW i \in Ids, PumpSkips(i)
      PROVE  Pool!Next
  <2>1. /\ queue # <<>> /\ i = Head(queue) /\ queue' = Tail(queue)
        /\ running' = running /\ active' = active \ {i}
        /\ issued' = issued /\ dispatcherState' = dispatcherState
    BY <1>5 DEF PumpSkips, MayPump, Update
  <2>2. /\ Range(queue) = Range(queue') \cup {i}
        /\ i \notin Range(queue')
    BY <1>0, <2>1, TailFacts DEF QueueInv
  <2>3. Pool!Skip(i)
    BY <1>0, <2>1, <2>2 DEF Pool!Skip, Pending, QueueInv
  <2>. QED
    BY <2>3 DEF Pool!Next
<1>6. ASSUME NEW i \in running, Release(i), issued' = issued
      PROVE  Pool!Next
  <2>1. /\ running' = running \ {i} /\ active' = active \ {i}
        /\ UNCHANGED <<queue, dispatcherState>>
    BY <1>6 DEF Release
  <2>2. i \in Ids
    BY DEF PoolInv, DispatcherTypeOK
  <2>3. Pool!Finish(i)
    BY <1>0, <1>6, <2>1 DEF Pool!Finish, Pending, QueueInv
  <2>. QED
    BY <2>2, <2>3 DEF Pool!Next
<1>7. CASE CloseDraining
  <2>1. /\ dispatcherState = "accepting" /\ dispatcherState' = "draining"
        /\ UNCHANGED <<queue, running, active, issued>>
    BY <1>7 DEF CloseDraining, managerVars
  <2>2. Pool!Stop
    BY <2>1 DEF Pool!Stop, Pending
  <2>. QED
    BY <2>2 DEF Pool!Next
<1>8. ASSUME NEW abortRunning \in BOOLEAN, CloseCancelling(abortRunning)
      PROVE  Pool!Next
  <2>1. /\ dispatcherState = "accepting" /\ dispatcherState' = "cancelling"
        /\ queue' = <<>> /\ active' = active \ Range(queue)
        /\ running' = running /\ issued' = issued
    BY <1>8 DEF CloseCancelling, Pending, managerVars
  <2>2. Pool!Stop
    BY <1>0, <2>1, EmptyQueue DEF Pool!Stop, Pending, QueueInv
  <2>. QED
    BY <2>2 DEF Pool!Next
<1>9. CASE FinishClose
  BY <1>1, <1>9 DEF FinishClose, managerVars, PoolInv, WaiterInv, Pending
<1>10. CASE RouteStep
  BY <1>1, <1>2, <1>3, <1>10
  DEF RouteStep, SubmitNotStored, Poll, CreateReplayed, CreateConflicts, CreateRefused,
      SweepOnly, dispatcherVars
<1>11. CASE PumpStep
  BY <1>1, <1>4, <1>5, <1>11
  DEF PumpStep, BeginPump, EndPump, CallReturns, managerVars
<1>12. CASE TaskStep
  BY <1>1, <1>6, <1>12
  DEF TaskStep, TaskReports, TaskSettles, TaskFails, CompleteJob, PartiallyCompleteJob,
      FailJob, UpdateRefused, SweepOnly, Update, dispatcherVars
<1>13. CASE CloseStep
  BY <1>1, <1>7, <1>8, <1>9, <1>13
  DEF CloseStep, CloseJobManager, CloseManager, dispatcherVars
<1>14. CASE TimePasses \/ UNCHANGED systemVars
  BY <1>1, <1>14 DEF TimePasses, Tick, systemVars, managerVars, dispatcherVars
<1>. QED
  BY <1>10, <1>11, <1>12, <1>13, <1>14 DEF DispatcherNext

(* The dispatcher implements the abstract pool: every task is accepted     *)
(* once, executes at most once, and never comes back.                      *)
THEOREM RefinesTaskPool == DispatcherSpec => ImplementsTaskPool
BY PoolInit, PoolStep, PoolInitMaps, PoolStepMaps, PTL
DEF DispatcherSpec, ImplementsTaskPool, Pool!Spec

(* Both sides of NothingIsLeftBehind hold in every reachable state: jobs   *)
(* keep their tasks, and a pool that reports closed has none.              *)
THEOREM NothingLeftBehind == DispatcherSpec => []NothingIsLeftBehind
<1>1. EveryActiveJobOwned /\ ClosedMeansQuiet => NothingIsLeftBehind
  BY DEF NothingIsLeftBehind
<1>. QED
  BY NoJobAbandoned, ClosedIsQuiet, <1>1, PTL

-----------------------------------------------------------------------------
(* The ingestion workers                                                   *)

-----------------------------------------------------------------------------
(* The invariant                                                           *)

(* A task that has reported nothing yet.                                   *)
Reporting == {"returning", "throwing"}
Working == Awaits \ Reporting
BeforeWriting == {"called", "collecting", "persisting"}
AfterWriting == {"closing", "scanning"}

(* There is a stage after the write of a lockfile, and so an abort between.*)
FollowUps == LockfileSnapshots \/ Typosquatting

(* Jobs whose task has not been called yet.                                *)
NotBegun == Range(queue) \cup (Ids \ issued)

(* The thread is in the first block of a task only inside pump(), and an   *)
(* abort reaches executing tasks only, never the one being called.         *)
LoopInv ==
  /\ calling # NoId => pumping
  /\ aborted \subseteq running
  /\ calling \notin aborted

(* Nothing but its own deadline has been recorded for the job.             *)
Unreported(j) ==
  /\ j.status \notin {"completed", "partially-completed"}
  /\ j.codes \subseteq {"JOB_TIMED_OUT"}

(* Which awaits a worker of each kind is suspended at, and what it has     *)
(* noted there.                                                            *)
PlaceInv(i) ==
  /\ pc[i] = "called" => calling = i
  /\ pc[i] = "collecting" => IsNpm(i)
  /\ pc[i] \in AfterWriting => ~IsNpm(i) /\ FollowUps
  /\ ~IsNpm(i) => issues[i] \in LockfileIssues
  /\ pc[i] = "none" => issues[i] = {}

(* The task of a job works on the job's request, writes once, and reports  *)
(* once: what the record of the job may say at each await.  In "throwing"  *)
(* a task with a verified graph had its report refused, unless it was      *)
(* aborted before a later stage.                                           *)
TaskInv(i) ==
  /\ pc[i] # "none" /\ jobs[i].status # "absent" => jobs[i].request = task[i]
  /\ i \in NotBegun \/ pc[i] \in BeforeWriting => batch[i] = Untried
  /\ pc[i] \in AfterWriting => batch[i] = Durable
  /\ pc[i] \in Working => Unreported(jobs[i])
  /\ pc[i] = "returning" => ~Active(jobs[i])
  /\ pc[i] = "throwing" /\ batch[i].told = "verified" /\ Active(jobs[i])
       => ~IsNpm(i) /\ FollowUps
  /\ Active(jobs[i]) => jobs[i].codes = {}

CollectionFailures ==
  {"REGISTRY_REQUEST_FAILED", "LOCKFILE_INVALID", "GRAPH_VALIDATION_FAILED",
   "INGESTION_FAILED"}

(* VerdictIsTrue, for one job.                                             *)
Verdict(j, outcome) ==
  /\ j.status \in {"completed", "partially-completed"}
       => outcome.held = "all" /\ outcome.told = "verified"
  /\ "PERSISTENCE_PARTIAL" \in j.codes => outcome.held # "nothing"
  /\ "PERSISTENCE_FAILED" \in j.codes => outcome.told = "failed"
  /\ j.status = "failed" /\ j.codes \cap CollectionFailures # {}
       => outcome.held = "nothing"
  /\ outcome.told = "verified" /\ j.codes = {"INTERNAL_JOB_ERROR"}
       => j.request \notin NpmRequests /\ FollowUps

(* VerdictIsTrue is not inductive: that a result is true when recorded     *)
(* needs what the task has written so far, that it stays true needs that a *)
(* task writes once and before it reports, and that shutdown does not      *)
(* relabel an npm graph needs why its task may throw.                      *)
JobOK(i) == PlaceInv(i) /\ TaskInv(i) /\ Verdict(jobs[i], batch[i])

IngestionInv ==
  /\ PoolInv
  /\ WorkerTypeOK
  /\ LoopInv
  /\ \A i \in Ids : JobOK(i)

LEMMA InvImpliesVerdict == IngestionInv => VerdictIsTrue
BY DEF IngestionInv, JobOK, Verdict, CollectionFailures, VerdictIsTrue,
       VerdictMatchesGraph, VerifiedGraphIsRecorded, LabelledAbsent, FollowUps

-----------------------------------------------------------------------------
(* The job table, seen from a worker                                       *)

(* What a step does to a job it is not about: time passes, it times out,   *)
(* or it is forgotten.                                                     *)
FadesTo(j, k) ==
  \/ k.status = j.status /\ k.codes = j.codes /\ k.request = j.request
  \/ k.status = "absent" /\ k.codes = {}
  \/ /\ Active(j) /\ k.status = "failed" /\ k.codes = {"JOB_TIMED_OUT"}
     /\ k.request = j.request

LEMMA NoJobIsAbsent == NoJob.status = "absent" /\ NoJob.codes = {}
BY DEF NoJob

LEMMA SweptFades ==
  ASSUME ManagerTypeOK, NEW n \in Ids
  PROVE  /\ SweptJobs[n] \in Job
         /\ FadesTo(jobs[n], SweptJobs[n])
         /\ SweptJobs[n].status # "absent" => SweptJobs[n].request = jobs[n].request
<1>1. jobs[n] \in Job /\ SweptJobs[n] = SweptJob(jobs[n]) /\ SweptJobs[n] \in Job
  BY SweptActive DEF ManagerTypeOK, SweptJobs
<1>2. CASE Expired(jobs[n])
  BY <1>1, <1>2, SweptJobFacts, NoJobIsAbsent DEF FadesTo
<1>3. CASE TimedOut(jobs[n])
  BY <1>1, <1>3, SweptJobFacts, FinishedFacts DEF FailedJob, FadesTo, TimedOut
<1>4. CASE ~Expired(jobs[n]) /\ ~TimedOut(jobs[n])
  BY <1>1, <1>4, SweptJobFacts DEF FadesTo
<1>. QED
  BY <1>1, <1>2, <1>3, <1>4

LEMMA OlderFades ==
  ASSUME NEW j \in Job
  PROVE  FadesTo(j, Older(j))
BY DEF Older, Job, FadesTo

(* The calls a step makes on the table leave every other job to fade.      *)
LEMMA SweepFades ==
  ASSUME ManagerTypeOK, SweepOnly
  PROVE  \A n \in Ids : jobs'[n] = SweptJobs[n] /\ FadesTo(jobs[n], jobs'[n])
BY SweptFades DEF SweepOnly

LEMMA UpdateFades ==
  ASSUME ManagerTypeOK, NEW i \in Ids, NEW j, Update(i, j)
  PROVE  jobs'[i] = j /\ \A n \in Ids \ {i} : FadesTo(jobs[n], jobs'[n])
<1>1. SweptJobs \in [Ids -> Job] /\ jobs' = [SweptJobs EXCEPT ![i] = j]
  BY SweepType DEF Update
<1>2. jobs'[i] = j /\ \A n \in Ids \ {i} : jobs'[n] = SweptJobs[n]
  BY <1>1
<1>. QED
  BY <1>2, SweptFades

LEMMA StoreFades ==
  ASSUME ManagerTypeOK, NEW i \in Ids, NEW k, NEW j, Store(i, k, j)
  PROVE  jobs'[i] = j /\ \A n \in Ids \ {i} : FadesTo(jobs[n], jobs'[n])
<1>1. SweptJobs \in [Ids -> Job] /\ jobs' = [SweptJobs EXCEPT ![i] = j]
  BY SweepType DEF Store
<1>2. jobs'[i] = j /\ \A n \in Ids \ {i} : jobs'[n] = SweptJobs[n]
  BY <1>1
<1>. QED
  BY <1>2, SweptFades

(* failJobIfActive either finds the job fading, or closes it.              *)
LEMMA FailedIfActiveFades ==
  ASSUME ManagerTypeOK, NEW n \in Ids
  PROVE  LET j == FailedIfActive(SweptJobs[n])
         IN  \/ FadesTo(jobs[n], j)
             \/ /\ Active(jobs[n]) /\ j.status = "failed"
                /\ j.codes = {"INTERNAL_JOB_ERROR"}
                /\ j.request = jobs[n].request
<1>1. /\ SweptJobs[n] \in Job /\ FadesTo(jobs[n], SweptJobs[n])
      /\ Active(SweptJobs[n]) => SweptJobs[n] = jobs[n]
  BY SweptFades, SweptActive
<1>2. CASE Active(SweptJobs[n])
  BY <1>1, <1>2, FinishedFacts DEF FailedIfActive, FailedJob
<1>3. CASE ~Active(SweptJobs[n])
  BY <1>1, <1>3 DEF FailedIfActive
<1>. QED
  BY <1>2, <1>3

-----------------------------------------------------------------------------
(* What keeps the invariant of one job                                     *)

Outcomes == {Untried, Durable} \cup Rejections

LEMMA OutcomeFacts ==
  /\ Untried \in Outcomes /\ Untried.told = "none" /\ Untried.held = "nothing"
  /\ Durable \in Outcomes /\ Durable.told = "verified" /\ Durable.held = "all"
  /\ \A o \in Rejections :
       /\ o \in Outcomes /\ o.told \in {"partial", "failed"}
       /\ o.told = "partial" => o.held # "nothing"
BY DEF Outcomes, Untried, Durable, Rejections

(* Nothing recorded by a worker can be wrong about the graph.              *)
LEMMA UnreportedIsTrue ==
  ASSUME NEW j, NEW outcome, Unreported(j)
  PROVE  Verdict(j, outcome)
BY DEF Unreported, Verdict, CollectionFailures

LEMMA FadingIsHarmless ==
  ASSUME NEW j, NEW k, FadesTo(j, k)
  PROVE  /\ Unreported(j) => Unreported(k)
         /\ \A outcome : Verdict(j, outcome) => Verdict(k, outcome)
         /\ Active(k) => k.status = j.status /\ k.codes = j.codes
         /\ k.status # "absent" => j.status # "absent" /\ k.request = j.request
<1>1. Unreported(j) => Unreported(k)
  BY DEF Unreported, FadesTo, Active
<1>2. ASSUME NEW outcome, Verdict(j, outcome) PROVE Verdict(k, outcome)
  BY <1>2 DEF Verdict, CollectionFailures, FadesTo, Active
<1>3. Active(k) => k.status = j.status /\ k.codes = j.codes
  BY DEF FadesTo, Active
<1>4. k.status # "absent" => j.status # "absent" /\ k.request = j.request
  BY DEF FadesTo, Active
<1>. QED
  BY <1>1, <1>2, <1>3, <1>4

(* A job whose task a step leaves alone.                                   *)
LEMMA LeftAlone ==
  ASSUME NEW n \in Ids, JobOK(n), FadesTo(jobs[n], jobs'[n]),
         pc'[n] = pc[n], task'[n] = task[n], issues'[n] = issues[n],
         batch'[n] = batch[n],
         n \in NotBegun' => n \in NotBegun,
         pc[n] = "called" => calling' = calling
  PROVE  JobOK(n)'
<1>. USE FadingIsHarmless
<1>1. PlaceInv(n)'
  BY DEF JobOK, PlaceInv, IsNpm
<1>2. Verdict(jobs[n], batch[n])'
  BY DEF JobOK
<1>3. TaskInv(n)'
  <2>1. Active(jobs'[n]) => Active(jobs[n]) /\ jobs'[n].codes = jobs[n].codes
    BY DEF Active
  <2>2. (pc[n] # "none" /\ jobs[n].status # "absent" => jobs[n].request = task[n])'
    BY DEF JobOK, TaskInv
  <2>. QED
    BY <2>1, <2>2 DEF JobOK, TaskInv, IsNpm
<1>. QED
  BY <1>1, <1>2, <1>3 DEF JobOK

(* The jobs other than the one a step is about.                            *)
LEMMA OthersKeep ==
  ASSUME IngestionInv, NEW i \in Ids,
         \A n \in Ids \ {i} :
           /\ FadesTo(jobs[n], jobs'[n])
           /\ pc'[n] = pc[n] /\ task'[n] = task[n]
           /\ issues'[n] = issues[n] /\ batch'[n] = batch[n]
           /\ n \in NotBegun' => n \in NotBegun,
         calling' = calling \/ calling \in {i, NoId}
  PROVE  \A n \in Ids \ {i} : JobOK(n)'
<1>. SUFFICES ASSUME NEW n \in Ids \ {i} PROVE JobOK(n)'
  OBVIOUS
<1>1. JobOK(n) /\ n # i /\ n # NoId
  BY JobManagerAssumption DEF IngestionInv
<1>2. pc[n] = "called" => calling' = calling
  BY <1>1 DEF JobOK, PlaceInv
<1>. QED
  BY <1>1, <1>2, LeftAlone

(* A job without a task whose record is new, or closed before its task was *)
(* called.                                                                 *)
LEMMA NotBegunKeeps ==
  ASSUME IngestionInv, NEW n \in Ids, n \in NotBegun,
         \/ FadesTo(jobs[n], jobs'[n])
         \/ jobs'[n].status = "queued" /\ jobs'[n].codes = {}
         \/ jobs'[n].status = "failed" /\ jobs'[n].codes = {"INTERNAL_JOB_ERROR"},
         UNCHANGED workerVars
  PROVE  JobOK(n)'
<1>1. pc[n] = "none" /\ batch[n] = Untried /\ JobOK(n)
  <2>1. n \notin running
    BY DEF IngestionInv, PoolInv, QueueInv, NotBegun
  <2>. QED
    BY <2>1 DEF IngestionInv, WorkerTypeOK, JobOK, TaskInv
<1>2. UNCHANGED <<pc, task, issues, batch>>
  BY DEF workerVars
<1>3. PlaceInv(n)'
  BY <1>1, <1>2 DEF JobOK, PlaceInv, IsNpm, AfterWriting
<1>4. Verdict(jobs[n], batch[n])'
  <2>1. CASE FadesTo(jobs[n], jobs'[n])
    BY <1>1, <1>2, <2>1, FadingIsHarmless DEF JobOK
  <2>2. CASE jobs'[n].status = "queued" /\ jobs'[n].codes = {}
    BY <1>1, <1>2, <2>2, OutcomeFacts DEF Verdict
  <2>3. CASE jobs'[n].status = "failed" /\ jobs'[n].codes = {"INTERNAL_JOB_ERROR"}
    BY <1>1, <1>2, <2>3, OutcomeFacts DEF Verdict, CollectionFailures
  <2>. QED
    BY <2>1, <2>2, <2>3
<1>5. Active(jobs'[n]) => jobs'[n].codes = {}
  BY <1>1, FadingIsHarmless DEF JobOK, TaskInv, Active
<1>6. TaskInv(n)'
  BY <1>1, <1>2, <1>5, OutcomeFacts
  DEF TaskInv, BeforeWriting, AfterWriting, Working, Awaits, Reporting
<1>. QED
  BY <1>3, <1>4, <1>6 DEF JobOK

-----------------------------------------------------------------------------
(* What a worker's report does                                             *)

(* Job i is reported with status s and codes cs, or the report is refused  *)
(* and the task rejects.                                                   *)
Outcome(i, s, cs) ==
  /\ UNCHANGED dispatcherVars /\ issued' = issued
  /\ \A n \in Ids \ {i} : FadesTo(jobs[n], jobs'[n])
  /\ \/ /\ Goto(i, "returning")
        /\ jobs[i].status = "running"
        /\ jobs'[i].status = s /\ jobs'[i].codes = cs
        /\ jobs'[i].request = jobs[i].request
     \/ /\ Goto(i, "throwing")
        /\ FadesTo(jobs[i], jobs'[i]) /\ jobs'[i].status # "running"

(* A task may report while it executes, or in its first block.             *)
MayReport(i) == i \in running /\ (~pumping \/ calling = i)

LEMMA RefusalRecorded ==
  ASSUME ManagerTypeOK, NEW i \in Ids, UpdateRefused(i), UNCHANGED dispatcherVars,
         Goto(i, "throwing"), NEW s, NEW cs
  PROVE  Outcome(i, s, cs)
<1>1. /\ \A n \in Ids : jobs'[n] = SweptJobs[n] /\ FadesTo(jobs[n], jobs'[n])
      /\ issued' = issued /\ SweptJobs[i].status # "running"
  BY SweepFades DEF UpdateRefused, SweepOnly
<1>. QED
  BY <1>1 DEF Outcome

LEMMA FinishRecorded ==
  ASSUME ManagerTypeOK, NEW i \in Ids, NEW s, NEW cs,
         SweptJobs[i].status = "running",
         Update(i, FinishedJob(SweptJobs[i], s, cs)),
         UNCHANGED dispatcherVars, Goto(i, "returning")
  PROVE  Outcome(i, s, cs)
<1>1. SweptJobs[i] \in Job /\ SweptJobs[i] = jobs[i]
  BY SweptActive DEF Active
<1>2. /\ jobs'[i] = FinishedJob(SweptJobs[i], s, cs) /\ issued' = issued
      /\ \A n \in Ids \ {i} : FadesTo(jobs[n], jobs'[n])
  BY UpdateFades DEF Update
<1>. QED
  BY <1>1, <1>2, FinishedFacts DEF Outcome

LEMMA FailureRecorded ==
  ASSUME ManagerTypeOK, NEW i \in Ids, MayReport(i), NEW c \in WorkerCodes,
         Records(i, FailJob(i, c))
  PROVE  Outcome(i, "failed", {c}) /\ TaskReports(i)
<1>1. c \in ReportedCodes
  BY WorkerAssumption
<1>2. TaskReports(i)
  BY <1>1 DEF TaskReports, MayReport, Records
<1>3. UNCHANGED dispatcherVars
  BY DEF Records
<1>4. CASE SweptJobs[i].status = "running" /\ FailJob(i, c) /\ Goto(i, "returning")
  <2>1. Update(i, FinishedJob(SweptJobs[i], "failed", {c}))
    BY <1>4 DEF FailJob, FailedJob
  <2>. QED
    BY <1>2, <1>3, <1>4, <2>1, FinishRecorded
<1>5. CASE UpdateRefused(i) /\ Goto(i, "throwing")
  BY <1>2, <1>3, <1>5, RefusalRecorded
<1>. QED
  BY <1>2, <1>4, <1>5 DEF Records

ResultStatus(codes) == IF codes = {} THEN "completed" ELSE "partially-completed"

LEMMA ResultRecorded ==
  ASSUME ManagerTypeOK, NEW i \in Ids, MayReport(i), NEW codes \in CodeLists \cup {{}},
         Result(i, codes)
  PROVE  Outcome(i, ResultStatus(codes), codes) /\ TaskReports(i)
<1>1. CASE UpdateRefused(i) /\ Goto(i, "throwing") /\ UNCHANGED dispatcherVars
  BY <1>1, RefusalRecorded DEF TaskReports, MayReport
<1>2. CASE /\ codes = {} /\ CompleteJob(i) /\ SweptJobs[i].status = "running"
           /\ Goto(i, "returning") /\ UNCHANGED dispatcherVars
  BY <1>2, FinishRecorded DEF CompleteJob, ResultStatus, TaskReports, MayReport
<1>3. CASE /\ codes # {} /\ PartiallyCompleteJob(i, codes)
           /\ SweptJobs[i].status = "running"
           /\ Goto(i, "returning") /\ UNCHANGED dispatcherVars
  BY <1>3, FinishRecorded DEF PartiallyCompleteJob, ResultStatus, TaskReports, MayReport
<1>. QED
  BY <1>1, <1>2, <1>3 DEF Result, Records

(* The lists of codes the workers report are lists the manager takes.      *)
LEMMA IssuesAreReported ==
  /\ NpmIssues \subseteq CodeLists \cup {{}}
  /\ LockfileIssues \subseteq NpmIssues
  /\ \A codes \in LockfileIssues :
       \A c \in {"SNAPSHOT_HISTORY_NOT_CLOSED", "TYPOSQUATTING_SCAN_FAILED"} :
         {c} \cup codes \in CodeLists
<1>1. {{}, {"PARTIAL_COLLECTION"}} \subseteq NpmIssues
  BY DEF NpmIssues
<1>2. ASSUME NEW c \in {"SNAPSHOT_HISTORY_NOT_CLOSED", "TYPOSQUATTING_SCAN_FAILED"}
      PROVE  {c} \in CodeLists /\ {c, "PARTIAL_COLLECTION"} \in CodeLists
  BY WorkerAssumption
<1>3. ASSUME NEW c
      PROVE  /\ {c} \cup {} = {c}
             /\ {c} \cup {"PARTIAL_COLLECTION"} = {c, "PARTIAL_COLLECTION"}
  OBVIOUS
<1>4. NpmIssues \subseteq CodeLists \cup {{}}
  BY WorkerAssumption DEF NpmIssues
<1>. QED
  BY <1>1, <1>2, <1>3, <1>4 DEF LockfileIssues

-----------------------------------------------------------------------------
(* Both workers keep to the dispatcher's contract: every step of theirs is *)
(* a step of the pool or leaves it alone.                                  *)

(* A task that waits in pc is executing, and is free to report.            *)
LEMMA WaitingMayReport ==
  ASSUME IngestionInv, NEW i \in Ids, pc[i] # "none", ~pumping \/ pc[i] = "called"
  PROVE  MayReport(i) /\ ManagerTypeOK
BY DEF IngestionInv, WorkerTypeOK, JobOK, PlaceInv, MayReport, PoolInv, DispatcherTypeOK

LEMMA CatchMaps ==
  ASSUME IngestionInv, NEW i \in Ids, pc[i] # "none", ~pumping,
         NEW c \in WorkerCodes, Catch(i, c)
  PROVE  TaskReports(i) \/ UNCHANGED systemVars
BY WaitingMayReport, FailureRecorded DEF Catch

LEMMA ScanMaps ==
  ASSUME IngestionInv, NEW i \in Ids, pc[i] # "none", ~pumping, ScanOrRecord(i)
  PROVE  TaskReports(i) \/ UNCHANGED systemVars
<1>1. issues[i] \in CodeLists \cup {{}}
  BY IssuesAreReported DEF IngestionInv, WorkerTypeOK
<1>. QED
  BY <1>1, WaitingMayReport, ResultRecorded DEF ScanOrRecord

LEMMA WorkerStepMaps ==
  ASSUME IngestionInv, NEW i \in Ids, WorkerStep(i)
  PROVE  [DispatcherNext]_systemVars
<1>. SUFFICES CallReturns(i) \/ TaskReports(i) \/ TaskSettles(i) \/ TaskFails(i)
              \/ UNCHANGED systemVars
  BY DEF DispatcherNext, PumpStep, TaskStep
<1>0. issues[i] \in CodeLists \cup {{}}
  BY IssuesAreReported DEF IngestionInv, WorkerTypeOK
<1>1. CASE NpmCalled(i) \/ LockfileCollected(i) \/ RejectedCallReturns(i)
  BY <1>1 DEF NpmCalled, LockfileCollected, RejectedCallReturns
<1>2. CASE LockfileRejected(i)
  BY <1>2, WaitingMayReport, FailureRecorded DEF LockfileRejected, WorkerCodes
<1>3. CASE NpmCollected(i)
  BY <1>3 DEF NpmCollected
<1>4. CASE NpmNotCollected(i)
  BY <1>4, CatchMaps DEF NpmNotCollected, Resumes, WorkerCodes
<1>5. CASE Persisted(i)
  <2>1. CASE Result(i, issues[i])
    BY <1>0, <1>5, <2>1, WaitingMayReport, ResultRecorded DEF Persisted, Resumes
  <2>2. CASE AfterLockfilePersisted(i)
    BY <1>5, <2>2, ScanMaps DEF Persisted, Resumes, AfterLockfilePersisted
  <2>. QED
    BY <1>5, <2>1, <2>2 DEF Persisted
<1>6. CASE NotPersisted(i)
  <2>1. \A outcome : PersistenceFailureCode(outcome) \in WorkerCodes
    BY DEF PersistenceFailureCode, WorkerCodes
  <2>. QED
    BY <1>6, <2>1, CatchMaps DEF NotPersisted, Resumes
<1>7. CASE SnapshotsClosed(i)
  BY <1>7, ScanMaps DEF SnapshotsClosed, Resumes
<1>8. CASE SnapshotsNotClosed(i) \/ ScanFailed(i)
  <2>1. issues[i] \in LockfileIssues
    BY <1>8 DEF SnapshotsNotClosed, ScanFailed, Resumes, IngestionInv, JobOK, PlaceInv,
                AfterWriting
  <2>. QED
    BY <1>8, <2>1, WaitingMayReport, ResultRecorded, IssuesAreReported
    DEF SnapshotsNotClosed, ScanFailed, Resumes
<1>9. CASE Scanned(i)
  BY <1>0, <1>9, WaitingMayReport, ResultRecorded DEF Scanned, Resumes
<1>10. CASE Returns(i) \/ Throws(i)
  BY <1>10 DEF Returns, Throws
<1>. QED
  BY <1>1, <1>2, <1>3, <1>4, <1>5, <1>6, <1>7, <1>8, <1>9, <1>10 DEF WorkerStep

LEMMA IngestionStepMaps ==
  ASSUME IngestionInv, [IngestionNext]_ingestionVars
  PROVE  [DispatcherNext]_systemVars
<1>1. ASSUME NEW i \in Ids, Begin(i) PROVE DispatcherNext
  BY <1>1 DEF Begin, DispatcherNext, PumpStep
<1>2. CASE EnvironmentStep
  BY <1>2 DEF EnvironmentStep, DispatcherNext, PumpStep
<1>. QED
  BY <1>1, <1>2, WorkerStepMaps DEF IngestionNext, ingestionVars

-----------------------------------------------------------------------------
(* Steps of a task                                                         *)

(* The worker's part of the invariant, which every step must restore; the  *)
(* pool's part follows from the contract.                                  *)
WorkersInv == WorkerTypeOK /\ LoopInv /\ \A n \in Ids : JobOK(n)

LEMMA ExecutingHasBegun ==
  ASSUME IngestionInv, NEW i \in Ids, pc[i] # "none"
  PROVE  i \in running /\ i \notin NotBegun /\ jobs[i].status # "queued"
<1>1. i \in running
  BY DEF IngestionInv, WorkerTypeOK
<1>2. i \notin NotBegun
  BY <1>1 DEF IngestionInv, PoolInv, QueueInv, NotBegun
<1>3. jobs[i].status # "queued"
  BY <1>2 DEF IngestionInv, PoolInv, EveryActiveJobOwned, Pending, NotBegun
<1>. QED
  BY <1>1, <1>2, <1>3

(* The task records what became of its batch, unless its job is over.      *)
LEMMA ReportKeeps ==
  ASSUME IngestionInv, NEW i \in Ids, pc[i] \in Working,
         NEW s \in {"completed", "partially-completed", "failed"}, NEW cs,
         NEW outcome \in Outcomes,
         Outcome(i, s, cs),
         UNCHANGED <<task, issues>>, batch' = [batch EXCEPT ![i] = outcome],
         \A j : j.status = s /\ j.codes = cs => Verdict(j, outcome)
  PROVE  WorkersInv'
<1>0. /\ pc \in [Ids -> Awaits \cup {"none"}] /\ batch \in [Ids -> Outcomes]
      /\ UNCHANGED dispatcherVars /\ issued' = issued
  BY DEF IngestionInv, WorkerTypeOK, Outcome, Outcomes
<1>1. /\ pc' \in [Ids -> Awaits \cup {"none"}] /\ pc'[i] \in Reporting
      /\ batch' \in [Ids -> Outcomes] /\ batch'[i] = outcome
      /\ \A n \in Ids \ {i} : pc'[n] = pc[n] /\ batch'[n] = batch[n]
  BY <1>0 DEF Outcome, Goto, Awaits, Reporting
<1>2. pc[i] # "none"
  BY DEF Working, Awaits
<1>3. i \in running /\ i \notin NotBegun /\ jobs[i].status # "queued"
  BY <1>2, ExecutingHasBegun
<1>4. WorkerTypeOK'
  <2>1. \A n \in Ids : pc'[n] # "none" <=> pc[n] # "none"
    BY <1>1, <1>2 DEF Reporting
  <2>. QED
    BY <1>0, <1>1, <2>1 DEF IngestionInv, WorkerTypeOK, Outcomes, dispatcherVars
<1>5. LoopInv'
  BY <1>0 DEF IngestionInv, LoopInv, dispatcherVars
<1>6. NotBegun' = NotBegun /\ calling' = calling
  BY <1>0 DEF NotBegun, dispatcherVars
<1>7. \A n \in Ids \ {i} : JobOK(n)'
  BY <1>1, <1>6, OthersKeep DEF Outcome
<1>8. PlaceInv(i)'
  BY <1>1 DEF IngestionInv, JobOK, PlaceInv, IsNpm, Reporting, AfterWriting
<1>9. Unreported(jobs[i]) /\ (jobs[i].status # "absent" => jobs[i].request = task[i])
  BY <1>2 DEF IngestionInv, JobOK, TaskInv
<1>10. CASE /\ jobs[i].status = "running"
            /\ jobs'[i].status = s /\ jobs'[i].codes = cs
            /\ jobs'[i].request = jobs[i].request
  <2>1. ~Active(jobs'[i])
    BY <1>10 DEF Active
  <2>2. TaskInv(i)'
    BY <1>1, <1>3, <1>6, <1>9, <1>10, <2>1
    DEF TaskInv, Reporting, BeforeWriting, AfterWriting, Working
  <2>. QED
    BY <1>1, <1>4, <1>5, <1>7, <1>8, <1>10, <2>2 DEF WorkersInv, JobOK
<1>11. CASE FadesTo(jobs[i], jobs'[i]) /\ jobs'[i].status # "running"
  <2>1. ~Active(jobs'[i]) /\ Unreported(jobs'[i])
    BY <1>3, <1>9, <1>11, FadingIsHarmless DEF Active
  <2>2. Verdict(jobs'[i], batch'[i])
    BY <2>1, UnreportedIsTrue
  <2>3. jobs'[i].status # "absent" => jobs'[i].request = task[i]
    BY <1>9, <1>11, FadingIsHarmless
  <2>4. TaskInv(i)'
    BY <1>1, <1>3, <1>6, <2>1, <2>3
    DEF TaskInv, Reporting, BeforeWriting, AfterWriting, Working
  <2>. QED
    BY <1>4, <1>5, <1>7, <1>8, <2>2, <2>4 DEF WorkersInv, JobOK
<1>. QED
  BY <1>10, <1>11 DEF Outcome

(* The task goes on to its next await, or rejects without a report.        *)
LEMMA MoveKeeps ==
  ASSUME IngestionInv, NEW i \in Ids, pc[i] \in Working,
         NEW where \in Awaits \ {"called", "returning"},
         NEW codes \in NpmIssues, NEW outcome \in Outcomes,
         Goto(i, where),
         UNCHANGED <<jobs, issued, queue, running, aborted, pumping, task>>,
         calling' = calling \/ (calling = i /\ calling' = NoId),
         issues' = [issues EXCEPT ![i] = codes],
         batch' = [batch EXCEPT ![i] = outcome],
         where = "collecting" => IsNpm(i),
         where \in AfterWriting => ~IsNpm(i) /\ FollowUps /\ outcome = Durable,
         where \in BeforeWriting => outcome = Untried,
         where = "throwing" => (~IsNpm(i) /\ FollowUps) \/ outcome.told # "verified",
         ~IsNpm(i) => codes \in LockfileIssues
  PROVE  WorkersInv'
<1>0. /\ pc \in [Ids -> Awaits \cup {"none"}] /\ batch \in [Ids -> Outcomes]
      /\ issues \in [Ids -> NpmIssues]
  BY DEF IngestionInv, WorkerTypeOK, Outcomes
<1>1. /\ pc' \in [Ids -> Awaits \cup {"none"}] /\ pc'[i] = where
      /\ batch' \in [Ids -> Outcomes] /\ batch'[i] = outcome
      /\ issues' \in [Ids -> NpmIssues] /\ issues'[i] = codes
      /\ \A n \in Ids \ {i} : /\ pc'[n] = pc[n] /\ batch'[n] = batch[n]
                              /\ issues'[n] = issues[n]
  BY <1>0 DEF Goto
<1>2. pc[i] # "none" /\ where # "none"
  BY DEF Working, Awaits
<1>3. i \in running /\ i \notin NotBegun
  BY <1>2, ExecutingHasBegun
<1>4. WorkerTypeOK'
  <2>1. \A n \in Ids : pc'[n] # "none" <=> pc[n] # "none"
    BY <1>1, <1>2
  <2>. QED
    BY <1>1, <2>1 DEF IngestionInv, WorkerTypeOK, Outcomes
<1>5. LoopInv'
  <2>1. NoId \notin running
    BY JobManagerAssumption DEF IngestionInv, WorkerTypeOK
  <2>. QED
    BY <2>1 DEF IngestionInv, LoopInv
<1>6. NotBegun' = NotBegun /\ \A n \in Ids : FadesTo(jobs[n], jobs'[n])
  BY DEF NotBegun, FadesTo
<1>7. \A n \in Ids \ {i} : JobOK(n)'
  BY <1>1, <1>6, OthersKeep
<1>8. PlaceInv(i)'
  BY <1>1, <1>2 DEF PlaceInv, IsNpm
<1>9. Unreported(jobs[i]) /\ (jobs[i].status # "absent" => jobs[i].request = task[i])
      /\ (Active(jobs[i]) => jobs[i].codes = {})
  BY <1>2 DEF IngestionInv, JobOK, TaskInv
<1>10. TaskInv(i)'
  BY <1>1, <1>3, <1>6, <1>9 DEF TaskInv, IsNpm
<1>11. Verdict(jobs[i], batch[i])'
  BY <1>9, UnreportedIsTrue
<1>. QED
  BY <1>4, <1>5, <1>7, <1>8, <1>10, <1>11 DEF WorkersInv, JobOK

(* The catch block of a task whose batch did not reach the graph whole.    *)
LEMMA CatchKeeps ==
  ASSUME IngestionInv, NEW i \in Ids, pc[i] \in {"collecting", "persisting"}, ~pumping,
         NEW c \in WorkerCodes, NEW outcome \in Outcomes, outcome.told # "verified",
         Catch(i, c),
         UNCHANGED <<task, issues>>, batch' = [batch EXCEPT ![i] = outcome],
         \A j : j.status = "failed" /\ j.codes = {c} => Verdict(j, outcome)
  PROVE  WorkersInv'
<1>0. pc[i] \in Working /\ pc[i] # "none"
  BY DEF Working, Awaits, Reporting
<1>1. CASE i \in aborted
  <2>1. issues[i] \in NpmIssues /\ issues' = [issues EXCEPT ![i] = issues[i]]
    BY DEF IngestionInv, WorkerTypeOK
  <2>2. "throwing" \in Awaits \ {"called", "returning"} /\ "throwing" \notin AfterWriting
        /\ "throwing" \notin BeforeWriting
    BY DEF Awaits, AfterWriting, BeforeWriting
  <2>3. Goto(i, "throwing") /\ UNCHANGED systemVars
    BY <1>1 DEF Catch
  <2>4. ~IsNpm(i) => issues[i] \in LockfileIssues
    BY DEF IngestionInv, JobOK, PlaceInv
  <2>. QED
    BY <1>0, <2>1, <2>2, <2>3, <2>4, MoveKeeps
    DEF systemVars, managerVars, dispatcherVars
<1>2. CASE i \notin aborted
  <2>1. Outcome(i, "failed", {c})
    BY <1>0, <1>2, WaitingMayReport, FailureRecorded DEF Catch
  <2>. QED
    BY <1>0, <2>1, ReportKeeps
<1>. QED
  BY <1>1, <1>2

-----------------------------------------------------------------------------
(* One lemma per action                                                    *)

LEMMA BeginKeeps ==
  ASSUME IngestionInv, NEW i \in Ids, Begin(i)
  PROVE  WorkersInv'
<1>0. /\ ManagerTypeOK /\ queue \in Seq(Ids) /\ queue # <<>> /\ i = Head(queue)
      /\ pumping /\ pumping' /\ calling = NoId /\ calling' = i
      /\ queue' = Tail(queue) /\ running' = running \cup {i}
      /\ MayStart(i) /\ Update(i, StartedJob(SweptJobs[i]))
      /\ pc' = [pc EXCEPT ![i] = "called"]
      /\ task' = [task EXCEPT ![i] = jobs[i].request]
      /\ UNCHANGED <<aborted, issued, issues, batch>>
  BY DEF Begin, PumpStarts, StartJob, Update, MayPump, Goto, IngestionInv, PoolInv,
         DispatcherTypeOK
<1>1. Range(queue) = Range(queue') \cup {i}
  BY <1>0, TailFacts
<1>2. i \in NotBegun /\ NotBegun' \subseteq NotBegun
  BY <1>0, <1>1 DEF NotBegun
<1>3. i \notin running /\ pc[i] = "none" /\ batch[i] = Untried /\ issues[i] = {}
  <2>1. i \notin running
    BY <1>2 DEF IngestionInv, PoolInv, QueueInv, NotBegun
  <2>. QED
    BY <1>2, <2>1 DEF IngestionInv, WorkerTypeOK, JobOK, PlaceInv, TaskInv
<1>4. SweptJobs[i] = jobs[i] /\ jobs[i] \in Job /\ jobs[i].status = "queued"
  BY <1>0, SweptActive DEF MayStart, Active
<1>5. /\ jobs'[i].status = "running" /\ jobs'[i].codes = {}
      /\ jobs'[i].request = jobs[i].request
      /\ \A n \in Ids \ {i} : FadesTo(jobs[n], jobs'[n])
  <2>1. /\ jobs'[i] = StartedJob(jobs[i])
        /\ \A n \in Ids \ {i} : FadesTo(jobs[n], jobs'[n])
    BY <1>0, <1>4, UpdateFades
  <2>2. jobs[i].codes = {}
    BY <1>4 DEF IngestionInv, JobOK, TaskInv, Active
  <2>. QED
    BY <1>4, <2>1, <2>2 DEF StartedJob, Job
<1>6. /\ pc' \in [Ids -> Awaits \cup {"none"}] /\ pc'[i] = "called"
      /\ task' \in [Ids -> Requests \cup {NoRequest}] /\ task'[i] = jobs[i].request
      /\ \A n \in Ids \ {i} : pc'[n] = pc[n] /\ task'[n] = task[n]
  BY <1>0, <1>4 DEF IngestionInv, WorkerTypeOK, Awaits, Job
<1>7. WorkerTypeOK'
  BY <1>0, <1>6 DEF IngestionInv, WorkerTypeOK
<1>8. LoopInv'
  BY <1>0, <1>3 DEF IngestionInv, LoopInv
<1>9. \A n \in Ids \ {i} : JobOK(n)'
  BY <1>0, <1>2, <1>5, <1>6, OthersKeep
<1>10. PlaceInv(i)'
  BY <1>0, <1>3, <1>6 DEF PlaceInv, AfterWriting, LockfileIssues
<1>11. TaskInv(i)'
  BY <1>0, <1>3, <1>5, <1>6 DEF TaskInv, AfterWriting, Unreported
<1>12. Verdict(jobs[i], batch[i])'
  BY <1>5, UnreportedIsTrue DEF Unreported
<1>. QED
  BY <1>7, <1>8, <1>9, <1>10, <1>11, <1>12 DEF WorkersInv, JobOK

LEMMA CallKeeps ==
  ASSUME IngestionInv, NEW i \in Ids, NpmCalled(i) \/ LockfileCollected(i)
  PROVE  WorkersInv'
<1>0. /\ pc[i] = "called" /\ calling = i /\ calling' = NoId
      /\ UNCHANGED <<jobs, issued, queue, running, aborted, pumping, task>>
      /\ batch' = batch
  BY DEF NpmCalled, LockfileCollected, CallReturns, managerVars
<1>1. /\ pc[i] \in Working /\ batch[i] = Untried
      /\ batch' = [batch EXCEPT ![i] = Untried] /\ Untried \in Outcomes
  BY <1>0 DEF IngestionInv, WorkerTypeOK, JobOK, TaskInv, BeforeWriting, Working, Awaits,
              Reporting, Outcomes
<1>2. CASE NpmCalled(i)
  <2>1. /\ Goto(i, "collecting") /\ IsNpm(i) /\ issues' = issues
        /\ issues[i] \in NpmIssues /\ issues' = [issues EXCEPT ![i] = issues[i]]
    BY <1>2 DEF NpmCalled, IngestionInv, WorkerTypeOK
  <2>2. "collecting" \in Awaits \ {"called", "returning"} /\ "collecting" \notin AfterWriting
    BY DEF Awaits, AfterWriting
  <2>. QED
    BY <1>0, <1>1, <2>1, <2>2, MoveKeeps
<1>3. CASE LockfileCollected(i)
  <2>1. PICK codes \in LockfileIssues : issues' = [issues EXCEPT ![i] = codes]
    BY <1>3 DEF LockfileCollected, Noting
  <2>2. Goto(i, "persisting") /\ codes \in NpmIssues
    BY <1>3, IssuesAreReported DEF LockfileCollected
  <2>3. "persisting" \in Awaits \ {"called", "returning"} /\ "persisting" \notin AfterWriting
    BY DEF Awaits, AfterWriting
  <2>. QED
    BY <1>0, <1>1, <2>1, <2>2, <2>3, MoveKeeps
<1>. QED
  BY <1>2, <1>3

LEMMA LockfileRejectionKeeps ==
  ASSUME IngestionInv, NEW i \in Ids, LockfileRejected(i)
  PROVE  WorkersInv'
<1>0. PICK c \in {"LOCKFILE_INVALID", "GRAPH_VALIDATION_FAILED"} :
        Records(i, FailJob(i, c))
  BY DEF LockfileRejected
<1>1. pc[i] = "called" /\ UNCHANGED <<task, issues>> /\ batch' = batch
  BY DEF LockfileRejected
<1>2. /\ pc[i] \in Working /\ batch[i] = Untried
      /\ batch' = [batch EXCEPT ![i] = Untried] /\ Untried \in Outcomes
  BY <1>1 DEF IngestionInv, WorkerTypeOK, JobOK, TaskInv, BeforeWriting, Working, Awaits,
              Reporting, Outcomes
<1>3. c \in WorkerCodes
  BY DEF WorkerCodes
<1>4. Outcome(i, "failed", {c})
  BY <1>0, <1>1, <1>3, WaitingMayReport, FailureRecorded
<1>5. \A j : j.status = "failed" /\ j.codes = {c} => Verdict(j, Untried)
  BY OutcomeFacts DEF Verdict
<1>. QED
  BY <1>1, <1>2, <1>4, <1>5, ReportKeeps

LEMMA RejectedCallKeeps ==
  ASSUME IngestionInv, NEW i \in Ids, RejectedCallReturns(i)
  PROVE  WorkersInv'
<1>0. /\ pc[i] \in Reporting /\ calling = i /\ calling' = NoId
      /\ UNCHANGED <<jobs, issued, queue, running, aborted, pumping>>
      /\ UNCHANGED <<pc, task, issues, batch>>
  BY DEF RejectedCallReturns, CallReturns, managerVars, workerVars, Reporting
<1>1. \A n \in Ids : FadesTo(jobs[n], jobs'[n]) /\ NotBegun' = NotBegun
  BY <1>0 DEF FadesTo, NotBegun
<1>2. \A n \in Ids \ {i} : JobOK(n)'
  BY <1>0, <1>1, OthersKeep
<1>3. JobOK(i)'
  BY <1>0, <1>1, LeftAlone DEF IngestionInv, Reporting
<1>4. WorkerTypeOK' /\ LoopInv'
  <2>1. NoId \notin running
    BY JobManagerAssumption DEF IngestionInv, WorkerTypeOK
  <2>. QED
    BY <1>0, <2>1 DEF IngestionInv, WorkerTypeOK, LoopInv
<1>. QED
  BY <1>2, <1>3, <1>4 DEF WorkersInv

LEMMA NpmCollectedKeeps ==
  ASSUME IngestionInv, NEW i \in Ids, NpmCollected(i)
  PROVE  WorkersInv'
<1>0. /\ pc[i] = "collecting" /\ Goto(i, "persisting")
      /\ UNCHANGED systemVars /\ task' = task /\ batch' = batch
  BY DEF NpmCollected, Resumes
<1>1. PICK codes \in NpmIssues : issues' = [issues EXCEPT ![i] = codes]
  BY DEF NpmCollected, Noting
<1>2. /\ pc[i] \in Working /\ batch[i] = Untried /\ IsNpm(i)
      /\ batch' = [batch EXCEPT ![i] = Untried] /\ Untried \in Outcomes
  BY <1>0 DEF IngestionInv, WorkerTypeOK, JobOK, PlaceInv, TaskInv, BeforeWriting, Working,
              Awaits, Reporting, Outcomes
<1>3. "persisting" \in Awaits \ {"called", "returning"} /\ "persisting" \notin AfterWriting
  BY DEF Awaits, AfterWriting
<1>. QED
  BY <1>0, <1>1, <1>2, <1>3, MoveKeeps DEF systemVars, managerVars, dispatcherVars

LEMMA NpmNotCollectedKeeps ==
  ASSUME IngestionInv, NEW i \in Ids, NpmNotCollected(i)
  PROVE  WorkersInv'
<1>0. PICK c \in {"REGISTRY_REQUEST_FAILED", "GRAPH_VALIDATION_FAILED",
                  "INGESTION_FAILED"} : Catch(i, c)
  BY DEF NpmNotCollected
<1>1. /\ pc[i] = "collecting" /\ ~pumping
      /\ UNCHANGED <<task, issues>> /\ batch' = batch
  BY DEF NpmNotCollected, Resumes
<1>2. /\ batch[i] = Untried /\ batch' = [batch EXCEPT ![i] = Untried]
      /\ Untried \in Outcomes /\ Untried.told # "verified"
  BY <1>1, OutcomeFacts DEF IngestionInv, WorkerTypeOK, JobOK, TaskInv, BeforeWriting
<1>3. c \in WorkerCodes
  BY DEF WorkerCodes
<1>4. \A j : j.status = "failed" /\ j.codes = {c} => Verdict(j, Untried)
  BY OutcomeFacts DEF Verdict
<1>. QED
  BY <1>0, <1>1, <1>2, <1>3, <1>4, CatchKeeps

(* A result that is recorded once the batch is verified.                   *)
LEMMA ResultKeeps ==
  ASSUME IngestionInv, NEW i \in Ids, pc[i] \in {"persisting"} \cup AfterWriting, ~pumping,
         NEW codes \in CodeLists \cup {{}},
         codes \cap {"PERSISTENCE_PARTIAL", "PERSISTENCE_FAILED", "INTERNAL_JOB_ERROR"} = {},
         Result(i, codes),
         UNCHANGED <<task, issues>>, batch' = [batch EXCEPT ![i] = Durable]
  PROVE  WorkersInv'
<1>0. pc[i] \in Working /\ pc[i] # "none" /\ Durable \in Outcomes
  BY DEF Working, Awaits, Reporting, AfterWriting, Outcomes
<1>1. Outcome(i, ResultStatus(codes), codes)
  BY <1>0, WaitingMayReport, ResultRecorded
<1>2. ResultStatus(codes) \in {"completed", "partially-completed"}
  BY DEF ResultStatus
<1>3. \A j : j.status = ResultStatus(codes) /\ j.codes = codes => Verdict(j, Durable)
  BY <1>2, OutcomeFacts DEF Verdict
<1>. QED
  BY <1>0, <1>1, <1>2, <1>3, ReportKeeps

LEMMA ResultCodes ==
  /\ \A codes \in NpmIssues :
       codes \cap {"PERSISTENCE_PARTIAL", "PERSISTENCE_FAILED", "INTERNAL_JOB_ERROR"} = {}
  /\ \A codes \in LockfileIssues :
       \A c \in {"SNAPSHOT_HISTORY_NOT_CLOSED", "TYPOSQUATTING_SCAN_FAILED"} :
         ({c} \cup codes)
           \cap {"PERSISTENCE_PARTIAL", "PERSISTENCE_FAILED", "INTERNAL_JOB_ERROR"} = {}
BY DEF NpmIssues, LockfileIssues

(* A lockfile task goes on to close snapshots or to scan, or is aborted.   *)
LEMMA FollowUpKeeps ==
  ASSUME IngestionInv, NEW i \in Ids, pc[i] \in {"persisting"} \cup AfterWriting, ~IsNpm(i),
         FollowUps, NEW next \in AfterWriting,
         Goto(i, IF i \in aborted THEN "throwing" ELSE next), UNCHANGED systemVars,
         UNCHANGED <<task, issues>>, batch' = [batch EXCEPT ![i] = Durable]
  PROVE  WorkersInv'
<1>. DEFINE where == IF i \in aborted THEN "throwing" ELSE next
<1>1. pc[i] \in Working /\ Durable \in Outcomes
  BY DEF Working, Awaits, Reporting, AfterWriting, Outcomes
<1>2. /\ where \in Awaits \ {"called", "returning"} /\ where # "collecting"
      /\ where \notin BeforeWriting
  BY DEF Awaits, AfterWriting, BeforeWriting
<1>3. /\ issues[i] \in NpmIssues /\ issues' = [issues EXCEPT ![i] = issues[i]]
      /\ issues[i] \in LockfileIssues
  BY DEF IngestionInv, WorkerTypeOK, JobOK, PlaceInv
<1>4. Goto(i, where)
  OBVIOUS
<1>. HIDE DEF where
<1>. QED
  BY <1>1, <1>2, <1>3, <1>4, MoveKeeps DEF systemVars, managerVars, dispatcherVars

LEMMA ScanOrRecordKeeps ==
  ASSUME IngestionInv, NEW i \in Ids, pc[i] \in {"persisting"} \cup AfterWriting, ~pumping,
         ~IsNpm(i), ScanOrRecord(i),
         UNCHANGED <<task, issues>>, batch' = [batch EXCEPT ![i] = Durable]
  PROVE  WorkersInv'
<1>1. issues[i] \in NpmIssues
  BY DEF IngestionInv, WorkerTypeOK
<1>2. CASE ~Typosquatting
  BY <1>1, <1>2, ResultKeeps, ResultCodes, IssuesAreReported DEF ScanOrRecord
<1>3. CASE Typosquatting
  BY <1>3, FollowUpKeeps DEF ScanOrRecord, AfterWriting, FollowUps
<1>. QED
  BY <1>2, <1>3

LEMMA PersistedKeeps ==
  ASSUME IngestionInv, NEW i \in Ids, Persisted(i)
  PROVE  WorkersInv'
<1>0. /\ pc[i] = "persisting" /\ ~pumping /\ UNCHANGED <<task, issues>>
      /\ batch' = [batch EXCEPT ![i] = Durable]
  BY DEF Persisted, Resumes
<1>1. issues[i] \in NpmIssues
  BY DEF IngestionInv, WorkerTypeOK
<1>2. CASE IsNpm(i)
  BY <1>0, <1>1, <1>2, ResultKeeps, ResultCodes, IssuesAreReported DEF Persisted
<1>3. CASE ~IsNpm(i) /\ LockfileSnapshots
  BY <1>0, <1>3, FollowUpKeeps
  DEF Persisted, AfterLockfilePersisted, AfterWriting, FollowUps
<1>4. CASE ~IsNpm(i) /\ ~LockfileSnapshots
  BY <1>0, <1>4, ScanOrRecordKeeps DEF Persisted, AfterLockfilePersisted
<1>. QED
  BY <1>2, <1>3, <1>4

LEMMA NotPersistedKeeps ==
  ASSUME IngestionInv, NEW i \in Ids, NotPersisted(i)
  PROVE  WorkersInv'
<1>0. PICK outcome \in Rejections :
        /\ batch' = [batch EXCEPT ![i] = outcome]
        /\ Catch(i, PersistenceFailureCode(outcome.told))
  BY DEF NotPersisted
<1>1. /\ pc[i] = "persisting" /\ ~pumping /\ UNCHANGED <<task, issues>>
      /\ outcome \in Outcomes /\ outcome.told # "verified"
  BY OutcomeFacts DEF NotPersisted, Resumes
<1>2. PersistenceFailureCode(outcome.told) \in WorkerCodes
  BY DEF PersistenceFailureCode, WorkerCodes
<1>3. \A j : j.status = "failed" /\ j.codes = {PersistenceFailureCode(outcome.told)}
               => Verdict(j, outcome)
  BY OutcomeFacts DEF PersistenceFailureCode, Verdict, CollectionFailures
<1>. QED
  BY <1>0, <1>1, <1>2, <1>3, CatchKeeps

(* Closing the snapshots and scanning come after the write and leave it.   *)
LEMMA AfterWritingFacts ==
  ASSUME IngestionInv, NEW i \in Ids, pc[i] \in AfterWriting, batch' = batch
  PROVE  /\ ~IsNpm(i) /\ issues[i] \in LockfileIssues
         /\ batch' = [batch EXCEPT ![i] = Durable]
BY DEF IngestionInv, WorkerTypeOK, JobOK, PlaceInv, TaskInv

LEMMA SnapshotsKeep ==
  ASSUME IngestionInv, NEW i \in Ids, SnapshotsClosed(i) \/ SnapshotsNotClosed(i)
  PROVE  WorkersInv'
<1>0. /\ pc[i] \in AfterWriting /\ ~pumping /\ UNCHANGED <<task, issues>>
      /\ batch' = batch
  BY DEF SnapshotsClosed, SnapshotsNotClosed, Resumes, AfterWriting
<1>1. CASE SnapshotsClosed(i)
  BY <1>0, <1>1, AfterWritingFacts, ScanOrRecordKeeps DEF SnapshotsClosed
<1>2. CASE SnapshotsNotClosed(i)
  BY <1>0, <1>2, AfterWritingFacts, ResultKeeps, ResultCodes, IssuesAreReported
  DEF SnapshotsNotClosed
<1>. QED
  BY <1>1, <1>2

LEMMA ScanKeeps ==
  ASSUME IngestionInv, NEW i \in Ids, Scanned(i) \/ ScanFailed(i)
  PROVE  WorkersInv'
<1>0. /\ pc[i] \in AfterWriting /\ ~pumping /\ UNCHANGED <<task, issues>>
      /\ batch' = batch
  BY DEF Scanned, ScanFailed, Resumes, AfterWriting
<1>1. CASE Scanned(i)
  BY <1>0, <1>1, AfterWritingFacts, ResultKeeps, ResultCodes, IssuesAreReported
  DEF Scanned
<1>2. CASE ScanFailed(i)
  BY <1>0, <1>2, AfterWritingFacts, ResultKeeps, ResultCodes, IssuesAreReported
  DEF ScanFailed
<1>. QED
  BY <1>1, <1>2

(* The task leaves the pool: a job it left active is closed now, which is  *)
(* never an npm job with its graph verified.                               *)
LEMMA LeaveKeeps ==
  ASSUME IngestionInv, NEW i \in Ids, Returns(i) \/ Throws(i)
  PROVE  WorkersInv'
<1>0. /\ pc[i] \in Reporting /\ ~pumping /\ ManagerTypeOK
      /\ running' = running \ {i} /\ aborted' = aborted \ {i}
      /\ pc' = [pc EXCEPT ![i] = "none"] /\ task' = [task EXCEPT ![i] = NoRequest]
      /\ issues' = [issues EXCEPT ![i] = {}] /\ batch' = batch
      /\ UNCHANGED <<queue, pumping, calling, issued>>
  BY DEF Returns, Throws, Gone, Goto, Noting, TaskSettles, TaskFails, Release, SweepOnly,
         Update, Reporting, IngestionInv, PoolInv, DispatcherTypeOK
<1>1. /\ pc' \in [Ids -> Awaits \cup {"none"}] /\ pc'[i] = "none"
      /\ task' \in [Ids -> Requests \cup {NoRequest}]
      /\ issues' \in [Ids -> NpmIssues] /\ issues'[i] = {}
      /\ \A n \in Ids \ {i} : /\ pc'[n] = pc[n] /\ task'[n] = task[n]
                              /\ issues'[n] = issues[n] /\ batch'[n] = batch[n]
  BY <1>0 DEF IngestionInv, WorkerTypeOK, NpmIssues
<1>2. pc[i] # "none" /\ i \in running /\ i \notin NotBegun /\ NotBegun' = NotBegun
  BY <1>0, ExecutingHasBegun DEF Reporting, NotBegun
<1>3. /\ \A n \in Ids \ {i} : FadesTo(jobs[n], jobs'[n])
      /\ \/ FadesTo(jobs[i], jobs'[i])
         \/ /\ Active(jobs[i]) /\ jobs'[i].status = "failed"
            /\ jobs'[i].codes = {"INTERNAL_JOB_ERROR"}
            /\ jobs'[i].request = jobs[i].request
  <2>1. CASE SweepOnly
    BY <1>0, <2>1, SweepFades
  <2>2. CASE Update(i, FailedIfActive(SweptJobs[i]))
    BY <1>0, <2>2, UpdateFades, FailedIfActiveFades
  <2>. QED
    BY <2>1, <2>2 DEF Returns, Throws, TaskSettles, TaskFails
<1>4. WorkerTypeOK' /\ LoopInv'
  <2>1. running' = {n \in Ids : pc'[n] # "none"}
    BY <1>0, <1>1 DEF IngestionInv, WorkerTypeOK
  <2>. QED
    BY <1>0, <1>1, <2>1 DEF IngestionInv, WorkerTypeOK, LoopInv
<1>5. \A n \in Ids \ {i} : JobOK(n)'
  BY <1>0, <1>1, <1>2, <1>3, OthersKeep
<1>6. PlaceInv(i)'
  BY <1>1 DEF PlaceInv, AfterWriting, LockfileIssues
<1>7. Active(jobs'[i]) => jobs'[i].codes = {}
  BY <1>3, FadingIsHarmless DEF IngestionInv, JobOK, TaskInv, Active
<1>8. TaskInv(i)'
  BY <1>1, <1>2, <1>7 DEF TaskInv, BeforeWriting, AfterWriting, Working, Awaits, Reporting
<1>9. Verdict(jobs[i], batch[i])'
  <2>1. CASE FadesTo(jobs[i], jobs'[i])
    BY <1>0, <2>1, FadingIsHarmless DEF IngestionInv, JobOK
  <2>2. CASE /\ Active(jobs[i]) /\ jobs'[i].status = "failed"
             /\ jobs'[i].codes = {"INTERNAL_JOB_ERROR"}
             /\ jobs'[i].request = jobs[i].request
    <3>1. jobs[i].request = task[i] /\ (batch[i].told = "verified" => ~IsNpm(i) /\ FollowUps)
      BY <1>0, <1>2, <2>2 DEF IngestionInv, JobOK, TaskInv, Active, Reporting
    <3>. QED
      BY <1>0, <2>2, <3>1 DEF Verdict, CollectionFailures, IsNpm
  <2>. QED
    BY <1>3, <2>1, <2>2
<1>. QED
  BY <1>4, <1>5, <1>6, <1>8, <1>9 DEF WorkersInv, JobOK

-----------------------------------------------------------------------------
(* The rest of the system                                                  *)

LEMMA TasksLeftAlone ==
  ASSUME IngestionInv, UNCHANGED workerVars, UNCHANGED <<running, calling>>,
         \A n \in Ids :
           /\ n \in NotBegun' => n \in NotBegun
           /\ FadesTo(jobs[n], jobs'[n])
  PROVE  WorkerTypeOK' /\ \A n \in Ids : JobOK(n)'
<1>1. WorkerTypeOK'
  BY DEF IngestionInv, WorkerTypeOK, workerVars
<1>2. \A n \in Ids : JobOK(n)'
  BY LeftAlone DEF IngestionInv, workerVars
<1>. QED
  BY <1>1, <1>2

(* A job that is admitted, or closed while it waits.                       *)
LEMMA AdmissionKeeps ==
  ASSUME IngestionInv, NEW i \in Ids, i \in NotBegun, UNCHANGED workerVars,
         UNCHANGED <<running, aborted, calling, pumping>>,
         NotBegun' \subseteq NotBegun,
         \A n \in Ids \ {i} : FadesTo(jobs[n], jobs'[n]),
         \/ FadesTo(jobs[i], jobs'[i])
         \/ jobs'[i].status = "queued" /\ jobs'[i].codes = {}
         \/ jobs'[i].status = "failed" /\ jobs'[i].codes = {"INTERNAL_JOB_ERROR"}
  PROVE  WorkersInv'
<1>1. WorkerTypeOK' /\ LoopInv'
  BY DEF IngestionInv, WorkerTypeOK, LoopInv, workerVars
<1>2. \A n \in Ids \ {i} : JobOK(n)'
  BY OthersKeep DEF workerVars
<1>3. JobOK(i)'
  BY NotBegunKeeps
<1>. QED
  BY <1>1, <1>2, <1>3 DEF WorkersInv

LEMMA SubmitsKeep ==
  ASSUME IngestionInv, NEW r \in Requests, NEW k \in Keys \cup {NoKey}, NEW i \in Ids,
         Submit(i, r, k) \/ SubmitUndispatched(i, r, k), UNCHANGED workerVars
  PROVE  WorkersInv'
<1>0. ManagerTypeOK /\ queue \in Seq(Ids)
  BY DEF IngestionInv, PoolInv, DispatcherTypeOK
<1>1. QueuedJob(r, k) \in Job
  BY JobOperatorsType
<1>2. CASE Submit(i, r, k)
  <2>1. /\ Store(i, k, QueuedJob(r, k)) /\ i \notin issued /\ issued' = issued \cup {i}
        /\ queue' = Append(queue, i)
        /\ UNCHANGED <<running, aborted, calling, pumping>>
    BY <1>2 DEF Submit, CreateJob, Store, Enqueue
  <2>2. Range(queue') = Range(queue) \cup {i}
    BY <1>0, <2>1, AppendFacts
  <2>3. i \in NotBegun /\ NotBegun' \subseteq NotBegun
    BY <2>1, <2>2 DEF NotBegun
  <2>4. /\ jobs'[i] = QueuedJob(r, k)
        /\ \A n \in Ids \ {i} : FadesTo(jobs[n], jobs'[n])
    BY <1>0, <2>1, StoreFades
  <2>5. jobs'[i].status = "queued" /\ jobs'[i].codes = {}
    BY <2>4 DEF QueuedJob
  <2>. QED
    BY <2>1, <2>3, <2>4, <2>5, AdmissionKeeps
<1>3. CASE SubmitUndispatched(i, r, k)
  <2>1. /\ Store(i, k, FailedJob(QueuedJob(r, k), "INTERNAL_JOB_ERROR"))
        /\ i \notin issued /\ issued' = issued \cup {i}
        /\ UNCHANGED <<queue, running, aborted, calling, pumping>>
    BY <1>3 DEF SubmitUndispatched, Store, dispatcherVars
  <2>2. i \in NotBegun /\ NotBegun' \subseteq NotBegun
    BY <2>1 DEF NotBegun
  <2>3. /\ jobs'[i] = FailedJob(QueuedJob(r, k), "INTERNAL_JOB_ERROR")
        /\ \A n \in Ids \ {i} : FadesTo(jobs[n], jobs'[n])
    BY <1>0, <2>1, StoreFades
  <2>4. jobs'[i].status = "failed" /\ jobs'[i].codes = {"INTERNAL_JOB_ERROR"}
    BY <1>1, <2>3, FinishedFacts DEF FailedJob
  <2>. QED
    BY <2>1, <2>2, <2>3, <2>4, AdmissionKeeps
<1>. QED
  BY <1>2, <1>3

LEMMA PumpSkipKeeps ==
  ASSUME IngestionInv, NEW i \in Ids, PumpSkips(i), UNCHANGED workerVars
  PROVE  WorkersInv'
<1>0. /\ ManagerTypeOK /\ queue \in Seq(Ids) /\ queue # <<>> /\ i = Head(queue)
      /\ queue' = Tail(queue) /\ Update(i, FailedIfActive(SweptJobs[i]))
      /\ UNCHANGED <<running, aborted, calling, pumping, issued>>
  BY DEF PumpSkips, MayPump, Update, IngestionInv, PoolInv, DispatcherTypeOK
<1>1. Range(queue) = Range(queue') \cup {i}
  BY <1>0, TailFacts
<1>2. i \in NotBegun /\ NotBegun' \subseteq NotBegun
  BY <1>0, <1>1 DEF NotBegun
<1>3. /\ jobs'[i] = FailedIfActive(SweptJobs[i])
      /\ \A n \in Ids \ {i} : FadesTo(jobs[n], jobs'[n])
  BY <1>0, UpdateFades
<1>. QED
  BY <1>0, <1>2, <1>3, FailedIfActiveFades, AdmissionKeeps

LEMMA CancellingKeeps ==
  ASSUME IngestionInv, NEW abortRunning \in BOOLEAN, CloseCancelling(abortRunning),
         UNCHANGED workerVars
  PROVE  WorkersInv'
<1>0. /\ ManagerTypeOK /\ ~pumping /\ queue' = <<>>
      /\ aborted' \in {running, aborted}
      /\ UNCHANGED <<running, calling, pumping, issued>>
  BY DEF CloseCancelling, managerVars, IngestionInv, PoolInv, DispatcherTypeOK
<1>1. WorkerTypeOK' /\ LoopInv'
  <2>1. calling = NoId /\ NoId \notin running
    BY <1>0, JobManagerAssumption DEF IngestionInv, LoopInv, WorkerTypeOK
  <2>. QED
    BY <1>0, <2>1 DEF IngestionInv, WorkerTypeOK, LoopInv, workerVars
<1>2. NotBegun' \subseteq NotBegun
  BY <1>0, EmptyQueue DEF NotBegun
<1>3. CASE UNCHANGED managerVars
  <2>1. \A n \in Ids : FadesTo(jobs[n], jobs'[n])
    BY <1>3 DEF managerVars, FadesTo
  <2>. QED
    BY <1>0, <1>1, <1>2, <2>1, TasksLeftAlone DEF WorkersInv
<1>4. CASE jobs' = [n \in Ids |-> IF n \in Pending THEN FailedIfActive(SweptJobs[n])
                                  ELSE SweptJobs[n]]
  <2>1. ASSUME NEW n \in Ids, n \in Pending PROVE JobOK(n)'
    <3>1. n \in NotBegun /\ jobs'[n] = FailedIfActive(SweptJobs[n])
      BY <1>4, <2>1 DEF Pending, NotBegun
    <3>. QED
      BY <1>0, <3>1, FailedIfActiveFades, NotBegunKeeps
  <2>2. ASSUME NEW n \in Ids, n \notin Pending PROVE JobOK(n)'
    <3>1. FadesTo(jobs[n], jobs'[n])
      BY <1>0, <1>4, <2>2, SweptFades
    <3>. QED
      BY <1>0, <1>2, <3>1, LeftAlone DEF IngestionInv, workerVars
  <2>. QED
    BY <1>1, <2>1, <2>2 DEF WorkersInv
<1>. QED
  BY <1>3, <1>4 DEF CloseCancelling

LEMMA QuietKeeps ==
  ASSUME IngestionInv, UNCHANGED workerVars,
         UNCHANGED <<queue, running, aborted, calling>>, issued \subseteq issued',
         calling # NoId => pumping',
         \A n \in Ids : FadesTo(jobs[n], jobs'[n])
  PROVE  WorkersInv'
<1>1. NotBegun' \subseteq NotBegun
  BY DEF NotBegun
<1>2. LoopInv'
  BY DEF IngestionInv, LoopInv
<1>. QED
  BY <1>1, <1>2, TasksLeftAlone DEF WorkersInv

LEMMA EnvironmentKeeps ==
  ASSUME IngestionInv, EnvironmentStep
  PROVE  WorkersInv'
<1>0. UNCHANGED workerVars /\ ManagerTypeOK
  BY DEF EnvironmentStep, IngestionInv, PoolInv, DispatcherTypeOK
<1>1. ASSUME SweepOnly, UNCHANGED dispatcherVars PROVE WorkersInv'
  BY <1>0, <1>1, SweepFades, QuietKeeps DEF SweepOnly, dispatcherVars, IngestionInv, LoopInv
<1>2. CASE RouteStep
  BY <1>0, <1>1, <1>2, SubmitsKeep
  DEF RouteStep, SubmitNotStored, Poll, CreateReplayed, CreateConflicts, CreateRefused
<1>3. CASE BeginPump
  BY <1>0, <1>3, QuietKeeps DEF BeginPump, managerVars, FadesTo
<1>4. CASE EndPump
  BY <1>0, <1>4, QuietKeeps DEF EndPump, managerVars, FadesTo
<1>5. ASSUME NEW i \in Ids, PumpSkips(i) PROVE WorkersInv'
  BY <1>0, <1>5, PumpSkipKeeps
<1>6. CASE CloseDraining
  BY <1>0, <1>6, QuietKeeps DEF CloseDraining, managerVars, FadesTo, IngestionInv, LoopInv
<1>7. CASE FinishClose
  BY <1>0, <1>7, QuietKeeps DEF FinishClose, managerVars, FadesTo, IngestionInv, LoopInv
<1>8. CASE CloseJobManager
  BY <1>0, <1>8, QuietKeeps
  DEF CloseJobManager, CloseManager, dispatcherVars, FadesTo, IngestionInv, LoopInv
<1>9. CASE CloseStep
  BY <1>0, <1>6, <1>7, <1>8, <1>9, CancellingKeeps DEF CloseStep
<1>10. CASE TimePasses
  <2>1. \A n \in Ids : FadesTo(jobs[n], jobs'[n])
    BY <1>0, <1>10, OlderFades DEF TimePasses, Tick, ManagerTypeOK
  <2>. QED
    BY <1>0, <1>10, <2>1, QuietKeeps
    DEF TimePasses, Tick, dispatcherVars, IngestionInv, LoopInv
<1>. QED
  BY <1>2, <1>3, <1>4, <1>5, <1>9, <1>10 DEF EnvironmentStep

-----------------------------------------------------------------------------
LEMMA IngestionInvInit == IngestionInit => IngestionInv
<1>. SUFFICES ASSUME IngestionInit PROVE IngestionInv
  OBVIOUS
<1>0. /\ DispatcherInit /\ running = {} /\ aborted = {} /\ calling = NoId
      /\ \A i \in Ids : /\ pc[i] = "none" /\ task[i] = NoRequest
                        /\ issues[i] = {} /\ batch[i] = Untried
                        /\ jobs[i] = NoJob
  BY DEF IngestionInit, DispatcherInit, ManagerInit
<1>1. PoolInv
  BY <1>0, PoolInit
<1>2. WorkerTypeOK
  BY <1>0 DEF IngestionInit, WorkerTypeOK, NpmIssues
<1>3. LoopInv
  BY <1>0 DEF LoopInv
<1>4. ASSUME NEW i \in Ids PROVE JobOK(i)
  <2>1. PlaceInv(i)
    BY <1>0 DEF PlaceInv, AfterWriting, LockfileIssues
  <2>2. Unreported(jobs[i]) /\ ~Active(jobs[i])
    BY <1>0, NoJobIsAbsent DEF Unreported, Active
  <2>3. TaskInv(i)
    BY <1>0, <2>2 DEF TaskInv, BeforeWriting, AfterWriting, Working, Awaits, Reporting
  <2>. QED
    BY <2>1, <2>2, <2>3, UnreportedIsTrue DEF JobOK
<1>. QED
  BY <1>1, <1>2, <1>3, <1>4 DEF IngestionInv

LEMMA IngestionInvStep ==
  ASSUME IngestionInv, [IngestionNext]_ingestionVars
  PROVE  IngestionInv'
<1>1. PoolInv'
  BY IngestionStepMaps, PoolStep DEF IngestionInv
<1>2. ASSUME NEW i \in Ids, WorkerStep(i) PROVE WorkersInv'
  BY <1>2, CallKeeps, LockfileRejectionKeeps, RejectedCallKeeps, NpmCollectedKeeps,
     NpmNotCollectedKeeps, PersistedKeeps, NotPersistedKeeps, SnapshotsKeep, ScanKeeps,
     LeaveKeeps
  DEF WorkerStep
<1>3. CASE UNCHANGED ingestionVars
  <2>1. UNCHANGED workerVars /\ UNCHANGED managerVars /\ UNCHANGED dispatcherVars
    BY <1>3 DEF ingestionVars, systemVars
  <2>2. \A n \in Ids : FadesTo(jobs[n], jobs'[n])
    BY <2>1 DEF managerVars, FadesTo
  <2>. QED
    BY <1>1, <2>1, <2>2, QuietKeeps
    DEF managerVars, dispatcherVars, IngestionInv, LoopInv, WorkersInv
<1>. QED
  BY <1>1, <1>2, <1>3, BeginKeeps, EnvironmentKeeps
  DEF IngestionNext, IngestionInv, WorkersInv

(* The whole invariant, of the pool and of the workers in it.              *)
THEOREM IngestionInvariant == IngestionSpec => []IngestionInv
BY IngestionInvInit, IngestionInvStep, PTL DEF IngestionSpec

(* Whatever timeouts, aborts and refusals come in between, a finished job  *)
(* claims no more than the graph holds: completed only on a batch that is  *)
(* there and verified, PERSISTENCE_PARTIAL only over something stored, a   *)
(* collection failure only over nothing; and shutdown relabels a verified  *)
(* graph only for the lockfile worker, before one of its later stages.     *)
THEOREM VerdictIsTrueHolds == IngestionSpec => []VerdictIsTrue
BY IngestionInvariant, InvImpliesVerdict, PTL

(* The two workers refine the dispatcher's arbitrary task.                 *)
THEOREM WorkersKeepContract == IngestionSpec => KeepsWorkerContract
<1>1. IngestionInit => DispatcherInit
  BY DEF IngestionInit
<1>. QED
  BY <1>1, IngestionInvariant, IngestionStepMaps, PTL DEF IngestionSpec, KeepsWorkerContract

(* So what the dispatcher promises of any task holds with the real workers *)
(* in it: no job is left active without a task, nothing is left when the   *)
(* pool reports closed, and the limits are kept.                           *)
THEOREM PoolPromisesHold ==
  IngestionSpec => []NothingIsLeftBehind /\ []ConcurrencyRespected /\ []NoLostWakeup
<1>1. PoolInv => NothingIsLeftBehind /\ NoLostWakeup
  BY DEF PoolInv, NothingIsLeftBehind
<1>2. IngestionInv => PoolInv
  BY DEF IngestionInv
<1>. QED
  BY <1>1, <1>2, IngestionInvariant, PoolInvBoundsTable, PTL

-----------------------------------------------------------------------------
(* After shutdown                                                          *)

(* A task that shutdown aborted waits at an await: from there it only      *)
(* rejects, is refused, or has its verified graph recorded.                *)
LEMMA AbortedStep ==
  ASSUME IngestionInv, [IngestionNext]_ingestionVars, NEW n \in aborted, pc'[n] # pc[n]
  PROVE  pc'[n] \in {"none", "returning", "throwing"}
<1>0. /\ n \in Ids /\ n \in running /\ pc[n] # "none" /\ pc[n] # "called"
      /\ pc \in [Ids -> Awaits \cup {"none"}]
  BY DEF IngestionInv, WorkerTypeOK, LoopInv, JobOK, PlaceInv
<1>1. \A i, where : Goto(i, where) => i = n /\ pc'[n] = where
  BY <1>0 DEF Goto
<1>2. ASSUME NEW i \in Ids, Begin(i) PROVE FALSE
  <2>1. queue \in Seq(Ids) /\ queue # <<>> /\ i = Head(queue)
    BY <1>2 DEF Begin, PumpStarts, MayPump, IngestionInv, PoolInv, DispatcherTypeOK
  <2>2. i \in NotBegun
    BY <2>1, TailFacts DEF NotBegun
  <2>. QED
    BY <1>0, <1>1, <1>2, <2>2, ExecutingHasBegun DEF Begin
<1>3. ASSUME NEW i \in Ids, WorkerStep(i)
      PROVE  pc'[n] \in {"none", "returning", "throwing"}
  <2>1. CASE NpmCalled(i) \/ LockfileCollected(i) \/ LockfileRejected(i)
    BY <1>0, <1>1, <2>1 DEF NpmCalled, LockfileCollected, LockfileRejected, Records
  <2>2. CASE RejectedCallReturns(i)
    BY <2>2 DEF RejectedCallReturns, workerVars
  <2>3. CASE NpmCollected(i)
    BY <1>1, <2>3 DEF NpmCollected
  <2>4. CASE NpmNotCollected(i) \/ NotPersisted(i)
    BY <1>1, <2>4 DEF NpmNotCollected, NotPersisted, Catch, Records
  <2>5. ASSUME ScanOrRecord(i) PROVE pc'[n] \in {"none", "returning", "throwing"}
    BY <1>1, <2>5 DEF ScanOrRecord, Result, Records
  <2>6. CASE Persisted(i)
    BY <1>1, <2>5, <2>6 DEF Persisted, AfterLockfilePersisted, Result, Records
  <2>7. CASE SnapshotsClosed(i) \/ SnapshotsNotClosed(i) \/ Scanned(i) \/ ScanFailed(i)
    BY <1>1, <2>5, <2>7
    DEF SnapshotsClosed, SnapshotsNotClosed, Scanned, ScanFailed, Result, Records
  <2>8. CASE Returns(i) \/ Throws(i)
    BY <1>1, <2>8 DEF Returns, Throws, Gone
  <2>. QED
    BY <1>3, <2>1, <2>2, <2>3, <2>4, <2>6, <2>7, <2>8 DEF WorkerStep
<1>4. CASE EnvironmentStep \/ UNCHANGED ingestionVars
  BY <1>4 DEF EnvironmentStep, ingestionVars, workerVars
<1>. QED
  BY <1>2, <1>3, <1>4 DEF IngestionNext

(* An aborted task never begins to write, to close snapshots or to scan.   *)
THEOREM AbortedTasksStartNothingHolds == IngestionSpec => AbortedTasksStartNothing
<1>1. IngestionInv /\ [IngestionNext]_ingestionVars =>
        [\A i \in aborted :
           pc'[i] # pc[i] => pc'[i] \in {"none", "returning", "throwing"}]_ingestionVars
  BY AbortedStep
<1>. QED
  BY <1>1, IngestionInvariant, PTL DEF IngestionSpec, AbortedTasksStartNothing

=============================================================================
