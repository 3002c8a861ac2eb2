--------------------------- MODULE WorkerDispatcher ---------------------------
(***************************************************************************)
(* The process-local worker pool (api/jobs/worker-dispatcher.ts) together  *)
(* with the job manager it drives and the two callers that feed and stop   *)
(* it: createAndDispatch (api/routes/ingestions.ts) and the onClose hook   *)
(* of the server (api/server.ts).                                          *)
(*                                                                         *)
(* A task is whatever function the route enqueued; here it may report any  *)
(* result to the job manager, at any time and more than once, and then     *)
(* resolve or throw.  IngestionWorkers refines it to the two real workers. *)
(*                                                                         *)
(* JavaScript runs one synchronous block at a time.  Each action is such a *)
(* block, except pump(), whose loop takes one step per iteration and one   *)
(* for what a task does before it first awaits: while `pumping` holds the  *)
(* thread is inside that loop and nothing else runs.                       *)
(***************************************************************************)
EXTENDS JobManager, Sequences, Functions

CONSTANT MaxConcurrent   \* maxConcurrentJobs

(* The constructor takes maxConcurrentJobs from 1..maxRunningJobs.         *)
ASSUME DispatcherAssumption == MaxConcurrent \in 1..MaxRunning

VARIABLES
  queue,            \* pending tasks, first come first
  running,          \* tasks whose function has been called and not settled
  active,           \* activeJobIds
  aborted,          \* running tasks whose AbortSignal has fired
  dispatcherState,  \* accepting, draining, cancelling or closed
  pumpScheduled,    \* a pump microtask is pending
  pumping,          \* the thread is inside pump()
  calling,          \* the task whose first synchronous block pump() is in
  idleWaiter,       \* close() waiting for idle: none, waiting or resolved
  tally             \* acceptedTasks, settledTasks, failedTasks, cancelledTasks

dispatcherVars ==
  <<queue, running, active, aborted, dispatcherState, pumpScheduled, pumping,
    calling, idleWaiter, tally>>

systemVars == <<managerVars, dispatcherVars>>

Pending == Range(queue)
Idle(q, r) == q = <<>> /\ r = {}

(* Faults, used only to see that a property notices them: a dispatcher     *)
(* that no longer pumps while draining, failures that skip queued or       *)
(* running jobs, and admission that ignores the state.                     *)
SchedulePumpAccepting ==
  pumpScheduled' = (pumpScheduled \/ dispatcherState = "accepting")

(* schedulePump() does nothing once the dispatcher is closed.              *)
SchedulePump ==
  pumpScheduled' = (pumpScheduled \/ dispatcherState # "closed")

(* `q` and `r` are the queue and the running tasks the step leaves.        *)
ResolveIdleWaiters(q, r) ==
  idleWaiter' = IF idleWaiter = "waiting" /\ Idle(q, r)
                THEN "resolved" ELSE idleWaiter

FailedIfRunning(j) ==
  IF j.status = "running" THEN FailedJob(j, "INTERNAL_JOB_ERROR") ELSE j
FailedIfQueued(j) ==
  IF j.status = "queued" THEN FailedJob(j, "INTERNAL_JOB_ERROR") ELSE j

(* failJobIfActive: a job that is already terminal or gone is left alone.  *)
FailedIfActive(j) ==
  IF Active(j) THEN FailedJob(j, "INTERNAL_JOB_ERROR") ELSE j

Count(field) == tally' = [tally EXCEPT ![field] = @ + 1]

-----------------------------------------------------------------------------
(* createAndDispatch: create the job, then enqueue it in the same          *)
(* synchronous block.                                                      *)

CanAcceptAlways == Cardinality(active) < MaxJobs

(* assertCanAccept; maxActiveJobs is the capacity of the job manager.      *)
CanAccept ==
  /\ dispatcherState = "accepting"
  /\ Cardinality(active) < MaxJobs

Enqueue(i) ==
  /\ CanAccept
  /\ i \notin active
  /\ queue' = Append(queue, i)
  /\ active' = active \cup {i}
  /\ Count("accepted")
  /\ SchedulePump
  /\ UNCHANGED <<running, aborted, dispatcherState, pumping, calling,
                 idleWaiter>>

Submit(i, r, k) == ~pumping /\ CreateJob(i, r, k) /\ Enqueue(i)

(* enqueue() throws after the job was stored: failUndispatchedJob closes   *)
(* the record, which stays in the table like any failed job.               *)
SubmitUndispatched(i, r, k) ==
  /\ ~pumping
  /\ ~CanAccept
  /\ Store(i, k, FailedJob(QueuedJob(r, k), "INTERNAL_JOB_ERROR"))
  /\ UNCHANGED dispatcherVars

SubmitNotStored(r, k) ==
  /\ ~pumping
  /\ CreateReplayed(r, k) \/ CreateConflicts(r, k) \/ CreateRefused(k)
  /\ UNCHANGED dispatcherVars

(* Polling a job, health statistics and the sweep timer.                   *)
Poll == ~pumping /\ SweepOnly /\ UNCHANGED dispatcherVars

-----------------------------------------------------------------------------
(* pump()                                                                  *)

MayPump ==
  /\ dispatcherState \in {"accepting", "draining"}
  /\ Cardinality(running) < MaxConcurrent
  /\ queue # <<>>

BeginPump ==
  /\ ~pumping
  /\ pumpScheduled
  /\ pumpScheduled' = FALSE
  /\ pumping' = TRUE
  /\ UNCHANGED <<managerVars, queue, running, active, aborted,
                 dispatcherState, calling, idleWaiter, tally>>

(* The synchronous head of executeTask: the job becomes running and its    *)
(* task is called.                                                         *)
PumpStarts(i) ==
  /\ pumping /\ calling = NoId /\ MayPump
  /\ i = Head(queue)
  /\ StartJob(i)
  /\ queue' = Tail(queue)
  /\ running' = running \cup {i}
  /\ calling' = i
  /\ UNCHANGED <<active, aborted, dispatcherState, pumpScheduled, pumping,
                 idleWaiter, tally>>

(* The task reaches its first await, or returns, and the loop goes on.     *)
CallReturns(i) ==
  /\ calling = i
  /\ i \in Ids
  /\ calling' = NoId
  /\ UNCHANGED <<managerVars, queue, running, active, aborted,
                 dispatcherState, pumpScheduled, pumping, idleWaiter, tally>>

(* updateJob throws because the job timed out, was forgotten, or exceeds   *)
(* the concurrency limit: the catch and finally blocks run at once.        *)
PumpSkips(i) ==
  /\ pumping /\ calling = NoId /\ MayPump
  /\ i = Head(queue)
  /\ ~MayStart(i)
  /\ Update(i, FailedIfActive(SweptJobs[i]))
  /\ queue' = Tail(queue)
  /\ active' = active \ {i}
  /\ Count("failed")
  /\ SchedulePump
  /\ ResolveIdleWaiters(Tail(queue), running)
  /\ UNCHANGED <<running, aborted, dispatcherState, pumping, calling>>

EndPump ==
  /\ pumping /\ calling = NoId /\ ~MayPump
  /\ pumping' = FALSE
  /\ ResolveIdleWaiters(queue, running)
  /\ UNCHANGED <<managerVars, queue, running, active, aborted,
                 dispatcherState, pumpScheduled, calling, tally>>

-----------------------------------------------------------------------------
(* executeTask once the task function has been called                      *)

(* The task calls updateJob itself; a call the manager refuses throws into *)
(* the task and changes nothing but the sweep.                             *)
TaskReports(i) ==
  /\ ~pumping \/ calling = i
  /\ i \in running
  /\ \/ CompleteJob(i)
     \/ \E cs \in CodeLists : PartiallyCompleteJob(i, cs)
     \/ \E c \in ReportedCodes : FailJob(i, c)
     \/ UpdateRefused(i)
  /\ UNCHANGED dispatcherVars

(* The finally block.                                                      *)
Release(i) ==
  /\ running' = running \ {i}
  /\ active' = active \ {i}
  /\ aborted' = aborted \ {i}
  /\ SchedulePump
  /\ ResolveIdleWaiters(queue, running \ {i})
  /\ UNCHANGED <<queue, dispatcherState, pumping, calling>>

(* The task resolves and has left a terminal job behind.                   *)
TaskSettles(i) ==
  /\ ~pumping
  /\ i \in running
  /\ Terminal(SweptJobs[i])
  /\ SweepOnly
  /\ Count("settled")
  /\ Release(i)

(* The task throws, or resolves while its job is still active or already   *)
(* forgotten: a violation of the worker contract.                          *)
TaskFails(i) ==
  /\ ~pumping
  /\ i \in running
  /\ Update(i, FailedIfActive(SweptJobs[i]))
  /\ Count("failed")
  /\ Release(i)

-----------------------------------------------------------------------------
(* close()                                                                 *)

AwaitIdle(q, r) ==
  idleWaiter' = IF Idle(q, r) THEN "resolved" ELSE "waiting"

CloseDraining ==
  /\ ~pumping
  /\ dispatcherState = "accepting"
  /\ dispatcherState' = "draining"
  /\ SchedulePump
  /\ AwaitIdle(queue, running)
  /\ UNCHANGED <<managerVars, queue, running, active, aborted, pumping, calling,
                 tally>>

(* cancelPending fails what waits; running tasks may be asked to abort.    *)
CloseCancelling(abortRunning) ==
  /\ ~pumping
  /\ dispatcherState = "accepting"
  /\ dispatcherState' = "cancelling"
  /\ \/ queue = <<>> /\ UNCHANGED managerVars
     \/ /\ queue # <<>>
        /\ jobs' = [i \in Ids |-> IF i \in Pending
                                  THEN FailedIfActive(SweptJobs[i])
                                  ELSE SweptJobs[i]]
        /\ index' = SweptIndex
        /\ UNCHANGED <<issued, closed>>
  /\ queue' = <<>>
  /\ active' = active \ Pending
  /\ tally' = [tally EXCEPT !.cancelled = @ + Len(queue)]
  /\ aborted' = IF abortRunning THEN running ELSE aborted
  /\ AwaitIdle(<<>>, running)
  /\ UNCHANGED <<running, pumpScheduled, pumping, calling>>

FinishClose ==
  /\ ~pumping
  /\ idleWaiter = "resolved"
  /\ dispatcherState' = "closed"
  /\ idleWaiter' = "none"
  /\ UNCHANGED <<managerVars, queue, running, active, aborted, pumpScheduled,
                 pumping, calling, tally>>

(* The onClose hook awaits dispatcher.close() before jobManager.close().   *)
CloseJobManager ==
  /\ ~pumping
  /\ dispatcherState = "closed"
  /\ ~closed
  /\ CloseManager
  /\ UNCHANGED dispatcherVars

TimePasses == ~pumping /\ Tick /\ UNCHANGED dispatcherVars

-----------------------------------------------------------------------------
DispatcherInit ==
  /\ ManagerInit
  /\ queue = <<>>
  /\ running = {} /\ active = {} /\ aborted = {}
  /\ dispatcherState = "accepting"
  /\ pumpScheduled = FALSE /\ pumping = FALSE /\ calling = NoId
  /\ idleWaiter = "none"
  /\ tally = [accepted |-> 0, settled |-> 0, failed |-> 0, cancelled |-> 0]

RouteStep ==
  \/ \E r \in Requests, k \in Keys \cup {NoKey} :
       \/ \E i \in Ids : Submit(i, r, k) \/ SubmitUndispatched(i, r, k)
       \/ SubmitNotStored(r, k)
  \/ Poll

PumpStep ==
  \/ BeginPump
  \/ EndPump
  \/ \E i \in Ids : PumpStarts(i) \/ CallReturns(i) \/ PumpSkips(i)

TaskStep == \E i \in Ids : TaskReports(i) \/ TaskSettles(i) \/ TaskFails(i)

CloseStep ==
  \/ CloseDraining
  \/ \E abortRunning \in BOOLEAN : CloseCancelling(abortRunning)
  \/ FinishClose
  \/ CloseJobManager

DispatcherNext == RouteStep \/ PumpStep \/ TaskStep \/ CloseStep \/ TimePasses

(* Microtasks run; a task function settles sooner or later, because every  *)
(* request and statement it awaits has a timeout and a bounded number of   *)
(* retries.  Clients, the operator and the clock owe nothing.              *)
DispatcherFairness ==
  /\ WF_systemVars(PumpStep)
  /\ WF_systemVars(FinishClose)
  /\ \A i \in Ids : WF_systemVars(TaskSettles(i) \/ TaskFails(i))

DispatcherSpec ==
  DispatcherInit /\ [][DispatcherNext]_systemVars /\ DispatcherFairness

-----------------------------------------------------------------------------
(* Types of the pool's own variables; the job table keeps its own types.   *)
DispatcherTypeOK ==
  /\ ManagerTypeOK
  /\ queue \in Seq(Ids)
  /\ running \in SUBSET Ids /\ active \in SUBSET Ids /\ aborted \in SUBSET Ids
  /\ dispatcherState \in {"accepting", "draining", "cancelling", "closed"}
  /\ pumpScheduled \in BOOLEAN /\ pumping \in BOOLEAN
  /\ calling \in Ids \cup {NoId}
  /\ idleWaiter \in {"none", "waiting", "resolved"}
  /\ tally \in [{"accepted", "settled", "failed", "cancelled"} -> Nat]

(* Every job the manager shows as queued or running has its task waiting   *)
(* or executing in the dispatcher, so no job can stay active with nobody   *)
(* left to finish it, whichever of timeout, failure, cancellation or       *)
(* refused dispatch happened on the way.                                   *)
EveryActiveJobOwned ==
  \A i \in Ids :
    /\ jobs[i].status = "queued" => i \in Pending
    /\ jobs[i].status = "running" => i \in running

(* activeJobIds, on which admission depends, is exactly the waiting and    *)
(* the executing tasks, each once: a leak would eat capacity for ever.     *)
ActiveIsPendingOrRunning ==
  /\ active = Pending \cup running
  /\ Pending \cap running = {}
  /\ \A m, n \in 1..Len(queue) : queue[m] = queue[n] => m = n

(* The pool never starts more than maxConcurrentJobs, and therefore never  *)
(* meets JOB_CONCURRENCY_LIMIT: a queued job at the head of the queue may  *)
(* start whenever the pump reaches it.                                     *)
ConcurrencyRespected ==
  /\ Cardinality(running) <= MaxConcurrent
  /\ pumping /\ calling = NoId /\ MayPump /\ SweptJobs[Head(queue)].status = "queued"
       => MayStart(Head(queue))

(* No lost wake-up: while work waits and a slot is free, a pump is running *)
(* or scheduled, and close() never waits for an idle pool it was not told  *)
(* about.                                                                  *)
NoLostWakeup ==
  /\ MayPump => pumpScheduled \/ pumping
  /\ idleWaiter = "waiting" => ~Idle(queue, running)

(* The counters account for every accepted task.                           *)
TallyBalances ==
  tally.accepted = Len(queue) + Cardinality(running)
                   + tally.settled + tally.failed + tally.cancelled

(* The dispatcher reports closed, and the job manager and driver go away,  *)
(* only when no task is left that could still use them.                    *)
ClosedMeansQuiet ==
  /\ dispatcherState = "closed" => Idle(queue, running)
  /\ closed => dispatcherState = "closed"

(* Once cancelling or closed, nothing starts any more, and the dispatcher  *)
(* never goes back to accepting.                                           *)
ShutdownIsOneWay ==
  [][/\ dispatcherState \in {"cancelling", "closed"} => running' \subseteq running
     /\ dispatcherState # "accepting" => dispatcherState' # "accepting"
     /\ dispatcherState = "closed" => dispatcherState' = "closed"]_systemVars

(* Every accepted task leaves the pool and its job is settled.             *)
EveryTaskLeaves ==
  \A i \in Ids : i \in active ~> i \notin active /\ ~Active(jobs[i])

(* close() completes, in either mode.                                      *)
CloseCompletes ==
  dispatcherState \in {"draining", "cancelling"} ~> dispatcherState = "closed"

(* The dispatcher implements the abstract pool.                            *)
Pool == INSTANCE TaskPool
  WITH Tasks <- Ids, Slots <- MaxConcurrent,
       waiting <- Pending, executing <- running, done <- issued \ active,
       open <- dispatcherState = "accepting"

ImplementsTaskPool == Pool!Spec

(* No job is left active without its task, and no task is left when the    *)
(* pool reports closed: neither side of the pair outlives the other.       *)
NothingIsLeftBehind == EveryActiveJobOwned /\ ClosedMeansQuiet

(* Every accepted task leaves the pool, and close() comes to its end.      *)
PoolDrains == EveryTaskLeaves /\ CloseCompletes

=============================================================================
