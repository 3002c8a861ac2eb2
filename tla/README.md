# HydraGuard API: a TLA+ verification project

HydraGuard keeps a supply-chain graph (packages, releases, services, lockfile
snapshots, incidents, typosquatting findings) in HydraDB and answers questions
about it.  The part with behaviour worth verifying is the API process in
`apps/api/src`: jobs that ingest npm metadata and lockfiles in the background,
a persistence layer over a database without multi-statement transactions, and
services that change shared records in several statements.  This project models
that process, checks it with TLC on small instances and proves the properties
that matter most with TLAPS.

## 1. Inventory

| component | source (`apps/api/src/`) | state | operations | talks to |
|---|---|---|---|---|
| job manager | `api/jobs/job-manager.ts` | job table, idempotency index | createJob, updateJob, getJob, getExecutionContext, getStats, sweep (also by timer), close | called by routes, dispatcher, workers |
| worker dispatcher | `api/jobs/worker-dispatcher.ts` | queue, running tasks, activeJobIds, state, pump flag, idle waiters, counters | enqueue, pump, executeTask, cancelPending, waitForIdle, close | drives the job manager, calls worker tasks |
| ingestion routes, server | `api/routes/ingestions.ts`, `api/server.ts` | none | createAndDispatch, poll, onClose | job manager, dispatcher |
| ingestion workers | `api/jobs/workers.ts` | continuation of each task | collect, persist, close snapshots, scan, record | everything below |
| persistence service | `db/persistence-service.ts` | processWriterTail, replay loop | persist, persistThenAnalyze | writer |
| HydraDB writer | `db/hydra-writer.ts` | counters of one pass | preflight, chunked upserts, verification | HydraDB |
| lockfile parsing | `ingest/lockfile/package-lock-parser.ts`, `collector.ts` | none (pure) | parsePackageLock, collectPackageLock | called by the lockfile worker |
| snapshot history | `ingest/lockfile/snapshot-store.ts`, `collector.ts` | rows in HydraDB | closeSupersededSnapshots | HydraDB |
| typosquatting review | `typosquatting/service.ts` | finding records, lifecycle graph | scanLockfile, reviewFinding | HydraDB, persistence |
| typosquatting detector | `typosquatting/detector.ts`, `candidate-index.ts`, `distance.ts`, `scorer.ts`, ... | index of deletions, budgets of one scan | detectTyposquatting | called by scanLockfile |
| incident service | `incidents/incident-service.ts`, `incident-list-store.ts`, `api/routes/incidents.ts` | operationTail; incident, evidence and AFFECTS rows in HydraDB | createIncident, listIncidents, readIncident | HydraDB, persistence |
| npm ingestion | `ingest/npm/*` | waves, visited names, fragments, issues of one crawl | orchestrateNpmIngestion, collectPackage, fetchPackageMetadata | npm registry, graph batch |
| graph batch, domain | `ingest/graph-batch.ts`, `domain/*` | none (pure) | mergeGraphFragments, factories, validation | - |
| temporal analysis core | `analysis/core/*` | none (pure) | buildTemporalWindow, projectBlastRadius..., buildEvidenceFunnel, explainServiceImpacts, exposure ladder | called by the live analysis |
| blast radius, wave two | `analysis/core/blast-radius.ts`, `analysis/authority/*` | queue, visited keys, budgets of one search | analyzeBlastRadius, analyzeWave2Authority | a graph reader |
| readers, live analysis | `analysis/readers/*`, `analysis/live-analysis.ts` | caches of one request | runLiveBlastRadius | HydraDB, between the statements of the writer |
| investigations | `typosquatting/finding-reader.ts`, `packages/package-overview-store.ts` | none beyond a request | getFindingDetail, traceExposure, investigate | HydraDB, between the statements of the writer |
| containment simulator | `analysis/containment/*` | overlay over one batch | runContainmentSimulation | persistence (`persistThenAnalyze`), both searches |
| release influence firewall | `analysis/release-trust/*` | snapshot, entity and edge rows in HydraDB | persistSnapshot, readSnapshot, evaluateReleaseFirewall | HydraDB |
| serializers, HTTP schemas, configuration, dashboard | the rest | none | conversion and presentation | - |

What is hard about it:

* **Concurrency.**  Node.js runs one synchronous block at a time, but every
  `await` is a point where timeouts, other requests, shutdown and other workers
  come in.  The dispatcher's pump runs the first synchronous part of a task
  inside its own loop.
* **Timeouts.**  The job manager fails a job whose worker is still running and
  later forgets it; the worker is not told and its task stays in the dispatcher.
* **Idempotent retries.**  A key must resolve to its job exactly as long as the
  job is remembered.
* **Partial failure.**  HydraDB commits statement by statement; a statement may
  commit and its acknowledgement be lost; the process may stop between two.
* **Ordering.**  Batches and snapshots arrive out of order of their observation
  time.
* **Reads of many statements.**  An analysis of live data, the exposure of a
  finding, the overview of a package and the read of a release snapshot are
  several statements with writers in between, also writers that replace what a
  row says.
* **Budgets.**  Every search and scan is cut short by limits (depth, states,
  pages, warnings, candidates, comparisons); an answer must say so and may claim
  no more than was looked at.
* **Shutdown.**  Draining or cancelling, with or without aborting, at any moment.

`PROJECT.json` lists these as hazards at their lines, each with the properties
that would notice it going wrong.

## 2. Modules

| module | models | extends |
|---|---|---|
| `JobLifecycle` | abstract: the phases a job may go through | - |
| `JobManager` | `job-manager.ts` | - |
| `TaskPool` | abstract: a task is accepted once, executes at most once, never returns | - |
| `WorkerDispatcher` | `worker-dispatcher.ts`, `createAndDispatch`, `onClose` | `JobManager` |
| `IngestionWorkers` | `workers.ts` | `WorkerDispatcher` |
| `HydraWriter` | `hydra-writer.ts` | - |
| `PersistenceService` | `persistence-service.ts` | `HydraWriter` |
| `PackageLock` | `package-lock-parser.ts`, the DEPENDS_ON edges of `collector.ts` | - |
| `SnapshotHistory` | `snapshot-store.ts`, what `collector.ts` writes | `PackageLock` |
| `TyposquatReview` | `typosquatting/service.ts`, what `graph-fragment.ts` writes of a finding, the review routes | - |
| `TyposquatDetector` | `typosquatting/detector.ts` and what it calls | - |
| `TyposquatService` | the two of them | `TyposquatReview`, `TyposquatDetector` |
| `IncidentService` | `incident-service.ts`, `POST /incidents` | - |
| `IncidentIndex` | `incident-list-store.ts`, `GET /incidents` | `IncidentService` |
| `GraphMerge` | `graph-batch.ts`, the relational part of `domain/validator.ts` | - |
| `NpmCrawl` | `ingest/npm/orchestrator.ts`, the retries of `registry-client.ts` | `GraphMerge` |
| `Traversal` | what the two bounded searches share | - |
| `BlastRadius` | `core/blast-radius.ts` | `Traversal` |
| `AuthorityPropagation` | `authority/wave2-propagation.ts` | `Traversal` |
| `TemporalWindow` | `core/temporal-window.ts`, `temporal-projection.ts` | `Traversal` |
| `EvidenceFunnel` | `core/evidence-funnel.ts`, `service-impact-explanation.ts` | `Traversal` |
| `LiveAnalysis` | `live-analysis.ts`, `readers/hydra-graph-reader.ts`, the blast-radius route | `BlastRadius`, `TemporalWindow`, `EvidenceFunnel` |
| `Containment` | `containment/*`, `authority/persisted-wave2.ts` | `BlastRadius`, `AuthorityPropagation` |
| `ReleaseFirewall` | `release-influence-firewall.ts` | - |
| `ReleaseInfluenceStore` | `hydra-release-influence-store.ts`, `persisted-release-firewall.ts`, its routes | `ReleaseFirewall` |
| `StoredGraph` | the rows of HydraDB while a batch is written into them, as the investigations meet them | `BlastRadius`, `EvidenceFunnel` |
| `FindingDetail` | `getFindingDetail` of `typosquatting/service.ts`, `finding-reader.ts`, its route | `StoredGraph` |
| `PackageOverview` | `package-overview-store.ts`, `api/routes/packages.ts` | `StoredGraph` |
| `AnalysisRoutes` | the analyses and investigations of the API side by side | `LiveAnalysis`, `Containment`, `ReleaseInfluenceStore`, `FindingDetail`, `PackageOverview` |
| `IngestionWorkersProofs` | theorems about job table, dispatcher and workers | `IngestionWorkers`, `JobManager` |
| `PersistenceServiceProofs`, `SnapshotHistoryProofs` | theorems | the module of that name |
| `TyposquatServiceProofs` | theorems about the reviews and the detector | `TyposquatService` |
| `ReleaseFirewallProofs` | theorems about the release store and the firewall | `ReleaseInfluenceStore` |
| `AnalysisProofs` | theorems about the analyses and the investigations | `AnalysisRoutes`, `ReleaseFirewallProofs` |
| `NpmCrawlProofs` | theorems about the merge of fragments and the crawl | `NpmCrawl`, `GraphMerge` |
| `IncidentProofs` | theorems about the incident service and its paged list | `IncidentService`, `IncidentIndex` |
| `MC...` | values of constants for TLC | the module they check |

### JobManager

`jobs` is the table, `index` is `jobsByIdempotencyToken`, `issued` the
identifiers `randomUUID` has returned.  Each public method is an action; all of
them first apply `sweepAt` (`SweptJobs`, `SweptIndex`), also when they then
throw, and the throwing outcomes are actions too (`CreateConflicts`,
`CreateRefused`, `UpdateRefused`).  Time is the *age* of a job: the time since
the timestamp its next deadline is measured from.  `Tick` ages every job and
ages saturate at `MaxAge`, beyond which no deadline can tell them apart.  Left
out: response views, public messages, counters of `getStats`, `version`, node
and edge counts.  A synchronous block reads the clock once in the model; the
code may read it several times, a few microseconds apart.  The clock is assumed
not to run backwards.

### WorkerDispatcher

One action per synchronous block.  `pump()` is the exception, as its loop has a
step per iteration (`PumpStarts`, `PumpSkips`, `EndPump`) and one for the return
of a called task (`CallReturns`); while `pumping` holds nothing else runs, so
the block is still atomic for everybody else.  A task is any function: it may
report any result at any time while it runs (`TaskReports`), then resolve
(`TaskSettles`) or throw (`TaskFails`).  `failJobIfActive` and the `finally`
block of `executeTask` are part of these actions.

### IngestionWorkers

The same dispatcher with the real tasks: `pc[i]` is the await task `i` is
suspended at.  What is awaited settles in any of the ways it may: the npm
orchestrator returns a batch, with or without issues, or none; `persist()`
resolves or rejects; closing snapshots and scanning succeed or throw.
`batch[i].told` is what `persist()` reported, `batch[i].held` what HydraDB holds
of the batch on account of this job once every statement it sent is decided.
When `persist()` resolves the two agree (`ResolvedIsDurable` of
`PersistenceService`); when it rejects with `partialWrites`, something or all of
the batch is stored; when it rejects without, anything may be (`Rejections`): the
acknowledgement of a statement was lost (`persistence-result.ts:82-85`), or a
replay failed in its preflight over what an earlier pass left.  `VerdictIsTrue` is
therefore about `held`, and says of PERSISTENCE_FAILED only that no write was
known of: a client must not read it as "nothing is stored".
`collectPackageLock` is synchronous, so a lockfile task is in `persist()` or has
failed before `pump()` goes on.

### HydraWriter and PersistenceService

`store[r]` is the observation time of row `r` in HydraDB.  A batch is a plan of
chunks in the order nodes, canonical edges, derived edges; every statement
commits on its own, and one that throws may have committed (`AckMayBeLost`).
Only what the guarded upsert compares, `observed_at`, is kept of a row's
content.  `left[c]` is a history variable: whether call `c` ever committed a row.
The service's chain is `pred` and `tail`; a call writes once its predecessor has
settled, and keeps its turn during the delays between replays.  `Stop` ends the
process: promises are gone, HydraDB stays, and a statement already sent may
still commit.  A caller that starts again after a stop is a new call.  Query
text, serialization, idempotency metadata and the identity checks of preflight
are abstracted to "passes or fails".

### PackageLock and SnapshotHistory

`PackageLock` is a set of operators over one parsed lockfile: a path is the
sequence of its segments, `Real` follows the links of a workspace (as a recursive
function that makes as many steps as there are entries, so that more of them
means a cycle), and `DependsOn` are the edges the collector draws, each package's
dependencies looked up from its own directory upwards, and then once more from
the place of the link it was reached by.  What Node.js would load is stated
separately (`Loads`), by its rule alone: a package is loaded by its real path, and
what it requires is the nearest directory of that name around that path.  Node.js
knows no second look.  `DependsOnWhatLoads` therefore asks that what Node.js loads
is what the graph says, that nothing it loads is missing, and that an edge of the
fallback is there only where Node.js would find nothing (`Unfound`).
`SnapshotHistory` ingests such lockfiles.

`snapshots[s]` is the row of a service's lockfile with one content,
`resolutions[e]` a `DEPENDS_ON` row.  A snapshot's identity is its service and
content hash, a resolution's is its endpoints and lockfile paths, so that
snapshots, also of different services, share the rows of what they resolve in
common; `owner` (`snapshot_id`) says whose it is at present.  `intact` says that
the stored hash is the hash of the stored row: `CLOSE_SNAPSHOT_QUERY` and
`CLOSE_RESOLUTION_QUERY` write a hash computed from the row as it was *read*.
Times are numbers, 0 is "not there" in `observed` and "open ended" in `until`.

Persisting is reduced to what matters here, two guarded upserts that exclude
each other (`PersistenceService` has the detail, and says why this is so);
closing is one action per awaited statement, each of which may fail before or
after it committed, next to whatever other ingestions do.  The two `LIMIT`s pick
any rows of that number, as ids are hashes.  `DistinctTimes` is an assumption on
the deployments: two *different* lockfiles of one service with the same
`observedAt` close each other.  The worker looks neither at `truncated` nor at
the counts, so snapshots beyond the limit stay open until a later ingestion, and
resolutions left open after a failure between a snapshot and its resolutions
are never looked at again: their snapshot is no longer found.  A row that was
closed is written again only by a newer observation (`ClosedIsHistory`): of the same
lockfile for a snapshot, of any lockfile that has it for a resolution, which then
is that lockfile's (`owner`); the interval it had is kept nowhere.

### TyposquatReview

One finding: `finding` is its row, `review[k]` the analyst-review evidence row
whose identity is derived from idempotency key `k`, `incident` the incident row,
`links` the edges that reviews draw.  A call goes through the awaits of
`reviewFindingExclusive` (`pc`), carrying what its closure holds (`held`):

| await | action | source |
|---|---|---|
| `requireFinding` | `Read` | refused if absent or older than the detection |
| `readNode` | `Identify`, `Continuation` | replay or key conflict; which way to go on |
| `persistReviewEvidence` | `Record` | |
| `compareAndSetFinding` | `Decide`, `DecisionLost`, then `Reread` | |
| `getConfirmationReview` | `Confirm` | a repair takes its data from the original promotion |
| `persistLifecycleGraph` | `Link` (nodes), `Connect` (edges) | |

`Fails` rejects a call at any await, with or without the effect of the statement
it was waiting for; failing `assertPromotable` is one of these ways.  `lane` is
`operationTail`.  `Stop` ends the process; a compare-and-set that was sent may
still land (`Lands`).  The three undecided statuses of a finding are one,
"open".  `Scan` is a verified scan of *the same lockfile content*: the identity
of a finding comes from that content, so it is the same row.  The guard of the
compare-and-set is taken to work as in the writer: an equal `observed_at` does
not update.

### TyposquatDetector and TyposquatService

A name is a scope, taken to be of one letter, and a sequence of characters.  `Reasons` is the index lookup
(equal compact names, equal base names, equal confusable skeletons, a common
variant with up to two letters deleted, equal scopes), `Ranked` the order in
which candidates are looked at, `Cost` the matrix of `distance.ts`, `Gate` the
lexical gate, `Categories` and `Classification` the scorer without its numbers.
`ScanPackage` is one turn of the loop of `detectTyposquatting`: a package takes
candidates within its own budget and comparisons within what the packages before
it have left.  `Assign` is the recursion of `independentCategoryCount`, as a
function of the number of calls that may still be made.  The reference says in
terms of edits what a look-alike is, without a matrix, an index or a gate: one
edit, or one in each of two parts of the word.  Two letters swapped with a third
put between them are two edits to a reader, but three changes to the matrix
(`distance.ts:85` swaps only neighbours of both words), and are not promised to be
found.  The compiled corpus is a constant, as are the packages of a scan;
`DetectorAssumption` says what they are made of (a package has finitely much
evidence) and that the distance is no stricter than the default (25 percent).
`TyposquatService` puts the detector and the reviews side by side: a scan is
computed over data of its own, and all that reviews see of it is the row that
`Scan` of `TyposquatReview` writes.

### IncidentService and IncidentIndex

`evidence[i]`, `incident[i]`, `supports` and `affects` are the rows of incident
`i`, whose identity is derived from the idempotency key (or a fresh UUID: a call
without a key has an identity of its own).  A row's content is the request it was
written for.  A call goes through the awaits of `createIncidentExclusive`:

| await | action | source |
|---|---|---|
| evidence under the key | `Check` | `assertReplayCompatible` |
| versions of one release | `Resolve` | `resolveAffectedVersions` |
| one statement of `persist()` | `Persist`, then `Confirm` | evidence, incident, SUPPORTS |
| one chunk of edges | `Affect` | `persistAffectedEdges` |
| edges read back | `Verify` | `verifyAffectedEdges` |

`Fails` rejects the call at any of them, with or without the effect of the
statement it was waiting for; `Stop` ends the process in the same way.  `Collect`
is an npm ingestion that adds a version.  Persisting is reduced to its statements
(`PersistenceService` has the replays, and the exclusive writer).  Ranges are the
set of versions that satisfy them.  A statement of a stopped process that lands
only after the next process has checked the key is *not* modelled; with it, two
different requests under one key could mix.

`IncidentIndex` adds a client that pages through the list while incidents are
created; `observed_at` is the reporter's, so a new incident may sort anywhere.  The
incident that a promoted finding writes is a row of `TyposquatReview` and not in
this list.  A later promotion of that finding writes its `observed_at` again
(`typosquatting/service.ts:1419-1428`), so that such a row may move over a client's
cursor: what `PagesLoseNothing` says of the incidents of this service is not said
of those.

### GraphMerge

`graph` is the batch under construction: for each logical identity (node or edge)
a record of its kind, its properties, its evidence, whether it is synthetic, and
its two times.  `MergeFragment` merges one fragment: `mergeNodes`,
`mergeCanonicalEdges` and `mergeDerivedEdges` are one operator (`Merged`) because
they differ only in which properties they have.  The caller's order is left open,
so a property that holds here holds for every order.  `Finish` is
`validateGraph`, of which the parts that relate entities are kept: endpoints and
their kinds, evidence, synthetic support, parity of DEPENDS_ON and USED_BY.
Formats and ranges of single fields, and hash collisions between logical
identities, are left out.

### NpmCrawl

`fetch[p]` is where package `p` is: unseen, waiting in the present wave, in
flight, collected or failed.  `Start` is `mapWithConcurrency` (workers take
items in order), `Retried` and `Collected` the loop of `fetchPackageMetadata`,
`NextWave`, `NothingCollected` and `MergeSuccesses` the end of a wave.  The merge
is `GraphMerge`, step by step.  What a packument says (`Deps`, `Content`) is a
constant, and package names are numbers in the order of `localeCompare`.
`omitted` is all the packages the cap left out; the issue a client reads names the
first twenty of them and counts the others.  Production code passes no cache, so
there is none.  A behaviour is a crawl
(`Crawling`) or, without one, a sequence of merges of other fragments
(`MergeElsewhere`), as the lockfile and fixture collectors cause them.

### Traversal, BlastRadius and AuthorityPropagation

A search in progress is a record (`roots`, `queue`, `seen`, `admitted`, `pages`,
`found`, `warnings`, ...) that one step rewrites: a root is begun, or the head of
the queue is taken, retained when it is a target, and expanded by its page of
edges, bounded before it is looked at.  All limits are there: depth, states,
edges of a page, services, paths of a service, paths, warnings; the last slot of
the warnings is for the warning that there are no more.  A warning is the tuple
its key is made of.  `DependencyPaths` and `AuthorityPaths` say what a search
should find, as sets of simple paths.

### TemporalWindow and EvidenceFunnel

Operators over the paths a search has found: the window of a path (latest start,
earliest end), of a service, and its relation to the incident's interval; and
what the evidence read says of a path.  The funnel and the impact explanation are
given *different* reads of the evidence, as in the code.

### LiveAnalysis

`runLiveBlastRadius`: `phase` is the statement that is next.  Every statement of
the reader is a step (the incident, its affected versions, every page of
dependents, every evidence id, twice), and between any two of them a writer may
persist the next row of its batch, in the order nodes, canonical edges, USED_BY
edges.  `graph.index` has a DEPENDS_ON edge once its USED_BY edge is stored, which
is what the reader's page looks up (`IndexRows`); the edge must be stored too, and
in force at `asOf` when the request names an instant (`Paired`).  A page with an
index row that is not paired is what the reader calls corruption, as is a row of
nulls (`CorruptPage`; see "A MATCH that binds nothing").  Rows without an edge are
taken to come last in the ascending order of their edges, so that a page the pairs
fill has none.  Any statement may fail.  `Send` is the response assertion of the
route.

What is stored and what is being written are any views of any graph in which an
edge has its ends and some evidence, and the evidence that a row names is there
(`Supported`, what `validateGraph` asks of a batch); nodes may be stored before the
edges of their batch.  An incident whose row is stored and whose evidence is not
yet gets an answer that calls itself incomplete, although no limit was met: the
second half of `WritingIsNotCorruption` is about the other ones.

### Containment

Analyses of an immutable batch that persistence has verified; nothing can change
between their reads, so that each is one step.  A plan is a set of directives,
which are validated against the batch; the overlay hides what they block *after*
the page of edges was bounded; impact is computed only if all four searches were
complete.  `Propagate` is the wave-two route, whose results are checked for
missing evidence, as are those of a simulation (`PathsBacked`).

### ReleaseFirewall and ReleaseInfluenceStore

`ReleaseFirewall` is `evaluateReleaseFirewall`: a backward breadth-first search
from each release over ways, findings with a severity, a bounded set of risk
paths and the verdict, next to a reference that states the concerns over all
simple ways.  `ReleaseInfluenceStore` is how its input is stored: `persistSnapshot`
claims an id by a MERGE with its write token, then creates nodes, creates edges
and finalizes, and on an error marks the snapshot as failed: five statements
(`Statements`), no transaction.  A statement without an answer (`Unanswered`) may
have been executed, may be executed at any later time (`Lands`), or never.  A
writer may stop.  The reader reads the metadata, then nodes and edges in either
order, counts and validates what it got.  A row of nulls (`nullRow`) has no state,
and counts as one: `ReadIsOnePersist` says that nothing else makes a snapshot
"corrupt".

### StoredGraph, FindingDetail and PackageOverview

`stored` is what HydraDB holds, `pending` the rows of one batch the writer has
still to write (nodes, then canonical edges, then the index), `rewritten` the rows
it has written.  The batch may be the rest of what the finding came with, or
*another* lockfile that resolves some of the same releases: identities are shared,
so that its rows replace the first one's and name its evidence (`NodeNames`,
`EdgeNames`).  Query results come in the order of their ids.

`FindingDetail` has a step per statement of `getFindingDetail`: the finding, its
candidate and target (the two nodes in either order), each evidence id, the
candidate's versions, each version, and each page of dependents of the search for
services.  Of the evidence only what came from a lockfile, is not synthetic and of
high confidence counts (`LockfileEvidence`); versions and hops that do not name it
are not followed.  A way in progress is an item of `Traversal` with the evidence
along it.  Everything but a finding that is not there is answered by 503.
`PossibleWays` are the ways there may have been at some time, `CertainWays` those
that were there all the time: an answer shows no service outside the first and,
unless it says that it was cut, all services of the second.

`PackageOverview` has a step per statement of `investigate`: the versions, the
maintainers, their other packages, and for each version its declarations, its
dependents and its incidents.  Each is read with a limit, and the lists of all
versions together are cut once more at the end (`Compose`).

### A MATCH that binds nothing

Comments of the code (`hydra-graph-reader.ts:714-717` and `962-965`,
`hydra-writer.ts:956`) say that HydraDB answers a MATCH that binds nothing with one
row of nulls; the drivers of the tests answer it with no row.  Some readers are
written for it and filter the row: `getNode`, `getEvidence`, the preflight of the
writer and the store of the package overview.  Others are not:

* `findDependents`, `findAffectedVersions` and the release influence store call it
  corruption.  There it decides what a client is told, so both answers of the
  database are in the models (`nullRow`), and the properties say when "corrupt" is
  such a row.
* The finding reader, the incident service (its replay check and its resolution of
  versions), the list of incidents, the snapshot store of the lockfiles and the
  typosquatting service throw as well.  In their models no row is no row, and a
  row of nulls is a statement that fails, which they allow at any time.

### AnalysisRoutes

The sorts of analysis share no state but the shape of the graph; `kind` says which
one a behaviour is about, and what belongs to the others stands still.

## 3. Runs

| run | question | bounds |
|---|---|---|
| `manager` | keys, refinement of `JobLifecycle`, every job is forgotten in the end | 3 ids, table of 2, 1 running slot, 2 keys, 2 requests, timeout 2, retention 1 |
| `dispatcher` | no job without a task, shutdown, refinement of `TaskPool`, tasks leave, `close()` completes | 3 ids, table of 3, 2 slots, no keys |
| `workers` | verdicts claim no more than the graph holds, aborted tasks start nothing, workers keep the dispatcher's contract, every ingestion settles | 2 jobs of either kind, 1 pool slot of 2 running jobs, both optional stages |
| `persistence` | durability, one writer, no orphan rows, no regression, every call settles | 2 batches over 2 nodes, an edge and its index row; 2 attempts; 2 replays; lost acknowledgements; a stop at any time |
| `snapshots` | the newest snapshot is open, intervals are coherent, a closed one goes only to a newer observation, DEPENDS_ON edges are what Node.js would load, or the fallback's where it finds nothing | 1 worker, 6 ingestions of three lockfiles: two of one service, the first again later, a retry, another service, one that is refused; a linked workspace with a package of its own, a link within a package with a peer that is installed around the link only, dev and optional dependencies, one not installed; limits 2 |
| `review` | a decision is backed by one stored review, decides what was read, answers are in the graph, a key names one review, nobody blocks the lane; scans find every look-alike within their budgets and raise the strongest alarm only for two independent concerns | a promotion, its retry, a dismissal and a promotion that re-uses its key; scans before and between; 2 reviews in the lane at a time. Detection: 4 trusted names of two to eight letters, some 400 observed names (every word of five or eight of two letters among them), 40 combinations of evidence, all small budgets |
| `incidents` | rows of a key come from one request, refusals leave nothing, answers are complete, nobody blocks the lane, pages lose nothing | three calls under one key, one of them with another body, and one without a key; an edge per statement, an incident per page |
| `crawl` | selection does not depend on timing, "completed" means complete, nothing collected is lost, a crawl ends; a merge is the join of its fragments, refused exactly for a contradiction, valid if they are | 5 packages with a cycle and a diamond, every set of roots, depth 2, cap 4, 2 requests at a time, 1 retry; every batch of six fragments of a registry, a lockfile and a fixture in every order, two pairs of which contradict each other and one of which is invalid |
| `analysis` | answers say no more than the graph does, and are complete unless they say they are not; a writer half way through is not corruption, rows of nulls and an instant no resolution was in force at are the only ones; simulated reductions are real; a ready release snapshot is one call's input; verdicts follow from the ways to a release; an exposure is of the finding's own lockfile and an overview lists what there is, whatever is written meanwhile; every request is answered | a graph of 35 nodes with a dependency cycle, an authority chain and a finding, five stored states of it for the live analysis, with and without rows of nulls and an instant asked for, and three situations of the investigations, with the finding's own batch or another lockfile's half written; every limit narrow once; plans of one or two of six directives, mistaken directives, unsound seeds; seven release graphs with eight sets of options, two rival writers |
| `snapshot_race`, `firewall_cycle`, `mixed_history` | statements of comments that the code does not keep | the smallest instance that shows it |

Why these bounds are enough to see the interesting cases: three identifiers over
two table slots make a job time out, be forgotten and be succeeded by one with
the same key while its worker is still running; two pool slots and three tasks
make the pump stop at the limit, skip a timed-out head and be rescheduled; two
batches that write the same rows at different times in different chunks make a
replay of the older one run after the newer one; two lockfiles, of which one
comes back and one is repeated, make a snapshot close, re-open and be found late;
three calls of one key make a replay meet the half-written rows of a failed
attempt and a conflicting request; two hops of packages under a cap of four
make the cap bite in the middle of a wave and at its end; the affected versions
that depend on each other make a search meet its own root, and a service that
depends on both has several paths, of which one is in force, one is not and one
has no dates; two rival writers make a claim that was lost land after another's.
Two tasks side by side meet only in the dispatcher, whose run has two slots; the
workers' run has one, behind which the second job times out, is cancelled or
follows a task that outlived its job.
`CHECK_DEADLOCK FALSE` appears everywhere because the systems
really stop: identifiers, calls and jobs are bounded and the manager can close.

### Fairness

* `ManagerFairness`: the sweep timer runs (`sweepIntervalMs > 0`) and the clock
  moves.  Clients and workers owe nothing.
* `DispatcherFairness`: microtasks run, and a task function settles.  The second
  is an assumption about the tasks: every request and statement they await has a
  timeout and a bounded number of attempts.  A task that hangs blocks a draining
  `close()` for ever, which is what the code does.
* `IngestionFairness`: the same, one await at a time.
* `ServiceSpec` of `TyposquatService`: an await of a review settles, one way or
  another.
* `Fairness` of `IncidentService`: the same; every statement has a timeout.
  Nothing makes a client call.
* `CrawlSpec`: something that can happen does.  Every attempt has a timeout
  (`AbortSignal.timeout`) and attempts are bounded.
* `LiveFairness`, `StoreFairness`, `DetailFairness`, `OverviewFairness`: a read or
  write statement has a timeout, so that it is answered or fails.  A statement whose answer was lost need never land, and
  a writer of the graph need not go on.
* `Spec` of `PersistenceService`: the calls in progress go on while the process
  runs.  Nothing makes a caller call or the process stop.

### What the violated runs show

* `RowsReadable` with two workers (the default of `API_WORKER_CONCURRENCY` is 4):
  closing is not covered by the exclusive writer, so a snapshot that a sweep has
  read may be ingested again before the sweep's statement; the statement then
  stores a hash of the row as it was, and the deserializer will refuse the row.
  (The newest snapshot may end up closed for the same reason.)
* `AllowedIsTrusted`: an edge that would close a cycle is counted as inspected and
  skipped before its evidence, trust and boundary are looked at.  Where an
  untrusted influence can only be reached by closing a cycle (a workflow mints the
  credential it uses), the verdict is "allow", with the reason that every
  inspected influence was trusted.
* `HistoryIsNoFailure`: a path's window is from the latest start to the earliest
  end of its resolutions.  If one of them was closed before another opened, the
  window is empty, `buildTemporalWindow` throws `INVALID_RESOLUTION_WINDOW`, which
  the route does not know: the analysis of every service is answered by 500.

Read from the code, and not the subject of a run of its own:

* `partialWrites` of a failed `persist()` says whether mutations may have completed,
  but counts the acknowledged statements of the last pass only: a replay that
  fails in preflight hides the rows the first pass left, and a statement that was
  committed and not acknowledged is never counted.
* A scan of the same lockfile with a later `observedAt` (a nightly upload of an
  unchanged file) writes the finding as newly detected over the analyst's
  decision.  A retry of the old review then fails for good: its compare-and-set
  keeps the scan's `observed_at`, so that the guard refuses it.
* The options of a read name a time (`asOf`, `analysis-types.ts:70-80`) that
  `GraphBatchReader` does not look at: a batch is read as it is.
* The lexical gate accepts a name that repeats a letter any number of times, but
  the index of deletions offers candidates only up to two letters away: with three
  more the trusted name is never compared.
* `scanLockfile` gives every package one dependency-graph context whose evidence
  is the lockfile's own, so that two independent concerns, and with them
  "high-confidence", are out of reach of a scan.
* A lockfile task that is aborted while it persists or closes snapshots reports an
  internal error for a graph that is stored and verified (`workers.ts:603, 645`),
  which the comment at `workers.ts:240-244` wants to avoid; an npm task does not.
  `VerifiedGraphIsRecorded`, a part of `VerdictIsTrue`, says that an abort before
  one of the two optional stages is the only way to it.
* Around a link the collector also looks where Node.js would not
  (`package-lock-parser.ts:328`): a peer that is installed next to the link only
  is recorded as a dependency, although the package loads from its real path and
  would not find it.
* An `asOf` is described as a filter that keeps what it cannot date
  (`hydra-graph-reader.ts:257-265`).  But its condition is the WHERE of an OPTIONAL
  MATCH: a resolution it excludes is not left out, it becomes a row without its
  edge, for which `findDependents` throws GRAPH_CORRUPTION.  An analysis at an
  instant that some resolution on its way was not in force at is answered by 503;
  none is answered with such a resolution left out (`CandidatesAreReachable` can
  therefore promise all paths at any instant).
* Where a MATCH that binds nothing is answered by a row of nulls, which comments
  say of HydraDB, an incident without AFFECTS edges and every version that nothing
  depends on are GRAPH_CORRUPTION to the live analysis, a release snapshot that
  does not exist is SNAPSHOT_CORRUPT (503) instead of SNAPSHOT_NOT_FOUND (404),
  and one without edges can be stored but not read.
* A job whose batch is stored whole may say PERSISTENCE_FAILED: `persist()` knows
  only what was acknowledged in its last pass.
* A resolution that two lockfiles have in common is one row: the later ingestion
  moves its `valid_from`, and the instants recorded before are gone.
* A retry that performs the compare-and-set of a review itself dates the incident
  by its own arrival, not by the stored review.
* `truncated` of a package overview speaks of its versions only: declarations,
  dependents, maintainers and incidents are cut at the limit without a word.
* One crawl in which two packages name a maintainer with the same handle in
  different case, or with different e-mail addresses, is rejected as a whole.
* The doc of `assertCanAccept` says it throws before a route creates a job
  record, but `createAndDispatch` stores the job first.  A refused job is closed
  as failed (`NothingIsLeftBehind` checks that) and keeps the client's key until
  it expires.

## 4. Proofs

TLAPS checks these for every value of the constants allowed by the `ASSUME`s.

**IngestionWorkersProofs**, of the job table: type correctness;
`KeyResolvesItsJob`; `WithinLimits`; `LateResultIsTimeout`;
`ForgottenOnlyWhenExpired`; and the refinement of `JobLifecycle`.  The key property is not inductive: admission stores a record
under a fresh identifier, which must not be the target of another key, so
`KeyInv` adds that absent jobs are exactly the empty record and that stored jobs
have issued identifiers.  `LifeInv` adds the limits and what the refinement
mapping needs.  Lemmas say once what the sweep keeps (`SweepKeepsKeys`,
`SweepShrinks`) and what an update or an admission changes.

The same module, of the dispatcher: all its safety properties and the
refinement of `TaskPool`.  `PoolInv` is the conjunction of the properties with
three additions: the queue has no duplicates and is disjoint from the running
tasks (`QueueInv`), `close()` waits only on a pool that nothing can enter any
more (`WaiterInv`), and active tasks have issued identifiers.  The argument has
three layers: facts about sequences (`AppendFacts`, `TailFacts`); what each call
on the job table can make active (`SweepEffect`, `UpdateEffect`, `StoreEffect`,
`ReportEffect`: nothing but the one job it is about); and one lemma per
dispatcher action.  `ConcurrencyHolds` follows: every running job has its task
in the pool, so a free slot in the pool is a free slot in the table.

The same module, of the workers: `VerdictIsTrue`, `KeepsWorkerContract`,
`NothingIsLeftBehind` and `AbortedTasksStartNothing`, of lockfile and npm tasks
together.  That a verdict claims no more than the graph holds needs what each
continuation has already achieved: the invariant says of every state of a task
what its earlier steps have left (`collect` before `persist`, `persist` before
`close`, ...), that nothing undoes it, and that a task which rejects over a
verified graph either had its report refused or was aborted before a later stage.  `KeepsWorkerContract` is a refinement:
every step of a worker is a step the dispatcher's abstract task may take, so that
what is proved of the dispatcher holds of it with these workers.

**PersistenceServiceProofs.**  Type correctness, `OneWriter`, `NoOrphanRows`,
`ResolvedIsDurable` and `ContentNeverRegresses`.  Two arguments.  *Rows*: the
statements a pass's cursor is past have put their rows into HydraDB with this
batch's content or newer (`Covered`); `BatchAssumption`, which is what
`domain/validator.ts` checks before a batch reaches the writer, and the order of
the phases put everything a statement builds on in front of it
(`ChunksBuildOnEarlierOnes`), so a commit orphans nothing and reaches all its
rows (`CommitFacts`).  Verification checks presence only; that a resolved batch
is there with *its* content follows from `Covered`.  *Chain*: `OneWriter` is not
inductive; `ChainInv` says that the calls in progress form a queue, each chained
to the one before it, the first to a settled call, the tail last.

**SnapshotHistoryProofs.**  Types, `ClosedIsHistory`, `HistoryIsCoherent` and
`DependsOnWhatLoads`.  Coherence is three statements about the stored rows: the
newest snapshot of a service is open, every row can be read back with an interval
that is not inverted, and a closed resolution ends no later than its snapshot.  It
is *not* that the snapshots of a service are one chain of intervals: after a
failure or a late arrival several may be open or overlap.  And it is a theorem *for
one worker* only (`ASSUME MaxWorkers = 1`, which `API_WORKER_CONCURRENCY` allows; its
default is 4), whose lockfiles of one service have different times
(`DistinctTimes`): with two workers it is false, as the run `snapshot_race` shows.
`HistoryInv` is types, what the rows of each snapshot
say while they are written (`RowsInv`), that one task is at work (`Alone`), and
how far its sweep over the older snapshots has come (`SweepInv`): between the
persisted graph and the end of the sweep more than one snapshot is open, and the
property is about the time in between as well.  `ClosedIsHistory` and
`DependsOnWhatLoads` hold for any number of workers.  The second compares a search
with a rule that has none: that the first candidate of the collector's search is
the nearest directory around the real path when there is one, and that it comes of
the fallback only when there is none, are lemmas about positions in a sequence.

**TyposquatServiceProofs**, of the reviews: types, `ReviewsAreBacked`, `AnswerIsInGraph` and
`DecidesWhatWasRead`.  The invariant is about calls: what each one holds at the
statement it waits at was read of the database, and still is there if the
compare-and-set it is about to do succeeds.  Calls stopped by a crash keep what
they held, because a statement they had sent may still land.  `ServiceKeepsPromises`
carries this over to the service, with detections next to the reviews.

The same module, of the detector: `AlarmsAreExact`, for every corpus, lockfile,
list and budget.  The loop's invariant (`DetectionInv`) is simple: the results so
far are right for the first packages, the rest are left, and a result that was cut
short marks the detection.  The work is in what `Right` means for one package, in
four arguments.  *Distance*: `Cost` fills a matrix in which a cell is at most what
its neighbours allow (`Matrix`); along equal letters the cost does not grow
(`Diagonal`) and past an edit it grows by at most 100 (`OneStep`), so an edit in
each of two parts costs at most 200 (`TwiceCosts`), which the gate lets pass from
eight letters on, as 25 percent of eight letters is two changes
(`LookalikeIsAccepted`).  *Index*: a word and the same word edited once have a
word in common that lacks at most one letter of each (`EditedFacts`), and parts can
be put together (`TogetherNear`), so the deletions of a look-alike meet those of
the trusted name.  *Ranking*: `Before` orders the candidates strictly, as the
target itself breaks ties (`BeforeFacts`), and ranking by the number of smaller
ones lists each of them once (`RankFacts`).  *Evidence*: whatever the recursion
of `independentCategoryCount` has come to, evidence is owned by a category that
has it, a successful search adds its category to the owners and loses none
(`Assigned`), so that two that were counted own evidence of their own
(`CountedFacts`).  Recursive functions are unfolded through one definition
(`Redone`) that says what a step of each of them does: a lemma about all of them
(`RedoneAgain`) gives their existence, by the least number that would have none.

**IncidentProofs.**  `OneRequestOrNothing`, `AnswerIsComplete` and
`PagesLoseNothing`.  The lane (`operationTail`) is a queue: requests in progress
are linearly ordered and only the first is past its wait, so the rows of a key are
written by one request, in the order incident, evidence, `AFFECTS`, and a prefix
of them is all a crash can leave.  `PagesLoseNothing` is for any number of rows
and any page size: the cursor splits the order in two and what is newer has been
returned.

**NpmCrawlProofs**, of the merge: types, `MergedIsJoin`, `FailsClosed` and
`ValidityPreserved`, for every set of fragments, names, fields and values.
`Agree` compares the next fragment with what was *merged* so far, `FailsClosed`
speaks of the fragments themselves; the bridge is `AgreeWithJoin`: a record that
is the join of mutually consistent observations agrees with one more exactly if
each of them does.  With `JoinOfOne` and `JoinOfMore` this makes `MergeInv`
inductive: the graph is the join of what was merged, and only a refused merge has
seen a clash.  `JoinOfValid` derives validity from the join alone.

The same module, of the crawl: `SelectionIsDeterministic` (what is visited does
not depend on the order in which the answers of a wave arrive),
`BatchIsWhatWasCollected`, and that it merges right.  The first speaks only of
the end of a crawl, of packages within so many hops of the root; `CrawlInv` says
what holds on the way: the waves are disjoint and of bounded size (`WavesInv`),
what was left out was left out behind everything admitted (`OmittedInv`), and
what a collected package of an earlier wave declares is visited by the next wave
or left out (`Followed`).  At the end, a package within k hops is visited by wave
k; that is an induction on k (`ReachAtDepth`), made with the least number at which
it could fail (`LeastFacts`).  Its one assumption on the registry,
`CollectedAssumption`, is what the collector checks of a fragment before it hands
it over (`collector.ts:414`).

**ReleaseFirewallProofs**, of the release influence store: types and `ReadsAreWhole`, from `StoreSpec`
alone (no fairness) and for any finite inputs.  That a ready snapshot is whole
says nothing of the statements still on their way, so `StoreInv` adds that every
outstanding statement, a writer's next one or one of a stopped writer that lands
late, is `Backed` by what its predecessors did: the claim is its writer's, all
nodes are there before the edges, all edges before `finalize`, and no one but the
holder of the token has rows.  `ExecuteEffect` shows that no backed statement
touches a ready snapshot; what a reader has read of it therefore still is what is
stored, and by `RowsFacts` (as many rows as nodes and edges) the counts it checks
are right.

The same module, of the firewall: `VerdictIsSound`, from `StoreSpec`, for any finite
input that is stored, any dispositions and any limits.  An evaluation is one step
of the model and a function of what was read; the argument is about that function,
which has a queue, a stop, and five limits that each drop something:

* what is found is one of the reference's concerns, a warning, or the notice of a
  limit, and that only in a walk that says it was cut short (`GoodWalk`); every
  way that something is dropped sets `truncated` (`RecordFacts` to
  `LeftOutFacts`), so that in a walk that was not cut short nothing was;
* unless it was cut short there is a set of ways that are done with (`DoneWith`):
  it and the queue have the release itself and everything that leads to a way of
  the set, and all that there is to doubt about those has been found
  (`WalkGoesOn`).  When the queue is empty the set is closed, and so has every
  way to the release, these being the least closed set (`WaysToFacts`; that no
  way has more edges than there are nodes is because it meets none twice);
* the walk does end within as many turns as it may admit states: a turn takes one
  way of the queue, and every way in it is one of the states admitted (`Turned`);
* the edges of a node are taken in the order of their ids, each of them once
  (`IncomingFacts`, from `RankFacts` on the ranks of a finite ordered set).

`StoreInv` gives what the evaluation is called with: `ReadIsOnePersist` and `Known`
say that it is the valid input of one call.  `StoreAssumption` says that the limits
are positive safe integers (`release-influence-firewall.ts:90`) and that inputs are
finite.

**AnalysisProofs**, of the live analysis: `CandidatesAreReachable`,
`ResolvedIsBacked`, `OutsideIsOutside` and `WritingIsNotCorruption`, from
`RoutesSpec`, for any finite graph, any evidence, windows and limits, and any
interleaving with the writer.  Four arguments meet in `LiveInv`:

* of the graph (`GraphInv`): nodes are written before edges and edges before the
  USED_BY edges that index them, so that the index never shows an edge that is
  not there, and every edge that is there has its ends and its evidence.  A page
  that is called corrupt therefore has a row of nulls, or an edge `asOf` is not
  within (`CorruptFacts`), and a whole page that is not has all index rows;
* of the search (`SearchInv`): what it has seen are `DependencyWays` of the view as
  it is now, pages read earlier being pages of a smaller view; and unless it
  says that it was truncated, everything in `seen` is still in the queue, or found,
  or has its continuations in the *first* view in `seen`.  When it ends, `seen` is
  closed under what generates the reference, and so contains it
  (`BlastEndFacts`).  `WaysFacts` says of the reference, a recursive function,
  that it is the least such set; that no way is cut off at the number of nodes
  is because a way visits each node once;
* of the evidence (`ReadInv`): what is within the budget is still asked for or has
  been read, since all that a path refers to was stored before the path;
* of numbers: the extremes of windows exist (`GreatestNumber`), an interval that
  meets one path's window meets the widest, and of five levels one is best.

The same module, of the analyses of a batch: `ReductionIsReal` and
`AuthorityIsBacked`, from `RoutesSpec`, for any batch, plan and limits.  Such an
analysis is one step of the model, so the invariant (`BatchInv`) is short and the
argument is about what that step computes:

* the references of all searches are one function, `PathsOf` of a graph
  (`PathsFacts`: the least set that has the starts and is closed under a step);
* the search of a batch is the live search with a view that does not change
  (`BlastRadiusFacts`), the search through an overlay the same with pages that
  are filtered after they were bounded (`OverlayFacts`, `BlastBehindFacts`), and
  the search for authority has an invariant of its own (`AuthorityFacts`), in
  which no kind of node ends a path and every node but the seed is a target;
* `RunToEnd` repeats a turn so often as the limits let states be admitted; that
  this is often enough is because every turn takes a root or a state and every
  state that is put into the queue is one of those admitted (`Pays`, `Shorter`,
  `RunEnds`).  Without it a model that stopped early would still be "sound";
* what hiding nodes and edges leaves of the paths of a graph are the paths that
  meet none of them (`HidingCuts`), so that the difference of two complete
  searches is what the plan cuts (`PlanImpactFacts`).

`ContainmentAssumption` says of the constants what the code checks: the batch is
one that was stored (`Views`), seeds are finitely many and their ids numbers, and
the limits are positive safe integers (`blast-radius.ts:65`,
`wave2-propagation.ts:224`).

The same module, of the investigations: `InvestigationsAreReal`, from
`RoutesSpec`, for any rows that are stored, any batch that is written over them
and any limits.

* What a writer does to any reader is one lemma (`WriteRowFacts`): nothing that was
  stored goes, what was written over stays so, and an index row is never there
  before its edge (`StoredInv`), which is why a dependent is always resolved.
* The lists of a package are put together version by version (`ReadingInv`): each
  list is about the versions read for it so far, has only what belongs to these,
  each thing once, and unless it is at its limit has what was there of it at
  first.  That the parts do not overlap is because an edge has one source and one
  target; incidents, which may overlap, are left out when they are listed.
* The exposure of a finding is a search between two graphs, since what names the
  lockfile changes while it runs (`DetailInv`): the ways in the queue and at the
  services are among those that *may* have been followed, a set that grows with
  every row (`DetailGrows`); and for some set D of ways that have been looked at,
  D and the queue are closed under the hops that *must* have been followed, a
  set that only shrinks as rows are written over.  When the queue is empty, D has
  every way that was there all the time (`AllFound`).

`SituationAssumption` and `OverviewAssumption` say of the constants what the code
checks before it stores or reads anything: an edge has its two ends and packages
are depended on by packages and services (`domain/validator.ts`), and the limit of
an overview is positive (`package-overview-store.ts:199`).  `VersionAssumption` says
that version strings have an order (`localeCompare`, `finding-reader.ts:627`).

What the runs check is in part a conjunction of what one argument proves:
`NothingIsLeftBehind` is `EveryActiveJobOwned` with `ClosedMeansQuiet`
(`NothingLeftBehind`), `MergedOrRefused` is `MergedIsJoin` with `FailsClosed` and
`ValidityPreserved` (`MergeIsRight`).

Properties that only proofs cover (TLC is not asked again): `ManagerTypeOK`,
`WithinLimits`, `LateResultIsTimeout`, `ForgottenOnlyWhenExpired`, `DispatcherTypeOK`,
`ActiveIsPendingOrRunning`, `ConcurrencyRespected`, `NoLostWakeup`,
`ShutdownIsOneWay`, `OneWriter` and `TypeOK` of `PersistenceService`,
`MergeTypeOK`.

The invariants with more than one argument were checked by TLC before they were
proved (`HistoryInv` in 435,486 states, `CrawlInv` in 54,055). Proving corrected
the models in eight places: a review stopped by a crash kept nothing of what it
had read although its statement could still land; arms of `CASE`s overlapped, so
that TLC checked the first of them and the logic promised neither; a page of
incidents was taken in the order of the rows instead of newest first; `UNION S \
T` and `SUBSET S \ T`, which tools read differently, now have parentheses, as has
a `UNION S \cup T`; the firewall's input had ids of any kind, while the order its
edges are taken in is one of numbers (`isValidId`); what is stored when an
analysis begins was three examples and is now an assumption; and an incident
stored before its evidence, which that assumption allows and no example had,
refuted `WritingIsNotCorruption` as it was; `AlarmsAreExact` promised to find
every word two edits away, which the inputs of the run bear out and a swap with a
letter put between (`cadefghi`, `abcdefghi`) refutes. The order of a set of numbers and the
folds over it are functions now, because the provers cannot look into `SortSeq`
and `FoldLeft`.

Only model-checked are liveness, fairness and ENABLED, which are out of the
prover's reach: `EveryJobForgotten`, `PoolDrains`, `CrawlEnds` and the properties
that say that what was begun settles.  Every invariant of a passing run is a
theorem, and so is every action property and refinement, coherence for one worker.

The library's induction theorems, which have an operator as a parameter, cannot be
used here; the least-number principle needs none and has carried the inductions
above.

## 5. Not modelled

Left out:

* the exposure ladder (a pure classifier no route calls), the paged list of
  findings (one bounded read), the readiness probe and the decoding of rows in the
  readers;
* the field-by-field conversions of serializer and deserializer, of which what a
  property needs (the stored hash, a snapshot's interval) is in the models that
  need it, and checks of single fields in `domain/*` and `npm/registry`;
* numbers that only order findings (`scorer.ts`), and the compilation of the
  corpus of trusted names;
* the second look at the identities in a containment result
  (`validateResultSnapshot`), which are those of the batch they were taken from;
* the parsing of `asOf` (`routes/analysis.ts:155-185`);
* a MERGE that creates the same node twice under concurrency: a statement of
  HydraDB is taken to be atomic;
* HTTP schemas, configuration, health, authorization and the dashboard.
