--------------------------- MODULE SnapshotHistory ---------------------------
(***************************************************************************)
(* The history of a service's lockfiles: what an ingestion writes          *)
(* (ingest/lockfile/collector.ts) and how it closes what it supersedes     *)
(* (closeSupersededSnapshots in ingest/lockfile/snapshot-store.ts).        *)
(*                                                                         *)
(* A snapshot is identified by its service and content; a resolution (a    *)
(* DEPENDS_ON edge of PackageLock) by its endpoints and lockfile paths, so *)
(* that lockfiles share the resolutions they have in common.  Persisting   *)
(* is exclusive (PersistenceService) and guarded by observed_at; closing   *)
(* is neither: it is one statement after another, next to other            *)
(* ingestions.                                                             *)
(***************************************************************************)
EXTENDS PackageLock

CONSTANTS
  Services, Contents,
  Lockfile,      \* Lockfile[c]: the lockfile whose content hash is c
  Jobs,          \* the lockfile ingestions there may be
  Service,       \* Service[i]: the service job i is about
  Content,       \* Content[i]: its lockfile's content hash
  At,            \* At[i]: observedAt, and validFrom of what it writes
  MaxWorkers,    \* jobs in progress at a time (API_WORKER_CONCURRENCY)
  MaxSuperseded, \* maxSupersededSnapshots
  MaxClosed      \* maxClosedEdges

Snapshots == Services \X Contents
Snapshot(i) == <<Service[i], Content[i]>>

(* What the lockfile of a snapshot says the packages depend on.            *)
Resolves ==
  UNION {{<<s, e>> : e \in DependsOn(s[1], Lockfile[s[2]])} : s \in Snapshots}
Resolutions == {r[2] : r \in Resolves}
Collectable == {s[2] : s \in {x \in Snapshots : Accepted(Lockfile[x[2]])}}

ASSUME HistoryAssumption ==
  /\ Service \in [Jobs -> Services] /\ Content \in [Jobs -> Contents]
  /\ At \in [Jobs -> Nat \ {0}]
  /\ MaxWorkers \in Nat \ {0} /\ MaxSuperseded \in Nat \ {0} /\ MaxClosed \in Nat \ {0}

(* Different lockfiles of a service are observed at different times.       *)
ASSUME DistinctTimes ==
  \A i, j \in Jobs :
    Service[i] = Service[j] /\ At[i] = At[j] => Content[i] = Content[j]

(* An install path is a sequence of segments.                              *)
ASSUME LockfileAssumption ==
  \A c \in Contents : /\ Paths(Lockfile[c]) \subseteq Seq(STRING)
                       /\ None \notin Paths(Lockfile[c])

VARIABLES
  snapshots,   \* snapshots[s]: the LockfileSnapshot row
  resolutions, \* resolutions[e]: the DEPENDS_ON row; owner is snapshot_id
  job,         \* job[i]: where ingestion i is
  toClose,     \* toClose[i]: the snapshots it found, with the rows it read
  owner,       \* owner[i]: the snapshot whose resolutions it closes
  toEnd        \* toEnd[i]: the resolutions it found, with the rows it read

rows == <<snapshots, resolutions>>
reads == <<toClose, owner, toEnd>>
vars == <<rows, job, reads>>

Nothing == [x \in {} |-> x]
Absent == [observed |-> 0, from |-> 0, until |-> 0, closed |-> FALSE,
           intact |-> TRUE]

(* A row as collected: open, and hashed over what it says.                 *)
Collected(i) == [observed |-> At[i], from |-> At[i], until |-> 0,
                 closed |-> FALSE, intact |-> TRUE]

(* A resolution's row also says which snapshot it belongs to.              *)
Of(s, row) == [owner |-> s, observed |-> row.observed, from |-> row.from,
               until |-> row.until, closed |-> row.closed, intact |-> row.intact]

Present(row) == row.observed # 0
Open(row) == Present(row) /\ ~row.closed

(* Faults, used only to see that a property notices them.                  *)
NewerOrSame(at, row) == at >= row.observed
CoherentAnyway(row, at) == row.intact

(* __hydradb_update_if_newer_by = row.observed_at                          *)
Newer(at, row) == at > row.observed

(* The row read passes its hash check, and closing would not invert it.    *)
Coherent(row, at) == row.intact /\ at >= row.from

(* CLOSE_SNAPSHOT_QUERY, CLOSE_RESOLUTION_QUERY: only an open row, with    *)
(* the hash of the row as it was read.                                     *)
Closed(row, read, at) ==
  IF Open(row)
  THEN [row EXCEPT !.closed = TRUE, !.until = at, !.intact = (row = read)]
  ELSE row

(* buildFindSupersededSnapshotsQuery, buildFindOpenResolutionsQuery        *)
Superseded(i) ==
  {s \in Snapshots : /\ s[1] = Service[i]
                     /\ Open(snapshots[s])
                     /\ s # Snapshot(i)}
OpenResolutionsOf(s) ==
  {e \in Resolutions : Open(resolutions[e]) /\ resolutions[e].owner = s}

(* ORDER BY id LIMIT n: some n of them, all when there are fewer.          *)
Limited(found, n) ==
  {picked \in SUBSET found :
     \/ picked = found /\ Cardinality(found) <= n
     \/ Cardinality(picked) = n}

-----------------------------------------------------------------------------
Persisting == {"snapshot", "resolutions"}
Closing == {"finding", "closing", "resolving"}
InProgress(i) == job[i] \in Persisting \cup Closing

Goes(i, to) == job' = [job EXCEPT ![i] = to]

SlotFree == Cardinality({j \in Jobs : InProgress(j)}) < MaxWorkers

(* collectPackageLock throws: the job fails before it writes anything.     *)
CollectionFails(i) ==
  /\ job[i] = "new" /\ SlotFree
  /\ Content[i] \notin Collectable
  /\ Goes(i, "failed")
  /\ UNCHANGED <<rows, reads>>

(* A worker slot and the writer are free.                                  *)
Begin(i) ==
  /\ job[i] = "new" /\ SlotFree
  /\ Content[i] \in Collectable
  /\ \A j \in Jobs : job[j] \notin Persisting
  /\ Goes(i, "snapshot")
  /\ UNCHANGED <<rows, reads>>

UpsertSnapshot(i) ==
  /\ job[i] = "snapshot"
  /\ snapshots' = IF Newer(At[i], snapshots[Snapshot(i)])
                  THEN [snapshots EXCEPT ![Snapshot(i)] = Collected(i)]
                  ELSE snapshots
  /\ Goes(i, "resolutions")
  /\ UNCHANGED <<resolutions, reads>>

(* Upserting moves a shared resolution to the newer snapshot.              *)
UpsertResolutions(i) ==
  /\ job[i] = "resolutions"
  /\ resolutions' =
       [e \in Resolutions |->
          IF <<Snapshot(i), e>> \in Resolves /\ Newer(At[i], resolutions[e])
          THEN Of(Snapshot(i), Collected(i))
          ELSE resolutions[e]]
  /\ Goes(i, "finding")
  /\ UNCHANGED <<snapshots, reads>>

(* persist() rejects: the job fails and closes nothing.                    *)
PersistFails(i) ==
  /\ job[i] \in Persisting
  /\ Goes(i, "failed")
  /\ UNCHANGED <<rows, reads>>

FindSuperseded(i) ==
  /\ job[i] = "finding"
  /\ \E picked \in Limited(Superseded(i), MaxSuperseded) :
       toClose' = [toClose EXCEPT ![i] = [s \in picked |-> snapshots[s]]]
  /\ Goes(i, "closing")
  /\ UNCHANGED <<rows, owner, toEnd>>

CloseSnapshot(i) ==
  /\ job[i] = "closing" /\ toEnd[i] = Nothing
  /\ \E s \in DOMAIN toClose[i] :
       /\ Coherent(toClose[i][s], At[i])
       /\ snapshots' = [snapshots EXCEPT ![s] = Closed(@, toClose[i][s], At[i])]
       /\ toClose' = [toClose EXCEPT ![i] = [x \in DOMAIN @ \ {s} |-> @[x]]]
       /\ owner' = [owner EXCEPT ![i] = s]
  /\ Goes(i, "resolving")
  /\ UNCHANGED <<resolutions, toEnd>>

FindResolutions(i) ==
  /\ job[i] = "resolving"
  /\ \E picked \in Limited(OpenResolutionsOf(owner[i]), MaxClosed) :
       toEnd' = [toEnd EXCEPT ![i] = [e \in picked |-> resolutions[e]]]
  /\ Goes(i, "closing")
  /\ UNCHANGED <<rows, toClose, owner>>

CloseResolution(i) ==
  /\ job[i] = "closing"
  /\ \E e \in DOMAIN toEnd[i] :
       /\ Coherent(toEnd[i][e], At[i])
       /\ resolutions' = [resolutions EXCEPT ![e] = Closed(@, toEnd[i][e], At[i])]
       /\ toEnd' = [toEnd EXCEPT ![i] = [x \in DOMAIN @ \ {e} |-> @[x]]]
  /\ UNCHANGED <<snapshots, job, toClose, owner>>

(* The worker looks at neither truncated nor the counts.                   *)
Completes(i) ==
  /\ job[i] = "closing" /\ toClose[i] = Nothing /\ toEnd[i] = Nothing
  /\ Goes(i, "completed")
  /\ UNCHANGED <<rows, reads>>

Forgets(i) ==
  /\ toClose' = [toClose EXCEPT ![i] = Nothing]
  /\ toEnd' = [toEnd EXCEPT ![i] = Nothing]
  /\ UNCHANGED <<rows, owner>>

(* INVALID_CLOSE_TIME or a hash mismatch ends the sweep where it stands;   *)
(* so does a statement that fails (it may have committed) and an abort.    *)
CloseRefused(i) ==
  /\ job[i] = "closing"
  /\ \/ \E e \in DOMAIN toEnd[i] : ~Coherent(toEnd[i][e], At[i])
     \/ /\ toEnd[i] = Nothing
        /\ \E s \in DOMAIN toClose[i] : ~Coherent(toClose[i][s], At[i])
  /\ Goes(i, "not_closed")
  /\ Forgets(i)

CloseFails(i) ==
  /\ job[i] \in Closing
  /\ Goes(i, "not_closed")
  /\ Forgets(i)

Stop ==
  /\ \E i \in Jobs : InProgress(i)
  /\ job' = [i \in Jobs |-> IF InProgress(i) THEN "stopped" ELSE job[i]]
  /\ toClose' = [i \in Jobs |-> Nothing] /\ toEnd' = [i \in Jobs |-> Nothing]
  /\ UNCHANGED <<rows, owner>>

Init ==
  /\ snapshots = [s \in Snapshots |-> Absent]
  /\ resolutions = [e \in Resolutions |->
                      Of(CHOOSE s \in Snapshots : TRUE, Absent)]
  /\ job = [i \in Jobs |-> "new"]
  /\ toClose = [i \in Jobs |-> Nothing] /\ toEnd = [i \in Jobs |-> Nothing]
  /\ owner = [i \in Jobs |-> Snapshot(i)]

Persist(i) ==
  \/ CollectionFails(i) \/ Begin(i)
  \/ UpsertSnapshot(i) \/ UpsertResolutions(i) \/ PersistFails(i)
Close(i) ==
  \/ FindSuperseded(i) \/ CloseSnapshot(i) \/ FindResolutions(i)
  \/ CloseResolution(i) \/ Completes(i) \/ CloseRefused(i) \/ CloseFails(i)

Next == Stop \/ \E i \in Jobs : Persist(i) \/ Close(i)

Spec == Init /\ [][Next]_vars

-----------------------------------------------------------------------------
Row == [observed : Nat, from : Nat, until : Nat, closed : BOOLEAN,
        intact : BOOLEAN]
ResolutionRow == [owner : Snapshots, observed : Nat, from : Nat, until : Nat,
                  closed : BOOLEAN, intact : BOOLEAN]

(* Types of the rows and of what a sweep has read; valid_until is set      *)
(* exactly when has_valid_until is.                                        *)
HistoryTypeOK ==
  /\ snapshots \in [Snapshots -> Row]
  /\ resolutions \in [Resolutions -> ResolutionRow]
  /\ \A s \in Snapshots : snapshots[s].closed = (snapshots[s].until # 0)
  /\ job \in [Jobs -> Persisting \cup Closing \cup
                      {"new", "failed", "completed", "not_closed", "stopped"}]
  /\ \A i \in Jobs :
       /\ DOMAIN toClose[i] \subseteq Snapshots /\ owner[i] \in Snapshots
       /\ DOMAIN toEnd[i] \subseteq Resolutions

(* The history of a service has no gap at its end: whatever order its      *)
(* lockfiles arrive in and wherever an ingestion fails, the snapshot with  *)
(* the latest validFrom is open.                                           *)
NewestIsOpen ==
  \A s \in Snapshots :
    LET present == {x \in Snapshots : x[1] = s[1] /\ Present(snapshots[x])}
    IN  /\ s \in present
        /\ \A x \in present : snapshots[s].from >= snapshots[x].from
        => ~snapshots[s].closed

(* Every stored row still passes the hash check of the deserializer and    *)
(* has a validity interval that is not inverted.                           *)
Readable(row) == row.intact /\ (row.closed => row.until >= row.from)
RowsReadable ==
  /\ \A s \in Snapshots : Readable(snapshots[s])
  /\ \A e \in Resolutions : Readable(resolutions[e])

(* A resolution ends with the snapshot it belongs to, not later, and never *)
(* while that snapshot is current -- unless the snapshot was re-opened by  *)
(* an ingestion that failed before it reached its resolutions.             *)
ResolutionsFollowSnapshots ==
  \A e \in Resolutions :
    LET row == resolutions[e]
        of == snapshots[row.owner]
    IN  row.closed => \/ of.closed /\ row.until <= of.until
                      \/ row.observed < of.observed

(* The rows of the history agree: the newest snapshot is open, each row    *)
(* can be read back, and resolutions end with their snapshots.             *)
HistoryIsCoherent == NewestIsOpen /\ RowsReadable /\ ResolutionsFollowSnapshots

(* For the property below: the edges to what Node.js would load; the edges *)
(* of a linked package to something that Node.js would not find at all;    *)
(* and, for all that a package declares and Node.js finds, the edges that  *)
(* say so.                                                                 *)
Declares(s, e) ==
  /\ e.from \in Paths(Lockfile[s[2]])
  /\ e.name \in Declared(Lockfile[s[2]], e.from)

Loaded ==
  UNION {{<<s, e>> : e \in {x \in Resolutions :
                              /\ Declares(s, x)
                              /\ Loads(Lockfile[s[2]], x.from, x.name, x.to)}} :
           s \in Snapshots}
Unfound ==
  UNION {{<<s, e>> : e \in {x \in Resolutions :
                              /\ Declares(s, x)
                              /\ Real(Lockfile[s[2]], x.from) # x.from
                              /\ Unloadable(Lockfile[s[2]], x.from, x.name)}} :
           s \in Snapshots}

Answers(s, path, name) ==
  {e \in Resolutions : /\ e.from = path /\ e.name = name
                       /\ e.source = Node(s[1], Lockfile[s[2]], path)
                       /\ Loads(Lockfile[s[2]], path, name, e.to)}
Requirements ==
  UNION {UNION {{<<s, Answers(s, path, name)>> :
                   name \in {x \in Declared(Lockfile[s[2]], path) :
                               ~Unloadable(Lockfile[s[2]], path, x)}} :
                  path \in Paths(Lockfile[s[2]])} :
           s \in Services \X Collectable}

(* What the graph says a package depends on is what Node.js would load     *)
(* there, after the lockfile of the snapshot the row belongs to; and a     *)
(* lockfile that was ingested has a row for all that its packages declare  *)
(* and Node.js would load.  Rows for what Node.js would not find exist for *)
(* packages behind a link only: the collector then looks around the link.  *)
DependsOnWhatLoads ==
  /\ \A e \in Resolutions :
       Present(resolutions[e]) => <<resolutions[e].owner, e>> \in Loaded \cup Unfound
  /\ \A i \in Jobs : job[i] = "completed" =>
       \A r \in Requirements :
         r[1] = Snapshot(i) => \E e \in r[2] : resolutions[e].observed >= At[i]

(* What ingestion i writes over an older row: an open interval that begins *)
(* at its own observation.                                                 *)
Renews(i, old, new) ==
  /\ job[i] \in Persisting
  /\ new.observed = At[i] /\ new.from = At[i] /\ ~new.closed
  /\ At[i] > old.observed

(* A closed interval is rewritten by nothing but the write of a newer      *)
(* observation: no sweep, no late or repeated ingestion touches it.  For a *)
(* snapshot that is the same lockfile seen again.  A resolution is shared: *)
(* any newer lockfile that has it, of this service or of another, takes    *)
(* the row over (its owner changes), and the interval it had is lost.      *)
ClosedIsHistory ==
  [][/\ \A s \in Snapshots : snapshots[s].closed =>
          \/ snapshots'[s] = snapshots[s]
          \/ \E i \in Jobs : /\ Snapshot(i) = s
                            /\ Renews(i, snapshots[s], snapshots'[s])
     /\ \A e \in Resolutions : resolutions[e].closed =>
          \/ resolutions'[e] = resolutions[e]
          \/ \E i \in Jobs : /\ <<Snapshot(i), e>> \in Resolves
                            /\ resolutions'[e].owner = Snapshot(i)
                            /\ Renews(i, resolutions[e], resolutions'[e])]_vars

=============================================================================
