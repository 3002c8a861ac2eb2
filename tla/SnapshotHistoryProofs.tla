------------------------ MODULE SnapshotHistoryProofs ------------------------
(***************************************************************************)
(* Proofs about the history of lockfiles and about the edges a lockfile    *)
(* stands for, for any lockfiles, ingestions, times and limits.            *)
(***************************************************************************)
EXTENDS SnapshotHistory, FiniteSetTheorems, SequenceTheorems, TLAPS

-----------------------------------------------------------------------------
(* The invariant                                                           *)

(* The types, with the domains of what the sweeps hold.                    *)
HistoryTypes ==
  /\ HistoryTypeOK
  /\ toClose = [i \in Jobs |-> toClose[i]]
  /\ toEnd = [i \in Jobs |-> toEnd[i]]
  /\ owner \in [Jobs -> Snapshots]

(* A row is valid from when it was observed, and one that is not there is  *)
(* not closed.                                                             *)
Dated(row) == row.from = row.observed /\ (~Present(row) => ~row.closed)

(* A snapshot's time is that of an ingestion of its lockfile; resolutions  *)
(* are not newer than the snapshot they belong to.                         *)
RowsInv ==
  /\ \A s \in Snapshots :
       /\ Dated(snapshots[s])
       /\ Present(snapshots[s]) =>
            \E j \in Jobs : Snapshot(j) = s /\ At[j] = snapshots[s].observed
  /\ \A e \in Resolutions :
       /\ Dated(resolutions[e])
       /\ Present(resolutions[e]) =>
            resolutions[e].observed <= snapshots[resolutions[e].owner].observed

(* What a sweep has read is what is stored, and what it is about to end    *)
(* belongs to a snapshot it has closed itself.                             *)
SweepInv(i) ==
  /\ job[i] \notin Closing => toClose[i] = Nothing
  /\ job[i] # "closing" => toEnd[i] = Nothing
  /\ job[i] = "finding" => toClose[i] = Nothing
  /\ \A s \in DOMAIN toClose[i] :
       /\ s[1] = Service[i] /\ s # Snapshot(i)
       /\ toClose[i][s] = snapshots[s] /\ Open(snapshots[s])
  /\ \A e \in DOMAIN toEnd[i] :
       /\ toEnd[i][e] = resolutions[e] /\ Open(resolutions[e])
       /\ resolutions[e].owner = owner[i]
  /\ job[i] = "resolving" \/ DOMAIN toEnd[i] # {} =>
       snapshots[owner[i]].closed /\ snapshots[owner[i]].until = At[i]
  /\ job[i] \in {"resolutions"} \cup Closing =>
       snapshots[Snapshot(i)].observed >= At[i]

(* One worker: what is in progress is alone.                               *)
Alone ==
  /\ IsFiniteSet({i \in Jobs : InProgress(i)})
  /\ \A i, j \in Jobs : InProgress(i) /\ InProgress(j) => i = j

HistoryInv ==
  /\ HistoryTypes /\ RowsInv /\ Alone
  /\ \A i \in Jobs : SweepInv(i)
  /\ HistoryIsCoherent

-----------------------------------------------------------------------------
(* What the operators on rows give                                         *)

LEMMA SnapshotType ==
  ASSUME NEW i \in Jobs
  PROVE  /\ Snapshot(i) \in Snapshots /\ Snapshot(i)[1] = Service[i]
         /\ At[i] \in Nat /\ At[i] # 0
BY HistoryAssumption DEF Snapshot, Snapshots

LEMMA CollectedFacts ==
  ASSUME NEW i \in Jobs
  PROVE  /\ Collected(i) \in Row /\ Of(Snapshot(i), Collected(i)) \in ResolutionRow
         /\ Collected(i).observed = At[i] /\ Collected(i).from = At[i]
         /\ Collected(i).until = 0 /\ Collected(i).closed = FALSE
         /\ Collected(i).intact = TRUE
         /\ Of(Snapshot(i), Collected(i)).owner = Snapshot(i)
         /\ Of(Snapshot(i), Collected(i)).observed = At[i]
         /\ Of(Snapshot(i), Collected(i)).from = At[i]
         /\ Of(Snapshot(i), Collected(i)).until = 0
         /\ Of(Snapshot(i), Collected(i)).closed = FALSE
         /\ Of(Snapshot(i), Collected(i)).intact = TRUE
BY SnapshotType DEF Collected, Of, Row, ResolutionRow

(* Closing keeps everything of a row but its end and its hash, and touches *)
(* an open row only.                                                       *)
LEMMA ClosedSnapshotFacts ==
  ASSUME NEW row \in Row, NEW read, NEW at \in Nat
  PROVE  /\ Closed(row, read, at) \in Row
         /\ Closed(row, read, at).observed = row.observed
         /\ Closed(row, read, at).from = row.from
         /\ ~Open(row) => Closed(row, read, at) = row
         /\ Open(row) => /\ Closed(row, read, at).closed = TRUE
                         /\ Closed(row, read, at).until = at
                         /\ Closed(row, read, at).intact = (row = read)
BY DEF Closed, Row, Open, Present

LEMMA ClosedResolutionFacts ==
  ASSUME NEW row \in ResolutionRow, NEW read, NEW at \in Nat
  PROVE  /\ Closed(row, read, at) \in ResolutionRow
         /\ Closed(row, read, at).owner = row.owner
         /\ Closed(row, read, at).observed = row.observed
         /\ Closed(row, read, at).from = row.from
         /\ ~Open(row) => Closed(row, read, at) = row
         /\ Open(row) => /\ Closed(row, read, at).closed = TRUE
                         /\ Closed(row, read, at).until = at
                         /\ Closed(row, read, at).intact = (row = read)
BY DEF Closed, ResolutionRow, Open, Present

LEMMA LimitedFacts ==
  ASSUME NEW found, NEW n, NEW picked \in Limited(found, n)
  PROVE  picked \subseteq found
BY DEF Limited

-----------------------------------------------------------------------------
(* Types, for any number of workers                                        *)

JobStates == Persisting \cup Closing \cup
             {"new", "failed", "completed", "not_closed", "stopped"}

LEMMA TypesInit == Init => HistoryTypes
<1> SUFFICES ASSUME Init PROVE HistoryTypes
  OBVIOUS
<1>1. snapshots \in [Snapshots -> Row] /\ \A s \in Snapshots : snapshots[s].closed = (snapshots[s].until # 0)
  BY DEF Init, Absent, Row
<1>2. resolutions \in [Resolutions -> ResolutionRow]
  <2>1. ASSUME NEW e \in Resolutions
        PROVE  (CHOOSE s \in Snapshots : TRUE) \in Snapshots
    <3>1. \E s \in Snapshots : TRUE
      BY DEF Resolutions, Resolves
    <3> QED BY <3>1
  <2>2. ASSUME NEW s \in Snapshots PROVE Of(s, Absent) \in ResolutionRow
    BY DEF Of, Absent, ResolutionRow
  <2> QED BY <2>1, <2>2 DEF Init
<1>3. job \in [Jobs -> JobStates]
  BY DEF Init, JobStates
<1>4. /\ toClose = [i \in Jobs |-> Nothing] /\ toEnd = [i \in Jobs |-> Nothing]
      /\ owner \in [Jobs -> Snapshots]
  BY SnapshotType DEF Init
<1>5. DOMAIN Nothing = {}
  BY DEF Nothing
<1> QED BY <1>1, <1>2, <1>3, <1>4, <1>5 DEF HistoryTypes, HistoryTypeOK, JobStates

LEMMA GoesType ==
  ASSUME HistoryTypes, NEW i \in Jobs, NEW to \in JobStates, Goes(i, to)
  PROVE  /\ job' \in [Jobs -> JobStates]
         /\ job'[i] = to /\ \A j \in Jobs \ {i} : job'[j] = job[j]
BY DEF HistoryTypes, HistoryTypeOK, Goes, JobStates

LEMMA StepKeepsTypes == HistoryTypes /\ [Next]_vars => HistoryTypes'
<1> SUFFICES ASSUME HistoryTypes, [Next]_vars PROVE HistoryTypes'
  OBVIOUS
<1> DEFINE Held(c, t, w) ==
      /\ c = [i \in Jobs |-> c[i]] /\ t = [i \in Jobs |-> t[i]]
      /\ w \in [Jobs -> Snapshots]
      /\ \A i \in Jobs : DOMAIN c[i] \subseteq Snapshots /\ DOMAIN t[i] \subseteq Resolutions
    Stored(s, r) ==
      /\ s \in [Snapshots -> Row] /\ r \in [Resolutions -> ResolutionRow]
      /\ \A x \in Snapshots : s[x].closed = (s[x].until # 0)
<1>1. /\ job \in [Jobs -> JobStates] /\ Held(toClose, toEnd, owner)
      /\ Stored(snapshots, resolutions)
  BY DEF HistoryTypes, HistoryTypeOK, JobStates
<1>2. ASSUME job' \in [Jobs -> JobStates], Held(toClose', toEnd', owner'),
             Stored(snapshots', resolutions')
      PROVE  HistoryTypes'
  BY <1>2 DEF HistoryTypes, HistoryTypeOK, JobStates
<1>3. DOMAIN Nothing = {}
  BY DEF Nothing
<1>4. CASE UNCHANGED vars
  BY <1>4, <1>1, <1>2 DEF vars, rows, reads
<1>5. CASE Stop
  <2>1. job' \in [Jobs -> JobStates]
    BY <1>5, <1>1 DEF Stop, JobStates
  <2>2. Held(toClose', toEnd', owner')
    BY <1>5, <1>1, <1>3 DEF Stop, rows
  <2>3. Stored(snapshots', resolutions')
    BY <1>5, <1>1 DEF Stop, rows
  <2> QED BY <2>1, <2>2, <2>3, <1>2
<1>6. ASSUME NEW i \in Jobs, CollectionFails(i) \/ Begin(i) \/ PersistFails(i) \/ Completes(i)
      PROVE  HistoryTypes'
  <2>1. \E to \in JobStates : Goes(i, to)
    BY <1>6 DEF CollectionFails, Begin, PersistFails, Completes, JobStates, Persisting
  <2>2. UNCHANGED <<rows, reads>>
    BY <1>6 DEF CollectionFails, Begin, PersistFails, Completes
  <2>3. job' \in [Jobs -> JobStates]
    BY <2>1, GoesType
  <2>4. Held(toClose', toEnd', owner') /\ Stored(snapshots', resolutions')
    BY <2>2, <1>1 DEF rows, reads
  <2> QED BY <2>3, <2>4, <1>2
<1>7. ASSUME NEW i \in Jobs, UpsertSnapshot(i) PROVE HistoryTypes'
  <2>1. job' \in [Jobs -> JobStates]
    <3>1. Goes(i, "resolutions") /\ "resolutions" \in JobStates
      BY <1>7 DEF UpsertSnapshot, JobStates, Persisting
    <3> QED BY <3>1, GoesType
  <2>2. Held(toClose', toEnd', owner')
    BY <1>7, <1>1 DEF UpsertSnapshot, reads
  <2>3. Stored(snapshots', resolutions')
    BY <1>7, <1>1, CollectedFacts, SnapshotType DEF UpsertSnapshot
  <2> QED BY <2>1, <2>2, <2>3, <1>2
<1>8. ASSUME NEW i \in Jobs, UpsertResolutions(i) PROVE HistoryTypes'
  <2>1. job' \in [Jobs -> JobStates]
    <3>1. Goes(i, "finding") /\ "finding" \in JobStates
      BY <1>8 DEF UpsertResolutions, JobStates, Closing
    <3> QED BY <3>1, GoesType
  <2>2. Held(toClose', toEnd', owner')
    BY <1>8, <1>1 DEF UpsertResolutions, reads
  <2>3. resolutions' \in [Resolutions -> ResolutionRow]
    BY <1>8, <1>1, CollectedFacts DEF UpsertResolutions
  <2>4. Stored(snapshots', resolutions')
    BY <1>8, <1>1, <2>3 DEF UpsertResolutions
  <2> QED BY <2>1, <2>2, <2>4, <1>2
<1>9. ASSUME NEW i \in Jobs, FindSuperseded(i) PROVE HistoryTypes'
  <2>1. job' \in [Jobs -> JobStates]
    <3>1. Goes(i, "closing") /\ "closing" \in JobStates
      BY <1>9 DEF FindSuperseded, JobStates, Closing
    <3> QED BY <3>1, GoesType
  <2>2. PICK picked \in Limited(Superseded(i), MaxSuperseded) :
          toClose' = [toClose EXCEPT ![i] = [s \in picked |-> snapshots[s]]]
    BY <1>9 DEF FindSuperseded
  <2>3. picked \subseteq Snapshots
    BY LimitedFacts DEF Superseded
  <2>4. Held(toClose', toEnd', owner')
    BY <1>9, <1>1, <2>2, <2>3 DEF FindSuperseded
  <2>5. Stored(snapshots', resolutions')
    BY <1>9, <1>1 DEF FindSuperseded, rows
  <2> QED BY <2>1, <2>4, <2>5, <1>2
<1>10. ASSUME NEW i \in Jobs, CloseSnapshot(i) PROVE HistoryTypes'
  <2>1. job' \in [Jobs -> JobStates]
    <3>1. Goes(i, "resolving") /\ "resolving" \in JobStates
      BY <1>10 DEF CloseSnapshot, JobStates, Closing
    <3> QED BY <3>1, GoesType
  <2>2. PICK s \in DOMAIN toClose[i] :
          /\ snapshots' = [snapshots EXCEPT ![s] = Closed(@, toClose[i][s], At[i])]
          /\ toClose' = [toClose EXCEPT ![i] = [x \in DOMAIN @ \ {s} |-> @[x]]]
          /\ owner' = [owner EXCEPT ![i] = s]
    BY <1>10 DEF CloseSnapshot
  <2>3. s \in Snapshots
    BY <1>1
  <2>4. Held(toClose', toEnd', owner')
    BY <1>10, <1>1, <2>2, <2>3 DEF CloseSnapshot
  <2>5. Stored(snapshots', resolutions')
    <3> DEFINE after == Closed(snapshots[s], toClose[i][s], At[i])
    <3>1. snapshots[s] \in Row /\ snapshots[s].closed = (snapshots[s].until # 0)
      BY <1>1, <2>3
    <3>2. after \in Row /\ after.closed = (after.until # 0)
      BY <3>1, SnapshotType DEF Closed, Row, Open, Present
    <3>3. resolutions' = resolutions
      BY <1>10 DEF CloseSnapshot
    <3> HIDE DEF after
    <3>4. snapshots' = [snapshots EXCEPT ![s] = after]
      BY <2>2 DEF after
    <3> QED BY <3>2, <3>3, <3>4, <2>3, <1>1
  <2> QED BY <2>1, <2>4, <2>5, <1>2
<1>11. ASSUME NEW i \in Jobs, FindResolutions(i) PROVE HistoryTypes'
  <2>1. job' \in [Jobs -> JobStates]
    <3>1. Goes(i, "closing") /\ "closing" \in JobStates
      BY <1>11 DEF FindResolutions, JobStates, Closing
    <3> QED BY <3>1, GoesType
  <2>2. PICK picked \in Limited(OpenResolutionsOf(owner[i]), MaxClosed) :
          toEnd' = [toEnd EXCEPT ![i] = [e \in picked |-> resolutions[e]]]
    BY <1>11 DEF FindResolutions
  <2>3. picked \subseteq Resolutions
    BY LimitedFacts DEF OpenResolutionsOf
  <2>4. Held(toClose', toEnd', owner')
    BY <1>11, <1>1, <2>2, <2>3 DEF FindResolutions
  <2>5. Stored(snapshots', resolutions')
    BY <1>11, <1>1 DEF FindResolutions, rows
  <2> QED BY <2>1, <2>4, <2>5, <1>2
<1>12. ASSUME NEW i \in Jobs, CloseResolution(i) PROVE HistoryTypes'
  <2>1. PICK e \in DOMAIN toEnd[i] :
          /\ resolutions' = [resolutions EXCEPT ![e] = Closed(@, toEnd[i][e], At[i])]
          /\ toEnd' = [toEnd EXCEPT ![i] = [x \in DOMAIN @ \ {e} |-> @[x]]]
    BY <1>12 DEF CloseResolution
  <2>2. e \in Resolutions
    BY <1>1
  <2>3. Held(toClose', toEnd', owner')
    BY <1>12, <1>1, <2>1, <2>2 DEF CloseResolution
  <2>4. Closed(resolutions[e], toEnd[i][e], At[i]) \in ResolutionRow
    BY <1>1, <2>2, ClosedResolutionFacts, SnapshotType
  <2>5. Stored(snapshots', resolutions')
    BY <1>12, <1>1, <2>1, <2>2, <2>4 DEF CloseResolution
  <2>6. job' = job
    BY <1>12 DEF CloseResolution
  <2> QED BY <2>3, <2>5, <2>6, <1>1, <1>2
<1>13. ASSUME NEW i \in Jobs, CloseRefused(i) \/ CloseFails(i) PROVE HistoryTypes'
  <2>1. Goes(i, "not_closed") /\ Forgets(i) /\ "not_closed" \in JobStates
    BY <1>13 DEF CloseRefused, CloseFails, JobStates
  <2>2. job' \in [Jobs -> JobStates]
    BY <2>1, GoesType
  <2>3. Held(toClose', toEnd', owner')
    BY <2>1, <1>1, <1>3 DEF Forgets
  <2>4. Stored(snapshots', resolutions')
    BY <2>1, <1>1 DEF Forgets, rows
  <2> QED BY <2>2, <2>3, <2>4, <1>2
<1>14. ASSUME NEW i \in Jobs, Persist(i) PROVE HistoryTypes'
  BY <1>14, <1>6, <1>7, <1>8 DEF Persist
<1>15. ASSUME NEW i \in Jobs, Close(i) PROVE HistoryTypes'
  BY <1>15, <1>6, <1>9, <1>10, <1>11, <1>12, <1>13 DEF Close
<1> HIDE DEF Held, Stored
<1> QED BY <1>4, <1>5, <1>14, <1>15 DEF Next

(* Types, with valid_until there exactly when has_valid_until is, for any  *)
(* number of workers.                                                      *)
THEOREM HistoryTypesHold == Spec => []HistoryTypes
BY TypesInit, StepKeepsTypes, PTL DEF Spec

-----------------------------------------------------------------------------
(* Intervals that were closed, for any number of workers                   *)

ClosedRowsKeep ==
   /\ \A s \in Snapshots : snapshots[s].closed =>
        \/ snapshots'[s] = snapshots[s]
        \/ \E i \in Jobs : /\ Snapshot(i) = s
                          /\ Renews(i, snapshots[s], snapshots'[s])
   /\ \A e \in Resolutions : resolutions[e].closed =>
        \/ resolutions'[e] = resolutions[e]
        \/ \E i \in Jobs : /\ <<Snapshot(i), e>> \in Resolves
                          /\ resolutions'[e].owner = Snapshot(i)
                          /\ Renews(i, resolutions[e], resolutions'[e])

LEMMA ClosedStaysOrIsRenewed ==
  ASSUME HistoryTypes, [Next]_vars
  PROVE  ClosedRowsKeep
<1>1. snapshots \in [Snapshots -> Row] /\ resolutions \in [Resolutions -> ResolutionRow]
  BY DEF HistoryTypes, HistoryTypeOK
<1>2. CASE UNCHANGED rows
  BY <1>2 DEF rows, ClosedRowsKeep
<1>3. ASSUME NEW i \in Jobs, UpsertSnapshot(i) PROVE ClosedRowsKeep
  <2>1. At[i] \in Nat /\ Snapshot(i) \in Snapshots /\ resolutions' = resolutions
        /\ job[i] \in Persisting
    BY <1>3, SnapshotType DEF UpsertSnapshot, Persisting
  <2>2. ASSUME NEW s \in Snapshots, snapshots'[s] # snapshots[s]
        PROVE  /\ Snapshot(i) = s /\ snapshots'[s] = Collected(i)
               /\ At[i] > snapshots[s].observed
    BY <1>1, <1>3, <2>1, <2>2 DEF UpsertSnapshot, Newer
  <2>3. ASSUME NEW s \in Snapshots, snapshots'[s] # snapshots[s]
        PROVE  Renews(i, snapshots[s], snapshots'[s])
    BY <2>1, <2>2, <2>3 DEF Renews, Collected
  <2> QED BY <2>1, <2>2, <2>3 DEF ClosedRowsKeep
<1>4. ASSUME NEW i \in Jobs, UpsertResolutions(i) PROVE ClosedRowsKeep
  <2>1. snapshots' = snapshots /\ job[i] \in Persisting
    BY <1>4 DEF UpsertResolutions, Persisting
  <2>2. ASSUME NEW e \in Resolutions, resolutions'[e] # resolutions[e]
        PROVE  /\ <<Snapshot(i), e>> \in Resolves
               /\ resolutions'[e] = Of(Snapshot(i), Collected(i))
               /\ At[i] > resolutions[e].observed
    BY <1>4, <2>2 DEF UpsertResolutions, Newer
  <2>3. ASSUME NEW e \in Resolutions, resolutions'[e] # resolutions[e]
        PROVE  /\ resolutions'[e].owner = Snapshot(i)
               /\ Renews(i, resolutions[e], resolutions'[e])
    BY <2>1, <2>2, <2>3, CollectedFacts DEF Renews
  <2> QED BY <2>1, <2>2, <2>3 DEF ClosedRowsKeep
<1>5. ASSUME NEW i \in Jobs, CloseSnapshot(i) PROVE ClosedRowsKeep
  <2>1. PICK s \in DOMAIN toClose[i] :
          snapshots' = [snapshots EXCEPT ![s] = Closed(@, toClose[i][s], At[i])]
    BY <1>5 DEF CloseSnapshot
  <2>2. resolutions' = resolutions
    BY <1>5 DEF CloseSnapshot
  <2>3. snapshots[s].closed => Closed(snapshots[s], toClose[i][s], At[i]) = snapshots[s]
    BY DEF Closed, Open
  <2> QED BY <1>1, <2>1, <2>2, <2>3 DEF ClosedRowsKeep
<1>6. ASSUME NEW i \in Jobs, CloseResolution(i) PROVE ClosedRowsKeep
  <2>1. PICK e \in DOMAIN toEnd[i] :
          resolutions' = [resolutions EXCEPT ![e] = Closed(@, toEnd[i][e], At[i])]
    BY <1>6 DEF CloseResolution
  <2>2. snapshots' = snapshots
    BY <1>6 DEF CloseResolution
  <2>3. resolutions[e].closed => Closed(resolutions[e], toEnd[i][e], At[i]) = resolutions[e]
    BY DEF Closed, Open
  <2> QED BY <1>1, <2>1, <2>2, <2>3 DEF ClosedRowsKeep
<1>7. ASSUME NEW i \in Jobs,
             CollectionFails(i) \/ Begin(i) \/ PersistFails(i) \/ FindSuperseded(i)
               \/ FindResolutions(i) \/ Completes(i) \/ CloseRefused(i) \/ CloseFails(i)
      PROVE  UNCHANGED rows
  BY <1>7 DEF CollectionFails, Begin, PersistFails, FindSuperseded, FindResolutions,
              Completes, CloseRefused, CloseFails, Forgets, rows
<1>8. Stop \/ UNCHANGED vars => UNCHANGED rows
  BY DEF Stop, vars, rows
<1> QED
  BY <1>2, <1>3, <1>4, <1>5, <1>6, <1>7, <1>8 DEF Next, Persist, Close

(* Only the write of a newer observation rewrites a closed interval: of    *)
(* the same lockfile for a snapshot, of any lockfile that has it for a     *)
(* resolution, however many workers there are.                             *)
THEOREM ClosedIsHistoryHolds == Spec => ClosedIsHistory
<1>1. HistoryTypes /\ [Next]_vars => [ClosedRowsKeep]_vars
  BY ClosedStaysOrIsRenewed
<1> QED BY HistoryTypesHold, <1>1, PTL DEF Spec, ClosedIsHistory, ClosedRowsKeep


-----------------------------------------------------------------------------
(* The coherence of the history, for one worker                            *)

LEMMA NothingIsEmpty == DOMAIN Nothing = {}
BY DEF Nothing

LEMMA HistoryInvInit == Init => HistoryInv
<1> SUFFICES ASSUME Init PROVE HistoryInv
  OBVIOUS
<1>1. HistoryTypes
  BY TypesInit
<1>2. \A s \in Snapshots :
        /\ snapshots[s].observed = 0 /\ snapshots[s].from = 0
        /\ snapshots[s].closed = FALSE /\ snapshots[s].intact = TRUE
  BY DEF Init, Absent
<1>3. \A e \in Resolutions :
        /\ resolutions[e].observed = 0 /\ resolutions[e].from = 0
        /\ resolutions[e].closed = FALSE /\ resolutions[e].intact = TRUE
  BY DEF Init, Absent, Of
<1>4. RowsInv
  BY <1>2, <1>3 DEF RowsInv, Dated, Present
<1>5. Alone
  <2>1. {i \in Jobs : InProgress(i)} = {}
    BY DEF Init, InProgress, Persisting, Closing
  <2> QED BY <2>1, FS_EmptySet DEF Alone
<1>6. \A i \in Jobs : SweepInv(i)
  BY NothingIsEmpty DEF Init, SweepInv, Closing
<1>7. HistoryIsCoherent
  BY <1>2, <1>3 DEF HistoryIsCoherent, NewestIsOpen, RowsReadable, Readable,
                    ResolutionsFollowSnapshots, Present
<1> QED BY <1>1, <1>4, <1>5, <1>6, <1>7 DEF HistoryInv

(* A slot is free for one worker only if nothing is in progress.           *)
LEMMA SlotFreeMeansIdle ==
  ASSUME MaxWorkers = 1, Alone, SlotFree
  PROVE  \A j \in Jobs : ~InProgress(j)
<1> DEFINE busy == {j \in Jobs : InProgress(j)}
<1>1. IsFiniteSet(busy) /\ Cardinality(busy) < 1
  BY DEF Alone, SlotFree
<1>2. Cardinality(busy) \in Nat
  BY <1>1, FS_CardinalityType
<1>3. Cardinality(busy) = 0
  BY <1>1, <1>2
<1>4. busy = {}
  BY <1>1, <1>3, FS_EmptySet
<1> QED BY <1>4

LEMMA StepKeepsAlone ==
  ASSUME MaxWorkers = 1, HistoryTypes, Alone, [Next]_vars
  PROVE  Alone'
<1> DEFINE busy == {j \in Jobs : InProgress(j)}
<1>1. job \in [Jobs -> JobStates]
  BY DEF HistoryTypes, HistoryTypeOK, JobStates
<1>2. CASE \A j \in Jobs : InProgress(j)' => InProgress(j)
  <2>1. busy' \subseteq busy
    BY <1>2
  <2>2. IsFiniteSet(busy')
    BY <2>1, FS_Subset DEF Alone
  <2> QED BY <1>2, <2>2 DEF Alone
<1>3. ASSUME NEW i \in Jobs, Begin(i) PROVE Alone'
  <2>1. \A j \in Jobs : ~InProgress(j)
    BY <1>3, SlotFreeMeansIdle DEF Begin
  <2>2. \A j \in Jobs \ {i} : ~InProgress(j)'
    BY <1>1, <1>3, <2>1 DEF Begin, Goes, InProgress
  <2>3. busy' \subseteq {i}
    BY <2>2
  <2>4. IsFiniteSet(busy')
    BY <2>3, FS_Singleton, FS_Subset
  <2> QED BY <2>2, <2>4 DEF Alone
<1>4. ASSUME NEW i \in Jobs, Persist(i) \/ Close(i), ~Begin(i)
      PROVE  \A j \in Jobs : InProgress(j)' => InProgress(j)
  <2>1. CASE CollectionFails(i) \/ PersistFails(i) \/ Completes(i) \/ CloseRefused(i) \/ CloseFails(i)
    <3>1. \E to \in {"failed", "completed", "not_closed"} : Goes(i, to)
      BY <2>1 DEF CollectionFails, PersistFails, Completes, CloseRefused, CloseFails
    <3> QED BY <1>1, <3>1 DEF Goes, InProgress, Persisting, Closing
  <2>2. CASE UpsertSnapshot(i) \/ UpsertResolutions(i) \/ FindSuperseded(i)
               \/ CloseSnapshot(i) \/ FindResolutions(i)
    <3>1. InProgress(i) /\ \E to : Goes(i, to)
      BY <2>2 DEF UpsertSnapshot, UpsertResolutions, FindSuperseded, CloseSnapshot,
                  FindResolutions, InProgress, Persisting, Closing
    <3> QED BY <1>1, <3>1 DEF Goes, InProgress
  <2>3. CASE CloseResolution(i)
    BY <2>3 DEF CloseResolution, InProgress
  <2> QED BY <1>4, <2>1, <2>2, <2>3 DEF Persist, Close
<1>5. Stop => \A j \in Jobs : InProgress(j)' => InProgress(j)
  BY <1>1 DEF Stop, InProgress, Persisting, Closing
<1>6. UNCHANGED vars => \A j \in Jobs : InProgress(j)' => InProgress(j)
  BY DEF vars, InProgress
<1> QED BY <1>2, <1>3, <1>4, <1>5, <1>6 DEF Next

-----------------------------------------------------------------------------
(* The ingestions that do not take the step.                               *)

LEMMA SweepKept ==
  ASSUME NEW j \in Jobs, SweepInv(j), UNCHANGED rows, job'[j] = job[j],
         toClose'[j] = toClose[j], toEnd'[j] = toEnd[j], owner'[j] = owner[j]
  PROVE  SweepInv(j)'
BY DEF SweepInv, rows, Open, Present

LEMMA IdleSweep ==
  ASSUME NEW j \in Jobs, ~InProgress(j), SweepInv(j), job'[j] = job[j],
         toClose'[j] = toClose[j], toEnd'[j] = toEnd[j]
  PROVE  SweepInv(j)'
BY NothingIsEmpty DEF SweepInv, InProgress, Persisting, Closing

LEMMA RestedSweep ==
  ASSUME NEW j \in Jobs, job'[j] \notin Closing \cup {"resolutions"},
         toClose'[j] = Nothing, toEnd'[j] = Nothing
  PROVE  SweepInv(j)'
BY NothingIsEmpty DEF SweepInv, Closing

LEMMA OthersSweeps ==
  ASSUME HistoryInv, NEW i \in Jobs, Persist(i) \/ Close(i), NEW j \in Jobs, j # i
  PROVE  SweepInv(j)'
<1>1. SweepInv(j) /\ HistoryTypes /\ Alone
  BY DEF HistoryInv
<1>2. /\ job'[j] = job[j] /\ toClose'[j] = toClose[j] /\ toEnd'[j] = toEnd[j]
      /\ owner'[j] = owner[j]
  <2>1. /\ job \in [Jobs -> JobStates] /\ owner \in [Jobs -> Snapshots]
        /\ toClose = [k \in Jobs |-> toClose[k]] /\ toEnd = [k \in Jobs |-> toEnd[k]]
    BY <1>1 DEF HistoryTypes, HistoryTypeOK, JobStates
  <2>2. CASE Persist(i)
    BY <2>1, <2>2 DEF Persist, CollectionFails, Begin, UpsertSnapshot, UpsertResolutions,
                      PersistFails, Goes, reads
  <2>3. CASE Close(i)
    <3>1. job'[j] = job[j]
      BY <2>1, <2>3 DEF Close, FindSuperseded, CloseSnapshot, FindResolutions,
                        CloseResolution, Completes, CloseRefused, CloseFails, Goes
    <3>2. toClose'[j] = toClose[j]
      BY <2>1, <2>3 DEF Close, FindSuperseded, CloseSnapshot, FindResolutions,
                        CloseResolution, Completes, CloseRefused, CloseFails, Forgets, reads
    <3>3. toEnd'[j] = toEnd[j]
      BY <2>1, <2>3 DEF Close, FindSuperseded, CloseSnapshot, FindResolutions,
                        CloseResolution, Completes, CloseRefused, CloseFails, Forgets, reads
    <3>4. owner'[j] = owner[j]
      BY <2>1, <2>3 DEF Close, FindSuperseded, CloseSnapshot, FindResolutions,
                        CloseResolution, Completes, CloseRefused, CloseFails, Forgets, reads
    <3> QED BY <3>1, <3>2, <3>3, <3>4
  <2> QED BY <2>2, <2>3
<1>3. CASE UNCHANGED rows
  BY <1>1, <1>2, <1>3, SweepKept
<1>4. CASE ~InProgress(j)
  BY <1>1, <1>2, <1>4, IdleSweep
<1>5. ~UNCHANGED rows => InProgress(i)
  BY DEF Persist, Close, CollectionFails, Begin, UpsertSnapshot, UpsertResolutions,
         PersistFails, FindSuperseded, CloseSnapshot, FindResolutions, CloseResolution,
         Completes, CloseRefused, CloseFails, Forgets, InProgress, Persisting, Closing
<1> QED BY <1>1, <1>3, <1>4, <1>5 DEF Alone


-----------------------------------------------------------------------------
(* The ingestion that takes the step: what it then holds                   *)

LEMMA OwnSweep ==
  ASSUME HistoryInv, HistoryTypes', NEW i \in Jobs, Persist(i) \/ Close(i)
  PROVE  SweepInv(i)'
<1>1. /\ SweepInv(i) /\ HistoryTypes
  BY DEF HistoryInv
<1>2. /\ job \in [Jobs -> JobStates] /\ owner \in [Jobs -> Snapshots]
      /\ toClose = [k \in Jobs |-> toClose[k]] /\ toEnd = [k \in Jobs |-> toEnd[k]]
      /\ snapshots \in [Snapshots -> Row] /\ resolutions \in [Resolutions -> ResolutionRow]
      /\ DOMAIN toClose[i] \subseteq Snapshots /\ DOMAIN toEnd[i] \subseteq Resolutions
  BY <1>1 DEF HistoryTypes, HistoryTypeOK, JobStates
<1>3. /\ Snapshot(i) \in Snapshots /\ At[i] \in Nat /\ At[i] # 0
  BY SnapshotType
<1>4. CASE CollectionFails(i) \/ Begin(i) \/ PersistFails(i) \/ Completes(i)
  <2>1. /\ job'[i] \notin Closing \cup {"resolutions"}
        /\ toClose'[i] = toClose[i] /\ toEnd'[i] = toEnd[i]
    BY <1>2, <1>4 DEF CollectionFails, Begin, PersistFails, Completes, Goes, Closing, reads
  <2>2. toClose[i] = Nothing /\ toEnd[i] = Nothing
    BY <1>1, <1>4 DEF SweepInv, CollectionFails, Begin, PersistFails, Completes,
                      Closing, Persisting
  <2> QED BY <2>1, <2>2, RestedSweep
<1>5. CASE CloseRefused(i) \/ CloseFails(i)
  <2>1. /\ job'[i] \notin Closing \cup {"resolutions"}
        /\ toClose'[i] = Nothing /\ toEnd'[i] = Nothing
    BY <1>2, <1>5 DEF CloseRefused, CloseFails, Goes, Forgets, Closing
  <2> QED BY <2>1, RestedSweep
<1>6. CASE UpsertSnapshot(i)
  <2>1. /\ job'[i] = "resolutions" /\ toClose'[i] = Nothing /\ toEnd'[i] = Nothing
    BY <1>1, <1>2, <1>6 DEF UpsertSnapshot, Goes, reads, SweepInv, Closing
  <2>2. snapshots'[Snapshot(i)].observed >= At[i]
    <3>1. snapshots[Snapshot(i)].observed \in Nat
      BY <1>2, <1>3 DEF Row
    <3>2. CASE At[i] > snapshots[Snapshot(i)].observed
      <4>1. snapshots' = [snapshots EXCEPT ![Snapshot(i)] = Collected(i)]
        BY <1>6, <3>2 DEF UpsertSnapshot, Newer
      <4>2. snapshots'[Snapshot(i)] = Collected(i)
        BY <4>1, <1>2, <1>3
      <4>3. Collected(i).observed = At[i]
        BY DEF Collected
      <4> QED BY <4>2, <4>3, <1>3
    <3>3. CASE ~(At[i] > snapshots[Snapshot(i)].observed)
      BY <1>3, <1>6, <3>1, <3>3 DEF UpsertSnapshot, Newer
    <3> QED BY <3>2, <3>3
  <2> QED BY <2>1, <2>2, NothingIsEmpty DEF SweepInv, Closing
<1>7. CASE UpsertResolutions(i)
  <2>1. /\ job'[i] = "finding" /\ toClose'[i] = Nothing /\ toEnd'[i] = Nothing
        /\ snapshots' = snapshots
    BY <1>1, <1>2, <1>7 DEF UpsertResolutions, Goes, reads, SweepInv, Closing
  <2>2. snapshots[Snapshot(i)].observed >= At[i]
    BY <1>1, <1>7 DEF UpsertResolutions, SweepInv
  <2> QED BY <2>1, <2>2, NothingIsEmpty DEF SweepInv, Closing
<1>8. CASE FindSuperseded(i)
  <2>1. /\ job'[i] = "closing" /\ toEnd'[i] = Nothing /\ UNCHANGED rows
        /\ snapshots[Snapshot(i)].observed >= At[i]
    BY <1>1, <1>2, <1>8 DEF FindSuperseded, Goes, SweepInv, Closing
  <2>2. PICK picked \in Limited(Superseded(i), MaxSuperseded) :
          toClose'[i] = [s \in picked |-> snapshots[s]]
    BY <1>2, <1>8 DEF FindSuperseded
  <2>3. \A s \in picked : s[1] = Service[i] /\ s # Snapshot(i) /\ Open(snapshots[s])
    BY LimitedFacts DEF Superseded
  <2> QED BY <2>1, <2>2, <2>3, NothingIsEmpty DEF SweepInv, Closing, rows, Open, Present
<1>9. CASE CloseSnapshot(i)
  <2>1. PICK s \in DOMAIN toClose[i] :
          /\ snapshots' = [snapshots EXCEPT ![s] = Closed(@, toClose[i][s], At[i])]
          /\ toClose' = [toClose EXCEPT ![i] = [x \in DOMAIN @ \ {s} |-> @[x]]]
          /\ owner' = [owner EXCEPT ![i] = s]
    BY <1>9 DEF CloseSnapshot
  <2>2. /\ s \in Snapshots /\ s # Snapshot(i) /\ Open(snapshots[s])
        /\ job'[i] = "resolving" /\ toEnd'[i] = Nothing
        /\ snapshots[Snapshot(i)].observed >= At[i]
    BY <1>1, <1>2, <1>9 DEF CloseSnapshot, Goes, SweepInv, Closing
  <2>3. /\ snapshots'[s].closed /\ snapshots'[s].until = At[i]
        /\ \A x \in Snapshots \ {s} : snapshots'[x] = snapshots[x]
    <3>1. /\ snapshots'[s] = Closed(snapshots[s], toClose[i][s], At[i])
          /\ \A x \in Snapshots \ {s} : snapshots'[x] = snapshots[x]
      BY <1>2, <2>1, <2>2
    <3>2. snapshots[s] \in Row
      BY <1>2, <2>2
    <3> QED BY <2>2, <3>1, <3>2 DEF Closed, Row
  <2>4. /\ toClose'[i] = [x \in DOMAIN toClose[i] \ {s} |-> toClose[i][x]]
        /\ owner'[i] = s
    BY <1>2, <2>1
  <2>5. \A x \in DOMAIN toClose'[i] :
          /\ x[1] = Service[i] /\ x # Snapshot(i)
          /\ toClose'[i][x] = snapshots'[x] /\ Open(snapshots'[x])
    BY <1>1, <1>2, <2>3, <2>4 DEF SweepInv
  <2>6. snapshots'[Snapshot(i)].observed >= At[i]
    BY <1>3, <2>2, <2>3
  <2> QED BY <2>2, <2>3, <2>4, <2>5, <2>6, NothingIsEmpty
          DEF SweepInv, Closing, Open, Present
<1>10. CASE FindResolutions(i)
  <2>1. /\ job'[i] = "closing" /\ toClose'[i] = toClose[i] /\ UNCHANGED rows
        /\ owner'[i] = owner[i]
        /\ snapshots[owner[i]].closed /\ snapshots[owner[i]].until = At[i]
        /\ snapshots[Snapshot(i)].observed >= At[i]
    BY <1>1, <1>2, <1>10 DEF FindResolutions, Goes, SweepInv, Closing
  <2>2. PICK picked \in Limited(OpenResolutionsOf(owner[i]), MaxClosed) :
          toEnd'[i] = [e \in picked |-> resolutions[e]]
    BY <1>2, <1>10 DEF FindResolutions
  <2>3. \A e \in picked : Open(resolutions[e]) /\ resolutions[e].owner = owner[i]
    BY LimitedFacts DEF OpenResolutionsOf
  <2>4. \A s \in DOMAIN toClose[i] :
          /\ s[1] = Service[i] /\ s # Snapshot(i)
          /\ toClose[i][s] = snapshots[s] /\ Open(snapshots[s])
    BY <1>1 DEF SweepInv
  <2> QED BY <2>1, <2>2, <2>3, <2>4 DEF SweepInv, Closing, rows, Open, Present
<1>11. CASE CloseResolution(i)
  <2>1. PICK e \in DOMAIN toEnd[i] :
          /\ resolutions' = [resolutions EXCEPT ![e] = Closed(@, toEnd[i][e], At[i])]
          /\ toEnd' = [toEnd EXCEPT ![i] = [x \in DOMAIN @ \ {e} |-> @[x]]]
    BY <1>11 DEF CloseResolution
  <2>2. /\ UNCHANGED <<snapshots, job, toClose, owner>> /\ job[i] = "closing"
    BY <1>11 DEF CloseResolution
  <2>3. /\ toEnd'[i] = [x \in DOMAIN toEnd[i] \ {e} |-> toEnd[i][x]]
        /\ \A x \in Resolutions \ {e} : resolutions'[x] = resolutions[x]
    BY <1>2, <2>1
  <2>4. \A x \in DOMAIN toEnd'[i] :
          /\ toEnd'[i][x] = resolutions'[x] /\ Open(resolutions'[x])
          /\ resolutions'[x].owner = owner[i]
    BY <1>1, <1>2, <2>3 DEF SweepInv
  <2>5. /\ snapshots[owner[i]].closed /\ snapshots[owner[i]].until = At[i]
        /\ snapshots[Snapshot(i)].observed >= At[i]
        /\ \A s \in DOMAIN toClose[i] :
             /\ s[1] = Service[i] /\ s # Snapshot(i)
             /\ toClose[i][s] = snapshots[s] /\ Open(snapshots[s])
    BY <1>1, <2>1, <2>2 DEF SweepInv, Closing
  <2> QED BY <2>2, <2>4, <2>5 DEF SweepInv, Closing, Open, Present
<1> QED
  BY <1>4, <1>5, <1>6, <1>7, <1>8, <1>9, <1>10, <1>11 DEF Persist, Close


-----------------------------------------------------------------------------
(* What each statement does to the rows                                    *)

LEMMA UpsertSnapshotEffect ==
  ASSUME HistoryInv, NEW i \in Jobs, UpsertSnapshot(i)
  PROVE  /\ resolutions' = resolutions
         /\ \/ snapshots' = snapshots
            \/ /\ At[i] > snapshots[Snapshot(i)].observed
               /\ \A x \in Snapshots \ {Snapshot(i)} : snapshots'[x] = snapshots[x]
               /\ snapshots'[Snapshot(i)].observed = At[i]
               /\ snapshots'[Snapshot(i)].from = At[i]
               /\ ~snapshots'[Snapshot(i)].closed /\ snapshots'[Snapshot(i)].intact
<1>1. snapshots \in [Snapshots -> Row] /\ Snapshot(i) \in Snapshots
  BY SnapshotType DEF HistoryInv, HistoryTypes, HistoryTypeOK
<1>2. CASE Newer(At[i], snapshots[Snapshot(i)])
  <2>1. /\ snapshots' = [snapshots EXCEPT ![Snapshot(i)] = Collected(i)]
        /\ resolutions' = resolutions
    BY <1>2 DEF UpsertSnapshot
  <2>2. /\ snapshots'[Snapshot(i)] = Collected(i)
        /\ \A x \in Snapshots \ {Snapshot(i)} : snapshots'[x] = snapshots[x]
    BY <1>1, <2>1
  <2> QED BY <1>2, <2>1, <2>2 DEF Newer, Collected
<1>3. CASE ~Newer(At[i], snapshots[Snapshot(i)])
  BY <1>3 DEF UpsertSnapshot
<1> QED BY <1>2, <1>3

LEMMA CloseSnapshotEffect ==
  ASSUME HistoryInv, NEW i \in Jobs, CloseSnapshot(i)
  PROVE  /\ resolutions' = resolutions
         /\ \E s \in Snapshots :
              /\ s[1] = Service[i] /\ s # Snapshot(i)
              /\ Open(snapshots[s]) /\ snapshots[s].from <= At[i]
              /\ \A x \in Snapshots \ {s} : snapshots'[x] = snapshots[x]
              /\ snapshots'[s].observed = snapshots[s].observed
              /\ snapshots'[s].from = snapshots[s].from
              /\ snapshots'[s].closed /\ snapshots'[s].intact
              /\ snapshots'[s].until = At[i]
<1>1. snapshots \in [Snapshots -> Row] /\ SweepInv(i) /\ DOMAIN toClose[i] \subseteq Snapshots
  BY DEF HistoryInv, HistoryTypes, HistoryTypeOK
<1>2. PICK s \in DOMAIN toClose[i] :
        /\ Coherent(toClose[i][s], At[i])
        /\ snapshots' = [snapshots EXCEPT ![s] = Closed(@, toClose[i][s], At[i])]
  BY DEF CloseSnapshot
<1>3. /\ s \in Snapshots /\ s[1] = Service[i] /\ s # Snapshot(i)
      /\ toClose[i][s] = snapshots[s] /\ Open(snapshots[s])
  BY <1>1 DEF SweepInv
<1>4. /\ snapshots'[s] = Closed(snapshots[s], snapshots[s], At[i])
      /\ \A x \in Snapshots \ {s} : snapshots'[x] = snapshots[x]
  BY <1>1, <1>2, <1>3
<1>5. At[i] >= snapshots[s].from
  BY <1>2, <1>3 DEF Coherent
<1>6. snapshots[s] \in Row /\ At[i] \in Nat
  BY <1>1, <1>3, SnapshotType
<1>7. /\ snapshots'[s].observed = snapshots[s].observed
      /\ snapshots'[s].from = snapshots[s].from
      /\ snapshots'[s].closed /\ snapshots'[s].intact
      /\ snapshots'[s].until = At[i]
  BY <1>3, <1>4, <1>6 DEF Closed, Row
<1>8. snapshots[s].from <= At[i]
  BY <1>5, <1>6 DEF Row
<1> QED BY <1>3, <1>4, <1>7, <1>8 DEF CloseSnapshot

LEMMA UpsertResolutionsEffect ==
  ASSUME HistoryInv, NEW i \in Jobs, UpsertResolutions(i)
  PROVE  /\ snapshots' = snapshots /\ snapshots[Snapshot(i)].observed >= At[i]
         /\ \A e \in Resolutions :
              \/ resolutions'[e] = resolutions[e]
              \/ /\ <<Snapshot(i), e>> \in Resolves
                 /\ resolutions'[e].owner = Snapshot(i)
                 /\ resolutions'[e].observed = At[i] /\ resolutions'[e].from = At[i]
                 /\ ~resolutions'[e].closed /\ resolutions'[e].intact
<1>1. SweepInv(i)
  BY DEF HistoryInv
<1>2. snapshots' = snapshots /\ snapshots[Snapshot(i)].observed >= At[i]
  BY <1>1 DEF SweepInv, UpsertResolutions
<1>3. ASSUME NEW e \in Resolutions,
             <<Snapshot(i), e>> \in Resolves, Newer(At[i], resolutions[e])
      PROVE  resolutions'[e] = Of(Snapshot(i), Collected(i))
  BY <1>3 DEF UpsertResolutions
<1>4. ASSUME NEW e \in Resolutions,
             ~(<<Snapshot(i), e>> \in Resolves /\ Newer(At[i], resolutions[e]))
      PROVE  resolutions'[e] = resolutions[e]
  BY <1>4 DEF UpsertResolutions
<1> QED BY <1>2, <1>3, <1>4 DEF Of, Collected

LEMMA CloseResolutionEffect ==
  ASSUME HistoryInv, NEW i \in Jobs, CloseResolution(i)
  PROVE  /\ snapshots' = snapshots
         /\ \E e \in Resolutions :
              /\ Open(resolutions[e]) /\ resolutions[e].from <= At[i]
              /\ \A x \in Resolutions \ {e} : resolutions'[x] = resolutions[x]
              /\ resolutions'[e].owner = resolutions[e].owner
              /\ resolutions'[e].observed = resolutions[e].observed
              /\ resolutions'[e].from = resolutions[e].from
              /\ resolutions'[e].closed /\ resolutions'[e].intact
              /\ resolutions'[e].until = At[i]
              /\ snapshots[resolutions[e].owner].closed
              /\ snapshots[resolutions[e].owner].until = At[i]
<1>1. /\ resolutions \in [Resolutions -> ResolutionRow] /\ SweepInv(i)
      /\ DOMAIN toEnd[i] \subseteq Resolutions
  BY DEF HistoryInv, HistoryTypes, HistoryTypeOK
<1>2. PICK e \in DOMAIN toEnd[i] :
        /\ Coherent(toEnd[i][e], At[i])
        /\ resolutions' = [resolutions EXCEPT ![e] = Closed(@, toEnd[i][e], At[i])]
  BY DEF CloseResolution
<1>3. /\ e \in Resolutions
      /\ toEnd[i][e] = resolutions[e] /\ Open(resolutions[e])
      /\ resolutions[e].owner = owner[i]
      /\ snapshots[owner[i]].closed /\ snapshots[owner[i]].until = At[i]
  BY <1>1 DEF SweepInv
<1>4. /\ resolutions'[e] = Closed(resolutions[e], resolutions[e], At[i])
      /\ \A x \in Resolutions \ {e} : resolutions'[x] = resolutions[x]
  BY <1>1, <1>2, <1>3
<1>5. At[i] >= resolutions[e].from
  BY <1>2, <1>3 DEF Coherent
<1>6. resolutions[e] \in ResolutionRow /\ At[i] \in Nat
  BY <1>1, <1>3, SnapshotType
<1>7. /\ resolutions'[e].owner = resolutions[e].owner
      /\ resolutions'[e].observed = resolutions[e].observed
      /\ resolutions'[e].from = resolutions[e].from
      /\ resolutions'[e].closed /\ resolutions'[e].intact
      /\ resolutions'[e].until = At[i]
  BY <1>3, <1>4, <1>6 DEF Closed, ResolutionRow
<1>8. resolutions[e].from <= At[i]
  BY <1>5, <1>6 DEF ResolutionRow
<1> QED BY <1>3, <1>4, <1>7, <1>8 DEF CloseResolution

LEMMA OtherStepsKeepRows ==
  ASSUME NEW i \in Jobs, Persist(i) \/ Close(i), ~UpsertSnapshot(i), ~UpsertResolutions(i),
         ~CloseSnapshot(i), ~CloseResolution(i)
  PROVE  UNCHANGED rows
BY DEF Persist, Close, CollectionFails, Begin, PersistFails, FindSuperseded,
       FindResolutions, Completes, CloseRefused, CloseFails, Forgets, rows

-----------------------------------------------------------------------------
(* Each statement keeps the rows coherent.                                 *)

LEMMA RowTypes ==
  ASSUME HistoryTypes
  PROVE  /\ \A s \in Snapshots :
              /\ snapshots[s].observed \in Nat /\ snapshots[s].from \in Nat
              /\ snapshots[s].until \in Nat
         /\ \A e \in Resolutions :
              /\ resolutions[e].owner \in Snapshots
              /\ resolutions[e].observed \in Nat /\ resolutions[e].from \in Nat
              /\ resolutions[e].until \in Nat
BY DEF HistoryTypes, HistoryTypeOK, Row, ResolutionRow

Coherence == RowsInv /\ HistoryIsCoherent

LEMMA UpsertSnapshotCoherent ==
  ASSUME HistoryInv, HistoryTypes', NEW i \in Jobs, UpsertSnapshot(i)
  PROVE  Coherence'
<1> DEFINE s == Snapshot(i)
<1>1. /\ resolutions' = resolutions
      /\ \/ snapshots' = snapshots
         \/ /\ At[i] > snapshots[s].observed
            /\ \A x \in Snapshots \ {s} : snapshots'[x] = snapshots[x]
            /\ snapshots'[s].observed = At[i]
            /\ snapshots'[s].from = At[i]
            /\ ~snapshots'[s].closed /\ snapshots'[s].intact
  BY UpsertSnapshotEffect
<1>2. /\ s \in Snapshots /\ s = Snapshot(i) /\ At[i] \in Nat /\ At[i] # 0
  BY SnapshotType
<1>3. RowsInv /\ NewestIsOpen /\ RowsReadable /\ ResolutionsFollowSnapshots
  BY DEF HistoryInv, HistoryIsCoherent
<1> HIDE DEF s
<1>4. CASE snapshots' = snapshots
  BY <1>1, <1>3, <1>4 DEF Coherence, RowsInv, HistoryIsCoherent, NewestIsOpen, RowsReadable,
                     ResolutionsFollowSnapshots, Dated, Present, Readable
<1>5. CASE snapshots' # snapshots
  <2>1. /\ At[i] > snapshots[s].observed
        /\ \A x \in Snapshots \ {s} : snapshots'[x] = snapshots[x]
        /\ snapshots'[s].observed = At[i]
        /\ snapshots'[s].from = At[i]
        /\ ~snapshots'[s].closed /\ snapshots'[s].intact
    BY <1>1, <1>5
  <2>2. /\ \A x \in Snapshots : snapshots[x].observed \in Nat /\ snapshots[x].from \in Nat
        /\ \A e \in Resolutions : resolutions[e].owner \in Snapshots /\ resolutions[e].observed \in Nat
    BY RowTypes DEF HistoryInv
  <2>3. RowsInv'
    <3>1. ASSUME NEW x \in Snapshots
          PROVE  /\ Dated(snapshots'[x])
                 /\ Present(snapshots'[x]) =>
                      \E j \in Jobs : Snapshot(j) = x /\ At[j] = snapshots'[x].observed
      <4>1. CASE x = s
        BY <1>2, <2>1, <4>1 DEF Dated, Present
      <4>2. CASE x # s
        <5>1. snapshots'[x] = snapshots[x]
          BY <2>1, <4>2
        <5> QED BY <5>1, <1>3 DEF RowsInv
      <4> QED BY <4>1, <4>2
    <3>2. ASSUME NEW e \in Resolutions, Present(resolutions[e])
          PROVE  resolutions[e].observed <= snapshots'[resolutions[e].owner].observed
      BY <1>2, <1>3, <2>1, <2>2, <3>2 DEF RowsInv
    <3> QED BY <1>1, <1>3, <3>1, <3>2 DEF RowsInv, Snapshot
  <2>4. NewestIsOpen'
    <3>1. \A x \in Snapshots : snapshots[x].from = snapshots[x].observed
      BY <1>3 DEF RowsInv, Dated
    <3> SUFFICES ASSUME NEW x \in Snapshots, Present(snapshots'[x]),
                        \A y \in Snapshots : y[1] = x[1] /\ Present(snapshots'[y]) =>
                           snapshots'[x].from >= snapshots'[y].from
                 PROVE  ~snapshots'[x].closed
      BY DEF NewestIsOpen
    <3>2. CASE x = s
      BY <2>1, <3>2
    <3>3. CASE x # s
      <4>1. snapshots'[x] = snapshots[x] /\ Present(snapshots[x])
        BY <2>1, <3>3
      <4>2. ASSUME NEW y \in Snapshots, y[1] = x[1], Present(snapshots[y])
            PROVE  snapshots[x].from >= snapshots[y].from
        <5>1. CASE y = s
          <6>1. Present(snapshots'[s])
            BY <1>2, <2>1 DEF Present
          <6>2. snapshots[x].from >= At[i]
            BY <2>1, <4>1, <4>2, <5>1, <6>1
          <6> QED BY <1>2, <2>1, <2>2, <3>1, <5>1, <6>2
        <5>2. CASE y # s
          BY <2>1, <4>1, <4>2, <5>2
        <5> QED BY <5>1, <5>2
      <4>3. ~snapshots[x].closed
        BY <1>3, <4>1, <4>2 DEF NewestIsOpen
      <4> QED BY <4>1, <4>3
    <3> QED BY <3>2, <3>3
  <2>5. RowsReadable'
    <3>1. ASSUME NEW x \in Snapshots PROVE Readable(snapshots'[x])
      BY <1>3, <2>1 DEF RowsReadable, Readable
    <3> QED BY <1>1, <1>3, <3>1 DEF RowsReadable
  <2>6. ResolutionsFollowSnapshots'
    <3> SUFFICES ASSUME NEW e \in Resolutions, resolutions[e].closed
                 PROVE  LET of == snapshots'[resolutions[e].owner]
                        IN  \/ of.closed /\ resolutions[e].until <= of.until
                            \/ resolutions[e].observed < of.observed
      BY <1>1 DEF ResolutionsFollowSnapshots
    <3>1. CASE resolutions[e].owner = s
      <4>1. Present(resolutions[e])
        BY <1>3 DEF RowsInv, Dated
      <4>2. resolutions[e].observed <= snapshots[s].observed
        BY <1>3, <3>1, <4>1 DEF RowsInv
      <4> QED BY <1>2, <2>1, <2>2, <3>1, <4>2
    <3>2. CASE resolutions[e].owner # s
      <4>1. snapshots'[resolutions[e].owner] = snapshots[resolutions[e].owner]
        BY <2>1, <2>2, <3>2
      <4> QED BY <1>3, <4>1 DEF ResolutionsFollowSnapshots
    <3> QED BY <3>1, <3>2
  <2> QED BY <2>3, <2>4, <2>5, <2>6 DEF Coherence, HistoryIsCoherent
<1> QED BY <1>4, <1>5

LEMMA CloseSnapshotCoherent ==
  ASSUME HistoryInv, HistoryTypes', NEW i \in Jobs, CloseSnapshot(i)
  PROVE  Coherence'
<1>1. PICK s \in Snapshots :
        /\ resolutions' = resolutions
        /\ s[1] = Service[i] /\ s # Snapshot(i)
        /\ Open(snapshots[s]) /\ snapshots[s].from <= At[i]
        /\ \A x \in Snapshots \ {s} : snapshots'[x] = snapshots[x]
        /\ snapshots'[s].observed = snapshots[s].observed
        /\ snapshots'[s].from = snapshots[s].from
        /\ snapshots'[s].closed /\ snapshots'[s].intact
        /\ snapshots'[s].until = At[i]
  BY CloseSnapshotEffect
<1>2. /\ Snapshot(i) \in Snapshots /\ Snapshot(i)[1] = Service[i]
      /\ At[i] \in Nat /\ At[i] # 0
  BY SnapshotType
<1>3. RowsInv /\ NewestIsOpen /\ RowsReadable /\ ResolutionsFollowSnapshots /\ SweepInv(i)
  BY DEF HistoryInv, HistoryIsCoherent
<1>4. /\ \A x \in Snapshots :
           /\ snapshots[x].observed \in Nat /\ snapshots[x].from \in Nat
           /\ snapshots[x].from = snapshots[x].observed
           /\ snapshots'[x].from = snapshots[x].from
           /\ snapshots'[x].observed = snapshots[x].observed
      /\ \A e \in Resolutions : resolutions[e].owner \in Snapshots
  BY <1>1, <1>3, RowTypes DEF HistoryInv, RowsInv, Dated
<1>5. snapshots[Snapshot(i)].observed >= At[i]
  BY <1>3 DEF SweepInv, CloseSnapshot, Closing
<1>6. RowsInv'
  <2>1. ASSUME NEW x \in Snapshots
        PROVE  /\ Dated(snapshots'[x])
               /\ Present(snapshots'[x]) =>
                    \E j \in Jobs : Snapshot(j) = x /\ At[j] = snapshots'[x].observed
    <3>1. Dated(snapshots'[x])
      BY <1>1, <1>3, <1>4 DEF RowsInv, Dated, Open, Present
    <3>2. Present(snapshots'[x]) =>
            \E j \in Jobs : Snapshot(j) = x /\ At[j] = snapshots'[x].observed
      BY <1>3, <1>4 DEF RowsInv, Present
    <3> QED BY <3>1, <3>2
  <2> QED BY <1>1, <1>3, <1>4, <2>1 DEF RowsInv, Snapshot
<1>7. NewestIsOpen'
  <2> SUFFICES ASSUME NEW x \in Snapshots, Present(snapshots'[x]),
                      \A y \in Snapshots : y[1] = x[1] /\ Present(snapshots'[y]) =>
                         snapshots'[x].from >= snapshots'[y].from
               PROVE  ~snapshots'[x].closed
    BY DEF NewestIsOpen
  <2>1. /\ Present(snapshots[x])
        /\ \A y \in Snapshots : y[1] = x[1] /\ Present(snapshots[y]) =>
             snapshots[x].from >= snapshots[y].from
    BY <1>4 DEF Present
  <2>2. ASSUME x = s PROVE FALSE
    <3>1. Present(snapshots[Snapshot(i)])
      BY <1>2, <1>4, <1>5 DEF Present
    <3>2. snapshots[s].from >= snapshots[Snapshot(i)].from
      BY <1>1, <1>2, <2>1, <2>2, <3>1
    <3>3. snapshots[s].observed = At[i]
      BY <1>1, <1>2, <1>4, <1>5, <3>2
    <3>4. PICK j \in Jobs : Snapshot(j) = s /\ At[j] = At[i]
      BY <1>3, <2>1, <2>2, <3>3 DEF RowsInv
    <3>5. Service[j] = Service[i]
      BY <1>1, <3>4, SnapshotType
    <3>6. Content[j] = Content[i]
      BY <3>4, <3>5, DistinctTimes
    <3> QED BY <1>1, <3>4, <3>5, <3>6 DEF Snapshot
  <2>3. snapshots'[x] = snapshots[x]
    BY <1>1, <2>2
  <2> QED BY <1>3, <2>1, <2>3 DEF NewestIsOpen
<1>8. RowsReadable'
  <2>1. ASSUME NEW x \in Snapshots PROVE Readable(snapshots'[x])
    BY <1>1, <1>2, <1>3, <1>4 DEF RowsReadable, Readable
  <2> QED BY <1>1, <1>3, <2>1 DEF RowsReadable
<1>9. ResolutionsFollowSnapshots'
  <2> SUFFICES ASSUME NEW e \in Resolutions, resolutions[e].closed
               PROVE  LET of == snapshots'[resolutions[e].owner]
                      IN  \/ of.closed /\ resolutions[e].until <= of.until
                          \/ resolutions[e].observed < of.observed
    BY <1>1 DEF ResolutionsFollowSnapshots
  <2>1. \/ /\ snapshots[resolutions[e].owner].closed
           /\ resolutions[e].until <= snapshots[resolutions[e].owner].until
        \/ resolutions[e].observed < snapshots[resolutions[e].owner].observed
    BY <1>3 DEF ResolutionsFollowSnapshots
  <2>2. CASE resolutions[e].owner = s
    BY <1>1, <2>1, <2>2 DEF Open
  <2>3. CASE resolutions[e].owner # s
    BY <1>1, <1>4, <2>1, <2>3
  <2> QED BY <2>2, <2>3
<1> QED BY <1>6, <1>7, <1>8, <1>9 DEF Coherence, HistoryIsCoherent

LEMMA UpsertResolutionsCoherent ==
  ASSUME HistoryInv, HistoryTypes', NEW i \in Jobs, UpsertResolutions(i)
  PROVE  Coherence'
<1>1. /\ snapshots' = snapshots /\ snapshots[Snapshot(i)].observed >= At[i]
      /\ \A e \in Resolutions :
           \/ resolutions'[e] = resolutions[e]
           \/ /\ resolutions'[e].owner = Snapshot(i)
              /\ resolutions'[e].observed = At[i] /\ resolutions'[e].from = At[i]
              /\ ~resolutions'[e].closed /\ resolutions'[e].intact
  BY UpsertResolutionsEffect
<1>2. /\ Snapshot(i) \in Snapshots /\ At[i] \in Nat /\ At[i] # 0
      /\ snapshots[Snapshot(i)].observed \in Nat
  BY SnapshotType, RowTypes DEF HistoryInv
<1>3. RowsInv /\ NewestIsOpen /\ RowsReadable /\ ResolutionsFollowSnapshots
  BY DEF HistoryInv, HistoryIsCoherent
<1>4. RowsInv'
  <2>1. ASSUME NEW e \in Resolutions
        PROVE  /\ Dated(resolutions'[e])
               /\ Present(resolutions'[e]) =>
                    resolutions'[e].observed <= snapshots[resolutions'[e].owner].observed
    <3>1. CASE resolutions'[e] = resolutions[e]
      BY <1>3, <3>1 DEF RowsInv
    <3>2. CASE resolutions'[e] # resolutions[e]
      <4>1. /\ resolutions'[e].owner = Snapshot(i)
            /\ resolutions'[e].observed = At[i] /\ resolutions'[e].from = At[i]
            /\ ~resolutions'[e].closed
        BY <1>1, <3>2
      <4> QED BY <1>1, <1>2, <4>1 DEF Dated, Present
    <3> QED BY <3>1, <3>2
  <2> QED BY <1>1, <1>3, <2>1 DEF RowsInv, Snapshot
<1>5. NewestIsOpen'
  BY <1>1, <1>3 DEF NewestIsOpen, Present
<1>6. RowsReadable'
  BY <1>1, <1>3 DEF RowsReadable, Readable
<1>7. ResolutionsFollowSnapshots'
  <2> SUFFICES ASSUME NEW e \in Resolutions, resolutions'[e].closed
               PROVE  LET of == snapshots[resolutions'[e].owner]
                      IN  \/ of.closed /\ resolutions'[e].until <= of.until
                          \/ resolutions'[e].observed < of.observed
    BY <1>1 DEF ResolutionsFollowSnapshots
  <2>1. resolutions'[e] = resolutions[e]
    BY <1>1
  <2> QED BY <1>3, <2>1 DEF ResolutionsFollowSnapshots
<1> QED BY <1>4, <1>5, <1>6, <1>7 DEF Coherence, HistoryIsCoherent

LEMMA CloseResolutionCoherent ==
  ASSUME HistoryInv, HistoryTypes', NEW i \in Jobs, CloseResolution(i)
  PROVE  Coherence'
<1>1. PICK e \in Resolutions :
        /\ snapshots' = snapshots
        /\ Open(resolutions[e]) /\ resolutions[e].from <= At[i]
        /\ \A x \in Resolutions \ {e} : resolutions'[x] = resolutions[x]
        /\ resolutions'[e].owner = resolutions[e].owner
        /\ resolutions'[e].observed = resolutions[e].observed
        /\ resolutions'[e].from = resolutions[e].from
        /\ resolutions'[e].closed /\ resolutions'[e].intact
        /\ resolutions'[e].until = At[i]
        /\ snapshots[resolutions[e].owner].closed
        /\ snapshots[resolutions[e].owner].until = At[i]
  BY CloseResolutionEffect
<1>2. At[i] \in Nat /\ At[i] # 0 /\ resolutions[e].from \in Nat
  BY SnapshotType, RowTypes DEF HistoryInv
<1>3. RowsInv /\ NewestIsOpen /\ RowsReadable /\ ResolutionsFollowSnapshots
  BY DEF HistoryInv, HistoryIsCoherent
<1>4. RowsInv'
  <2>1. ASSUME NEW x \in Resolutions
        PROVE  /\ Dated(resolutions'[x])
               /\ Present(resolutions'[x]) =>
                    resolutions'[x].observed <= snapshots[resolutions'[x].owner].observed
    BY <1>1, <1>3 DEF RowsInv, Dated, Open, Present
  <2> QED BY <1>1, <1>3, <2>1 DEF RowsInv, Snapshot
<1>5. NewestIsOpen'
  BY <1>1, <1>3 DEF NewestIsOpen, Present
<1>6. RowsReadable'
  <2>1. ASSUME NEW x \in Resolutions PROVE Readable(resolutions'[x])
    BY <1>1, <1>2, <1>3 DEF RowsReadable, Readable
  <2> QED BY <1>1, <1>3, <2>1 DEF RowsReadable
<1>7. ResolutionsFollowSnapshots'
  <2> SUFFICES ASSUME NEW x \in Resolutions, resolutions'[x].closed
               PROVE  LET of == snapshots[resolutions'[x].owner]
                      IN  \/ of.closed /\ resolutions'[x].until <= of.until
                          \/ resolutions'[x].observed < of.observed
    BY <1>1 DEF ResolutionsFollowSnapshots
  <2>1. CASE x = e
    BY <1>1, <1>2, <2>1
  <2>2. CASE x # e
    <3>1. resolutions'[x] = resolutions[x]
      BY <1>1, <2>2
    <3> QED BY <1>3, <3>1 DEF ResolutionsFollowSnapshots
  <2> QED BY <2>1, <2>2
<1> QED BY <1>4, <1>5, <1>6, <1>7 DEF Coherence, HistoryIsCoherent

LEMMA RowsKeptCoherent ==
  ASSUME HistoryInv, UNCHANGED rows
  PROVE  Coherence'
<1>1. snapshots' = snapshots /\ resolutions' = resolutions
  BY DEF rows
<1>2. RowsInv /\ NewestIsOpen /\ RowsReadable /\ ResolutionsFollowSnapshots
  BY DEF HistoryInv, HistoryIsCoherent
<1>3. RowsInv'
  BY <1>1, <1>2 DEF RowsInv, Dated, Present, Snapshot
<1>4. NewestIsOpen' /\ RowsReadable' /\ ResolutionsFollowSnapshots'
  BY <1>1, <1>2 DEF NewestIsOpen, RowsReadable, ResolutionsFollowSnapshots, Present, Readable
<1> QED BY <1>3, <1>4 DEF Coherence, HistoryIsCoherent

-----------------------------------------------------------------------------
LEMMA StoppedSweeps ==
  ASSUME HistoryInv, Stop, NEW j \in Jobs
  PROVE  SweepInv(j)'
<1>1. job'[j] \notin Closing \cup {"resolutions"}
  BY DEF Stop, InProgress, Persisting, Closing
<1>2. toClose'[j] = Nothing /\ toEnd'[j] = Nothing
  BY DEF Stop
<1> QED BY <1>1, <1>2, RestedSweep

LEMMA HistoryInvStep ==
  ASSUME MaxWorkers = 1, HistoryInv, [Next]_vars
  PROVE  HistoryInv'
<1>1. HistoryTypes' /\ Alone'
  BY StepKeepsTypes, StepKeepsAlone DEF HistoryInv
<1>2. ASSUME NEW i \in Jobs, Persist(i) \/ Close(i)
      PROVE  Coherence' /\ \A j \in Jobs : SweepInv(j)'
  <2>1. \A j \in Jobs : SweepInv(j)'
    BY <1>1, <1>2, OwnSweep, OthersSweeps
  <2>2. Coherence'
    BY <1>1, <1>2, UpsertSnapshotCoherent, UpsertResolutionsCoherent, CloseSnapshotCoherent,
       CloseResolutionCoherent, OtherStepsKeepRows, RowsKeptCoherent
  <2> QED BY <2>1, <2>2
<1>3. CASE Stop
  <2>1. UNCHANGED rows
    BY <1>3 DEF Stop
  <2> QED BY <1>1, <1>3, <2>1, StoppedSweeps, RowsKeptCoherent DEF HistoryInv, Coherence
<1>4. CASE UNCHANGED vars
  <2>1. \A j \in Jobs : SweepInv(j)'
    BY <1>4, SweepKept DEF HistoryInv, vars, reads
  <2> QED BY <1>1, <1>4, <2>1, RowsKeptCoherent DEF HistoryInv, Coherence, vars
<1> QED BY <1>1, <1>2, <1>3, <1>4 DEF Next, HistoryInv, Coherence

(* One worker keeps the history coherent, in whatever order lockfiles      *)
(* arrive, whatever the limits are, and wherever an ingestion fails or is  *)
(* interrupted.  With two it does not: see the run snapshot_race.          *)
THEOREM HistoryIsCoherentHolds ==
  ASSUME MaxWorkers = 1
  PROVE  Spec => []HistoryIsCoherent
<1>1. HistoryInv /\ [Next]_vars => HistoryInv'
  BY HistoryInvStep
<1>2. HistoryInv => HistoryIsCoherent
  BY DEF HistoryInv
<1> QED BY HistoryInvInit, <1>1, <1>2, PTL DEF Spec


-----------------------------------------------------------------------------
(* Searching a list of places: the first that is there.                    *)

(* A set of natural numbers has a least element.                           *)
LEMMA LeastNumber ==
  ASSUME NEW T, T \subseteq Nat, T # {}
  PROVE  \E x \in T : \A y \in T : x <= y
<1>1. IsWellFoundedOn(OpToRel(<, Nat), Nat)
  BY NatLessThanWellFounded
<1>2. PICK x \in T : \A y \in T : ~(<<y, x>> \in OpToRel(<, Nat))
  BY <1>1, WFMin
<1>3. \A y \in T : ~(y < x)
  BY <1>2 DEF OpToRel
<1> QED BY <1>3

(* The result of resolveDependencyPath is the first place of its search    *)
(* path that has an entry.                                                 *)
LEMMA ResolvedIsFirst ==
  ASSUME NEW lock, NEW path, NEW name, Resolved(lock, path, name) # None,
         Len(SearchPath(lock, path, name)) \in Nat
  PROVE  \E k \in 1..Len(SearchPath(lock, path, name)) :
           /\ Resolved(lock, path, name) = SearchPath(lock, path, name)[k]
           /\ SearchPath(lock, path, name)[k] \in Paths(lock)
           /\ \A m \in 1..(k - 1) : SearchPath(lock, path, name)[m] \notin Paths(lock)
<1> DEFINE search == SearchPath(lock, path, name)
           I == {n \in 1..Len(search) : search[n] \in Paths(lock)}
           first == IF I # {} THEN Min(I) ELSE 0
<1>1. Resolved(lock, path, name) = IF first = 0 THEN None ELSE search[first]
  BY DEF Resolved, SelectInSeq
<1>2. I # {} /\ first = Min(I)
  BY <1>1
<1>3. I \subseteq Nat
  OBVIOUS
<1>4. \E x \in I : \A y \in I : x <= y
  <2> HIDE DEF I
  <2> QED BY <1>2, <1>3, LeastNumber
<1>5. Min(I) = CHOOSE x \in I : \A y \in I : x <= y
  BY DEF Min
<1>6. first \in I /\ \A y \in I : first <= y
  <2> HIDE DEF I, first
  <2> QED BY <1>2, <1>4, <1>5
<1>7. first \in 1..Len(search) /\ search[first] \in Paths(lock)
  <2> HIDE DEF first
  <2> QED BY <1>6
<1>8. \A m \in 1..(first - 1) : search[m] \notin Paths(lock)
  <2> HIDE DEF first, search
  <2> QED BY <1>6, <1>7
<1>9. Resolved(lock, path, name) = search[first]
  <2> HIDE DEF first, search
  <2> QED BY <1>1, <1>7
<1> HIDE DEF first
<1> QED BY <1>7, <1>8, <1>9

(* The places around a directory, the directory itself first.              *)
LEMMA CandidatesFacts ==
  ASSUME NEW path \in Seq(STRING), NEW name
  PROVE  /\ Len(path) \in Nat
         /\ Candidates(path, name) = [n \in 1..(Len(path) + 1) |->
                                         Inside(Above(path, Len(path) + 1 - n), name)]
         /\ Candidates(path, name) \in
              Seq({Inside(Above(path, m), name) : m \in 0..Len(path)})
         /\ Len(Candidates(path, name)) = Len(path) + 1
         /\ \A n \in 1..(Len(path) + 1) :
              Candidates(path, name)[n] = Inside(Above(path, Len(path) + 1 - n), name)
<1>1. Len(path) \in Nat
  OBVIOUS
<1>2. Candidates(path, name) = [n \in 1..(Len(path) + 1) |->
                                   Inside(Above(path, Len(path) + 1 - n), name)]
  BY DEF Candidates
<1> DEFINE S == {Inside(Above(path, m), name) : m \in 0..Len(path)}
<1>3. \A n \in 1..(Len(path) + 1) : Inside(Above(path, Len(path) + 1 - n), name) \in S
  <2>1. \A n \in 1..(Len(path) + 1) : Len(path) + 1 - n \in 0..Len(path)
    BY <1>1
  <2> QED BY <2>1
<1> HIDE DEF S
<1>4. /\ Candidates(path, name) \in Seq(S)
      /\ Len(Candidates(path, name)) = Len(path) + 1
  BY <1>1, <1>2, <1>3
<1> QED BY <1>1, <1>2, <1>4 DEF S

(* What the search from a directory upwards finds first is what Node.js    *)
(* would load from there.                                                  *)
LEMMA FirstIsNearest ==
  ASSUME NEW lock, NEW path \in Seq(STRING), NEW name, NEW k \in 1..(Len(path) + 1),
         Candidates(path, name)[k] \in Paths(lock),
         \A m \in 1..(k - 1) : Candidates(path, name)[m] \notin Paths(lock)
  PROVE  Nearest(lock, path, name, Candidates(path, name)[k])
<1> DEFINE n == Len(path) + 1 - k
<1>1. n \in 0..Len(path) /\ Len(path) \in Nat
  OBVIOUS
<1>2. Candidates(path, name)[k] = Inside(Above(path, n), name)
  BY CandidatesFacts
<1>3. ASSUME NEW m \in (n + 1)..Len(path)
      PROVE  Inside(Above(path, m), name) \notin Paths(lock)
  <2>1. /\ Len(path) + 1 - m \in 1..(k - 1) /\ Len(path) + 1 - m \in 1..(Len(path) + 1)
        /\ Len(path) + 1 - (Len(path) + 1 - m) = m
    BY <1>1, <1>3
  <2>2. Candidates(path, name)[Len(path) + 1 - m] = Inside(Above(path, m), name)
    BY <2>1, CandidatesFacts
  <2> QED BY <2>1, <2>2
<1> QED BY <1>1, <1>2, <1>3 DEF Nearest

LEMMA NoneIsNowhere ==
  ASSUME NEW lock, NEW path \in Seq(STRING), NEW name,
         \A m \in 1..(Len(path) + 1) : Candidates(path, name)[m] \notin Paths(lock)
  PROVE  Nowhere(lock, path, name)
<1> SUFFICES ASSUME NEW n \in 0..Len(path)
             PROVE  Inside(Above(path, n), name) \notin Paths(lock)
  BY DEF Nowhere
<1>1. /\ Len(path) + 1 - n \in 1..(Len(path) + 1)
      /\ Len(path) + 1 - (Len(path) + 1 - n) = n
  OBVIOUS
<1>2. Candidates(path, name)[Len(path) + 1 - n] = Inside(Above(path, n), name)
  BY <1>1, CandidatesFacts
<1> QED BY <1>1, <1>2

(* Whatever a lockfile's tree is, a dependency resolves to what Node.js    *)
(* would load, or Node.js would find nothing and the package is linked.    *)
LEMMA ResolvedLoads ==
  ASSUME NEW lock, NEW path \in Seq(STRING), Real(lock, path) \in Seq(STRING), NEW name,
         Resolved(lock, path, name) # None
  PROVE  \/ Loads(lock, path, name, Resolved(lock, path, name))
         \/ Unloadable(lock, path, name) /\ Real(lock, path) # path
<1> DEFINE real == Real(lock, path)
           below == Candidates(real, name)
           around == Candidates(path, name)
<1>1. /\ Len(real) \in Nat /\ Len(path) \in Nat
      /\ Len(below) = Len(real) + 1 /\ Len(around) = Len(path) + 1
      /\ \E S : below \in Seq(S) /\ around \in Seq(S)
  <2>1. PICK S, T : below \in Seq(S) /\ around \in Seq(T)
    BY CandidatesFacts
  <2>2. below \in Seq(S \cup T) /\ around \in Seq(S \cup T)
    <3> HIDE DEF below, around
    <3> QED BY <2>1
  <2>3. /\ Len(real) \in Nat /\ Len(path) \in Nat
        /\ Len(below) = Len(real) + 1 /\ Len(around) = Len(path) + 1
    BY CandidatesFacts
  <2> HIDE DEF below, around, real
  <2> QED BY <2>2, <2>3
<1>2. SearchPath(lock, path, name) = below \o around
  BY DEF SearchPath
<1> HIDE DEF below, around, real
<1>3. /\ Len(below \o around) = Len(real) + Len(path) + 2
      /\ \A n \in 1..(Len(real) + 1) : (below \o around)[n] = below[n]
      /\ \A n \in 1..(Len(path) + 1) : (below \o around)[Len(real) + 1 + n] = around[n]
  <2>1. /\ Len(below \o around) = Len(below) + Len(around)
        /\ \A n \in 1..(Len(below) + Len(around)) :
             (below \o around)[n] = IF n <= Len(below) THEN below[n]
                                     ELSE around[n - Len(below)]
    BY <1>1, ConcatProperties
  <2>2. \A n \in 1..(Len(real) + 1) :
          n \in 1..(Len(below) + Len(around)) /\ n <= Len(below)
    BY <1>1
  <2>3. Len(below \o around) = Len(real) + Len(path) + 2
    BY <1>1, <2>1
  <2>4. \A n \in 1..(Len(real) + 1) : (below \o around)[n] = below[n]
    BY <2>1, <2>2
  <2>5. \A n \in 1..(Len(path) + 1) : (below \o around)[Len(real) + 1 + n] = around[n]
    <3> SUFFICES ASSUME NEW n \in 1..(Len(path) + 1)
                 PROVE  (below \o around)[Len(real) + 1 + n] = around[n]
      OBVIOUS
    <3> DEFINE p == Len(real) + 1 + n
    <3>1. /\ p \in 1..(Len(below) + Len(around)) /\ ~(p <= Len(below))
          /\ p - Len(below) = n
      BY <1>1
    <3> HIDE DEF p
    <3>2. (below \o around)[p] = around[n]
      BY <2>1, <3>1
    <3> QED BY <3>2 DEF p
  <2> QED BY <2>3, <2>4, <2>5
<1>4. PICK k \in 1..(Len(real) + Len(path) + 2) :
        /\ Resolved(lock, path, name) = (below \o around)[k]
        /\ (below \o around)[k] \in Paths(lock)
        /\ \A m \in 1..(k - 1) : (below \o around)[m] \notin Paths(lock)
  <2>1. Len(SearchPath(lock, path, name)) = Len(real) + Len(path) + 2
    BY <1>2, <1>3
  <2>2. Len(SearchPath(lock, path, name)) \in Nat
    BY <1>1, <2>1
  <2>3. \E k \in 1..Len(SearchPath(lock, path, name)) :
           /\ Resolved(lock, path, name) = SearchPath(lock, path, name)[k]
           /\ SearchPath(lock, path, name)[k] \in Paths(lock)
           /\ \A m \in 1..(k - 1) : SearchPath(lock, path, name)[m] \notin Paths(lock)
    BY <2>2, ResolvedIsFirst
  <2> QED BY <1>2, <2>1, <2>3
<1>5. CASE k <= Len(real) + 1
  <2>1. /\ k \in 1..(Len(real) + 1) /\ Resolved(lock, path, name) = below[k]
        /\ below[k] \in Paths(lock)
        /\ \A m \in 1..(k - 1) : below[m] \notin Paths(lock)
    BY <1>1, <1>3, <1>4, <1>5
  <2>2. Nearest(lock, real, name, below[k])
    BY <2>1, FirstIsNearest DEF below, real
  <2> QED BY <2>1, <2>2 DEF Loads, real
<1>6. CASE k > Len(real) + 1
  <2> DEFINE n == k - (Len(real) + 1)
  <2>1. n \in 1..(Len(path) + 1) /\ Len(real) + 1 + n = k
    BY <1>1, <1>6
  <2>2. Resolved(lock, path, name) = around[n] /\ around[n] \in Paths(lock)
    <3> HIDE DEF n
    <3> QED BY <1>3, <1>4, <2>1
  <2>3. \A m \in 1..(Len(real) + 1) : below[m] \notin Paths(lock)
    <3> SUFFICES ASSUME NEW m \in 1..(Len(real) + 1) PROVE below[m] \notin Paths(lock)
      OBVIOUS
    <3>1. m \in 1..(k - 1)
      BY <1>1, <1>6
    <3> QED BY <1>3, <1>4, <3>1
  <2> HIDE DEF n
  <2>4. real # path
    <3>1. real = path => below = around
      BY DEF below, around, real
    <3> QED BY <2>1, <2>2, <2>3, <3>1
  <2>5. Nowhere(lock, real, name)
    BY <2>3, NoneIsNowhere DEF below, real
  <2> QED BY <2>4, <2>5 DEF Unloadable, real
<1> QED BY <1>1, <1>4, <1>5, <1>6

(* What Node.js would find is found.                                       *)
LEMMA LoadableIsResolved ==
  ASSUME NEW lock, None \notin Paths(lock),
         NEW path \in Seq(STRING), Real(lock, path) \in Seq(STRING), NEW name,
         ~Unloadable(lock, path, name)
  PROVE  Resolved(lock, path, name) # None
<1> DEFINE real == Real(lock, path)
           below == Candidates(real, name)
           around == Candidates(path, name)
           search == SearchPath(lock, path, name)
           I == {n \in 1..Len(search) : search[n] \in Paths(lock)}
           first == IF I # {} THEN Min(I) ELSE 0
<1>1. /\ Len(real) \in Nat /\ Len(path) \in Nat
      /\ Len(below) = Len(real) + 1 /\ Len(around) = Len(path) + 1
  BY CandidatesFacts
<1>2. \E S : below \in Seq(S) /\ around \in Seq(S)
  <2>1. PICK S, T : below \in Seq(S) /\ around \in Seq(T)
    BY CandidatesFacts
  <2>2. below \in Seq(S \cup T) /\ around \in Seq(S \cup T)
    <3> HIDE DEF below, around
    <3> QED BY <2>1
  <2> QED BY <2>2
<1>3. search = below \o around
  BY DEF SearchPath
<1>4. PICK n \in 0..Len(real) : Inside(Above(real, n), name) \in Paths(lock)
  BY DEF Unloadable, Nowhere
<1> DEFINE k == Len(real) + 1 - n
<1>5. k \in 1..(Len(real) + 1) /\ Len(real) + 1 - k = n
  BY <1>1
<1>6. below[k] = Inside(Above(real, n), name)
  <2> HIDE DEF k
  <2> QED BY <1>5, CandidatesFacts
<1>7. k \in I
  <2> HIDE DEF below, around, real, k, search
  <2>0. PICK S : below \in Seq(S) /\ around \in Seq(S)
    BY <1>2
  <2>1. /\ Len(below \o around) = Len(below) + Len(around)
        /\ k \in 1..Len(below) /\ k \in 1..(Len(below) + Len(around)) /\ k <= Len(below)
        /\ \A x \in 1..(Len(below) + Len(around)) :
             (below \o around)[x] = IF x <= Len(below) THEN below[x]
                                     ELSE around[x - Len(below)]
    <3>1. k \in 1..Len(below) /\ k \in 1..(Len(below) + Len(around)) /\ k <= Len(below)
      BY <1>1, <1>5
    <3> QED BY <2>0, <3>1, ConcatProperties
  <2>2. (below \o around)[k] = below[k]
    BY <2>1
  <2> QED BY <1>3, <1>4, <1>6, <2>1, <2>2
<1>8. first \in I
  <2>1. I \subseteq Nat /\ I # {}
    <3>1. I \subseteq Nat
      OBVIOUS
    <3> HIDE DEF I, k
    <3> QED BY <1>7, <3>1
  <2>2. Min(I) = CHOOSE x \in I : \A y \in I : x <= y
    BY DEF Min
  <2>3. first = Min(I)
    <3> HIDE DEF I
    <3> QED BY <2>1
  <2> HIDE DEF I, first
  <2> QED BY <2>1, <2>2, <2>3, LeastNumber
<1>9. first # 0 /\ search[first] \in Paths(lock)
  <2> HIDE DEF first, search
  <2> QED BY <1>8
<1>10. Resolved(lock, path, name) = IF first = 0 THEN None ELSE search[first]
  BY DEF Resolved, SelectInSeq
<1> HIDE DEF first, search
<1> QED BY <1>9, <1>10


-----------------------------------------------------------------------------
(* Accepted lockfiles                                                      *)

LEMMA AcceptedPaths ==
  ASSUME NEW c \in Contents, Accepted(Lockfile[c]), NEW path \in Paths(Lockfile[c])
  PROVE  path \in Seq(STRING) /\ Real(Lockfile[c], path) \in Seq(STRING)
BY LockfileAssumption DEF Accepted, WellFormed, LinksEnd

LEMMA ResolvesFacts ==
  ASSUME NEW s \in Snapshots, NEW e
  PROVE  <<s, e>> \in Resolves <=> e \in DependsOn(s[1], Lockfile[s[2]])
BY DEF Resolves

LEMMA ResolutionsFacts ==
  ASSUME NEW s, NEW e, <<s, e>> \in Resolves
  PROVE  s \in Snapshots /\ e \in Resolutions
<1>1. s \in Snapshots
  BY DEF Resolves
<1>2. <<s, e>>[2] \in Resolutions
  BY DEF Resolutions
<1> QED BY <1>1, <1>2

(* The edges of a lockfile lead to what Node.js would load, or to what it  *)
(* would not find behind a link.                                           *)
LEMMA EdgesLoad ==
  ASSUME NEW s, NEW e, <<s, e>> \in Resolves
  PROVE  <<s, e>> \in Loaded \cup Unfound
<1>1. s \in Snapshots /\ e \in Resolutions
  BY ResolutionsFacts
<1> DEFINE lock == Lockfile[s[2]]
<1>2. s[2] \in Contents
  BY <1>1 DEF Snapshots
<1>3. e \in DependsOn(s[1], lock)
  BY <1>1, ResolvesFacts
<1>4. Accepted(lock)
  BY <1>3 DEF DependsOn
<1>5a. PICK path \in Paths(lock) :
         \E name : /\ name \in Declared(lock, path) /\ Resolved(lock, path, name) # None
                   /\ e = Edge(s[1], lock, path, name)
  <2> HIDE DEF lock
  <2> QED BY <1>3, <1>4 DEF DependsOn
<1>5. PICK name : /\ name \in Declared(lock, path) /\ Resolved(lock, path, name) # None
                  /\ e = Edge(s[1], lock, path, name)
  BY <1>5a
<1>6. path \in Seq(STRING) /\ Real(lock, path) \in Seq(STRING)
  BY <1>2, <1>4, AcceptedPaths
<1>7. \/ Loads(lock, path, name, Resolved(lock, path, name))
      \/ Unloadable(lock, path, name) /\ Real(lock, path) # path
  <2> HIDE DEF lock
  <2> QED BY <1>5, <1>6, ResolvedLoads
<1>8. e.from = path /\ e.name = name /\ e.to = Resolved(lock, path, name)
  <2> HIDE DEF lock
  <2> QED BY <1>5 DEF Edge
<1>9. Declares(s, e)
  <2> QED BY <1>5, <1>8 DEF Declares
<1>10. CASE Loads(lock, path, name, Resolved(lock, path, name))
  <2>1. e \in {x \in Resolutions : Declares(s, x) /\ Loads(lock, x.from, x.name, x.to)}
    <3> HIDE DEF lock
    <3> QED BY <1>1, <1>8, <1>9, <1>10
  <2> QED BY <1>1, <2>1 DEF Loaded
<1>11. CASE Unloadable(lock, path, name) /\ Real(lock, path) # path
  <2>1. e \in {x \in Resolutions : /\ Declares(s, x) /\ Real(lock, x.from) # x.from
                                   /\ Unloadable(lock, x.from, x.name)}
    <3> HIDE DEF lock
    <3> QED BY <1>1, <1>8, <1>9, <1>11
  <2> QED BY <1>1, <2>1 DEF Unfound
<1> QED BY <1>7, <1>10, <1>11

(* Every declared dependency that Node.js would find has an edge.          *)
Findable(lock, path) == {x \in Declared(lock, path) : ~Unloadable(lock, path, x)}

LEMMA RequirementsAreMet ==
  ASSUME NEW r \in Requirements
  PROVE  /\ r[1] \in Snapshots
         /\ \E e \in r[2] : <<r[1], e>> \in Resolves
<1>1. PICK s \in Services \X Collectable :
        \E path \in Paths(Lockfile[s[2]]) : \E name \in Findable(Lockfile[s[2]], path) :
           r = <<s, Answers(s, path, name)>>
  BY DEF Requirements, Findable
<1> DEFINE lock == Lockfile[s[2]]
<1>2a. PICK path \in Paths(lock) :
         \E name \in Findable(lock, path) : r = <<s, Answers(s, path, name)>>
  BY <1>1
<1>2. PICK name : name \in Findable(lock, path) /\ r = <<s, Answers(s, path, name)>>
  BY <1>2a
<1>3. s \in Snapshots /\ Accepted(lock)
  <2>1. \A c \in Collectable : c \in Contents /\ Accepted(Lockfile[c])
    BY DEF Collectable, Snapshots
  <2>2. s[1] \in Services /\ s[2] \in Collectable /\ s = <<s[1], s[2]>>
    OBVIOUS
  <2> QED BY <2>1, <2>2 DEF Snapshots
<1> DEFINE e == Edge(s[1], lock, path, name)
<1>4. /\ name \in Declared(lock, path) /\ Resolved(lock, path, name) # None
      /\ Loads(lock, path, name, Resolved(lock, path, name))
  <2>1. /\ name \in Declared(lock, path) /\ ~Unloadable(lock, path, name)
        /\ s[2] \in Contents
    BY <1>2, <1>3 DEF Findable, Snapshots
  <2>2. /\ path \in Seq(STRING) /\ Real(lock, path) \in Seq(STRING)
        /\ None \notin Paths(lock)
    BY <1>3, <2>1, AcceptedPaths, LockfileAssumption
  <2> HIDE DEF lock
  <2> QED BY <2>1, <2>2, LoadableIsResolved, ResolvedLoads
<1>5. e \in DependsOn(s[1], lock)
  <2> HIDE DEF lock
  <2> DEFINE pairs == {p \in Paths(lock) \X UNION {Declared(lock, q) : q \in Paths(lock)} :
                         p[2] \in Declared(lock, p[1]) /\ Resolved(lock, p[1], p[2]) # None}
  <2>1. <<path, name>> \in pairs
    BY <1>2, <1>4
  <2>2. DependsOn(s[1], lock) = {Edge(s[1], lock, d[1], d[2]) : d \in pairs}
    BY <1>3 DEF DependsOn
  <2> HIDE DEF pairs
  <2>3. Edge(s[1], lock, <<path, name>>[1], <<path, name>>[2]) \in DependsOn(s[1], lock)
    BY <2>1, <2>2
  <2> QED BY <2>3
<1>6. <<s, e>> \in Resolves
  BY <1>3, <1>5, ResolvesFacts
<1>7. e \in Resolutions
  BY <1>6, ResolutionsFacts
<1>8. /\ e.from = path /\ e.name = name /\ e.source = Node(s[1], lock, path)
      /\ e.to = Resolved(lock, path, name)
  BY DEF Edge
<1>9. e \in Answers(s, path, name)
  <2> HIDE DEF e
  <2> QED BY <1>4, <1>7, <1>8 DEF Answers
<1> HIDE DEF e
<1> QED BY <1>2, <1>3, <1>6, <1>9

-----------------------------------------------------------------------------
(* What the rows of DEPENDS_ON say, for any number of workers              *)

(* A row belongs to a snapshot whose lockfile has that edge, and an        *)
(* ingestion that has persisted leaves each of its edges at least as new   *)
(* as itself.                                                              *)
DependInv ==
  /\ \A e \in Resolutions :
       Present(resolutions[e]) => <<resolutions[e].owner, e>> \in Resolves
  /\ \A i \in Jobs : job[i] \in Closing \cup {"completed"} =>
       \A e \in Resolutions :
         <<Snapshot(i), e>> \in Resolves => resolutions[e].observed >= At[i]

LEMMA DependInit == Init => DependInv
<1> SUFFICES ASSUME Init PROVE DependInv
  OBVIOUS
<1>1. \A e \in Resolutions : resolutions[e].observed = 0
  BY DEF Init, Absent, Of
<1>2. \A i \in Jobs : job[i] = "new"
  BY DEF Init
<1> QED BY <1>1, <1>2 DEF DependInv, Present, Closing

(* A step leaves a row as it was, ends it, or moves it to a newer snapshot *)
(* that has the edge too.                                                  *)
LEMMA ResolutionStep ==
  ASSUME HistoryTypes, [Next]_vars, NEW e \in Resolutions
  PROVE  \/ /\ resolutions'[e].owner = resolutions[e].owner
            /\ resolutions'[e].observed = resolutions[e].observed
         \/ \E i \in Jobs : /\ <<Snapshot(i), e>> \in Resolves
                            /\ resolutions'[e].owner = Snapshot(i)
                            /\ resolutions'[e].observed = At[i]
                            /\ At[i] > resolutions[e].observed
<1>1. resolutions \in [Resolutions -> ResolutionRow]
  BY DEF HistoryTypes, HistoryTypeOK
<1>2. ASSUME NEW i \in Jobs, UpsertResolutions(i),
             <<Snapshot(i), e>> \in Resolves, Newer(At[i], resolutions[e])
      PROVE  /\ resolutions'[e].owner = Snapshot(i) /\ resolutions'[e].observed = At[i]
             /\ At[i] > resolutions[e].observed
  <2>1. resolutions'[e] = Of(Snapshot(i), Collected(i))
    BY <1>2 DEF UpsertResolutions
  <2> QED BY <1>2, <2>1 DEF Of, Collected, Newer
<1>3. ASSUME NEW i \in Jobs, UpsertResolutions(i),
             ~(<<Snapshot(i), e>> \in Resolves /\ Newer(At[i], resolutions[e]))
      PROVE  resolutions'[e] = resolutions[e]
  BY <1>3 DEF UpsertResolutions
<1>4. ASSUME NEW i \in Jobs, CloseResolution(i)
      PROVE  /\ resolutions'[e].owner = resolutions[e].owner
             /\ resolutions'[e].observed = resolutions[e].observed
  <2>1. PICK x \in DOMAIN toEnd[i] :
          resolutions' = [resolutions EXCEPT ![x] = Closed(@, toEnd[i][x], At[i])]
    BY <1>4 DEF CloseResolution
  <2>2. CASE x = e
    <3>1. resolutions'[e] = Closed(resolutions[e], toEnd[i][e], At[i])
      BY <1>1, <2>1, <2>2
    <3>2. resolutions[e] \in ResolutionRow
      BY <1>1
    <3> QED BY <3>1, <3>2 DEF Closed, ResolutionRow
  <2>3. CASE x # e
    BY <1>1, <2>1, <2>3
  <2> QED BY <2>2, <2>3
<1>5. ASSUME NEW i \in Jobs, Persist(i) \/ Close(i),
             ~UpsertResolutions(i), ~CloseResolution(i)
      PROVE  resolutions' = resolutions
  BY <1>5 DEF Persist, Close, CollectionFails, Begin, UpsertSnapshot, PersistFails,
              FindSuperseded, CloseSnapshot, FindResolutions, Completes, CloseRefused,
              CloseFails, Forgets, rows
<1>6. Stop \/ UNCHANGED vars => resolutions' = resolutions
  BY DEF Stop, vars, rows
<1> QED BY <1>2, <1>3, <1>4, <1>5, <1>6 DEF Next

(* An ingestion is past its upserts only if it was, or has just done them. *)
LEMMA PastPersisting ==
  ASSUME HistoryTypes, [Next]_vars, NEW i \in Jobs, job'[i] \in Closing \cup {"completed"}
  PROVE  job[i] \in Closing \cup {"completed"} \/ UpsertResolutions(i)
<1>1. job \in [Jobs -> JobStates]
  BY DEF HistoryTypes, HistoryTypeOK, JobStates
<1>2. CASE Stop
  BY <1>2 DEF Stop, InProgress, Closing
<1>3. CASE UNCHANGED vars
  BY <1>3 DEF vars
<1>4. ASSUME NEW j \in Jobs, Persist(j)
      PROVE  job[i] \in Closing \cup {"completed"} \/ UpsertResolutions(i)
  <2>1. CASE UpsertResolutions(j)
    BY <1>1, <2>1 DEF UpsertResolutions, Goes
  <2>2. CASE ~UpsertResolutions(j)
    <3>1. \E to \in {"failed", "snapshot", "resolutions"} : Goes(j, to)
      BY <1>4, <2>2 DEF Persist, CollectionFails, Begin, UpsertSnapshot, PersistFails
    <3> QED BY <1>1, <3>1 DEF Goes, Closing
  <2> QED BY <2>1, <2>2
<1>5. ASSUME NEW j \in Jobs, Close(j)
      PROVE  job[i] \in Closing \cup {"completed"}
  <2>1. job[j] \in Closing /\ \A k \in Jobs \ {j} : job'[k] = job[k]
    BY <1>1, <1>5 DEF Close, FindSuperseded, CloseSnapshot, FindResolutions, CloseResolution,
                      Completes, CloseRefused, CloseFails, Goes, Closing
  <2> QED BY <2>1
<1> QED BY <1>2, <1>3, <1>4, <1>5 DEF Next

LEMMA DependStep ==
  ASSUME HistoryTypes, DependInv, [Next]_vars
  PROVE  DependInv'
<1>1. \A e \in Resolutions :
        /\ resolutions[e].observed \in Nat
        /\ \/ /\ resolutions'[e].owner = resolutions[e].owner
              /\ resolutions'[e].observed = resolutions[e].observed
           \/ \E i \in Jobs : /\ <<Snapshot(i), e>> \in Resolves
                              /\ resolutions'[e].owner = Snapshot(i)
                              /\ resolutions'[e].observed = At[i]
                              /\ At[i] > resolutions[e].observed
  BY ResolutionStep, RowTypes
<1>2. ASSUME NEW e \in Resolutions, Present(resolutions'[e])
      PROVE  <<resolutions'[e].owner, e>> \in Resolves
  BY <1>1, <1>2 DEF DependInv, Present
<1>3. ASSUME NEW i \in Jobs, job'[i] \in Closing \cup {"completed"},
             NEW e \in Resolutions, <<Snapshot(i), e>> \in Resolves
      PROVE  resolutions'[e].observed >= At[i]
  <2>1. At[i] \in Nat /\ \A j \in Jobs : At[j] \in Nat
    BY SnapshotType
  <2>2. CASE job[i] \in Closing \cup {"completed"}
    <3>1. resolutions[e].observed >= At[i]
      BY <1>3, <2>2 DEF DependInv
    <3>2. CASE resolutions'[e].observed = resolutions[e].observed
      BY <3>1, <3>2
    <3>3. CASE \E j \in Jobs : /\ resolutions'[e].observed = At[j]
                              /\ At[j] > resolutions[e].observed
      <4>1. PICK j \in Jobs : /\ resolutions'[e].observed = At[j]
                              /\ At[j] > resolutions[e].observed
        BY <3>3
      <4>2. At[j] \in Nat /\ At[i] \in Nat /\ resolutions[e].observed \in Nat
        BY <1>1, <2>1
      <4>3. At[j] >= At[i]
        BY <3>1, <4>1, <4>2
      <4> QED BY <4>1, <4>3
    <3> QED BY <1>1, <3>2, <3>3
  <2>3. CASE UpsertResolutions(i)
    <3>1. CASE Newer(At[i], resolutions[e])
      <4>1. resolutions'[e] = Of(Snapshot(i), Collected(i))
        BY <1>3, <2>3, <3>1 DEF UpsertResolutions
      <4>2. resolutions'[e].observed = At[i]
        BY <4>1 DEF Of, Collected
      <4> QED BY <2>1, <4>2
    <3>2. CASE ~Newer(At[i], resolutions[e])
      <4>1. resolutions'[e] = resolutions[e]
        BY <2>3, <3>2 DEF UpsertResolutions
      <4> QED BY <1>1, <2>1, <3>2, <4>1 DEF Newer
    <3> QED BY <3>1, <3>2
  <2> QED BY <1>3, <2>2, <2>3, PastPersisting
<1>4. \A e \in Resolutions :
        Present(resolutions'[e]) => <<resolutions'[e].owner, e>> \in Resolves
  BY <1>2
<1>5. \A i \in Jobs : job'[i] \in Closing \cup {"completed"} =>
        \A e \in Resolutions :
          <<Snapshot(i), e>> \in Resolves => resolutions'[e].observed >= At[i]
  BY <1>3
<1> QED BY <1>4, <1>5 DEF DependInv, Present, Snapshot

(* The rows say what Node.js would load, or stand for a linked package and *)
(* something that Node.js would not find; and a lockfile that was ingested *)
(* has a row for all that its packages declare and Node.js would load: for *)
(* any lockfiles, with links and nested packages, and however many workers.*)
THEOREM DependsOnWhatLoadsHolds == Spec => []DependsOnWhatLoads
<1>1. DependInv => DependsOnWhatLoads
  <2> SUFFICES ASSUME DependInv PROVE DependsOnWhatLoads
    OBVIOUS
  <2>1. ASSUME NEW e \in Resolutions, Present(resolutions[e])
        PROVE  <<resolutions[e].owner, e>> \in Loaded \cup Unfound
    BY <2>1, EdgesLoad DEF DependInv
  <2>2. ASSUME NEW i \in Jobs, job[i] = "completed", NEW r \in Requirements, r[1] = Snapshot(i)
        PROVE  \E e \in r[2] : resolutions[e].observed >= At[i]
    <3>1. PICK e \in r[2] : <<Snapshot(i), e>> \in Resolves
      BY <2>2, RequirementsAreMet
    <3>2. e \in Resolutions
      BY <3>1, ResolutionsFacts
    <3> QED BY <2>2, <3>1, <3>2 DEF DependInv
  <2> QED BY <2>1, <2>2 DEF DependsOnWhatLoads
<1>2. HistoryTypes /\ DependInv /\ [Next]_vars => DependInv'
  BY DependStep
<1> QED BY DependInit, HistoryTypesHold, <1>1, <1>2, PTL DEF Spec


=============================================================================
