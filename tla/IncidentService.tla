--------------------------- MODULE IncidentService ----------------------------
(***************************************************************************)
(* HydraIncidentService.createIncident (incidents/incident-service.ts):    *)
(* POST /incidents, synchronous, at most one at a time in a process.       *)
(*                                                                         *)
(* A call reads whether its key was used before, resolves the affected     *)
(* versions release by release, persists the evidence, the incident and    *)
(* the SUPPORTS edge, writes the AFFECTS edges in chunks and reads them    *)
(* back.  Every statement commits on its own, may fail before or after it  *)
(* committed, and the process may stop between any two; npm ingestions add *)
(* versions all the while.                                                 *)
(***************************************************************************)
EXTENDS Naturals, Sequences, FiniteSets

CONSTANTS
  Calls,      \* requests that may reach POST /incidents
  Identity,   \* Identity[c]: the id of c's incident, shared by the calls of a key
  Request,    \* Request[c]: the fingerprint of its body
  NoRequest,
  Observed,   \* Observed[r]: provenance.observedAt of request r
  Releases,   \* Releases[r]: its affectedReleases, in order
  Versions,   \* ids of the package versions that may be collected
  Package,    \* Package[v]: the package v is a version of
  MaxScanned, \* maxVersionsScannedPerPackage
  ChunkSize,  \* affectedEdgeChunkSize
  MaxLane     \* bound on the calls waiting or in progress

Requests == {Request[c] : c \in Calls}
Ids == {Identity[c] : c \in Calls}

(* exact: exactVersions, some of which may never be collected; range: the  *)
(* versions that satisfy affectedRange, none if it is not given.           *)
ASSUME IncidentAssumption ==
  /\ Identity \in [Calls -> Nat]
  /\ NoRequest \notin Requests
  /\ Observed \in [Requests -> Nat]
  /\ Versions \subseteq Nat
  /\ \A r \in Requests :
       /\ Releases[r] \in Seq([package : {Package[v] : v \in Versions},
                               exact : SUBSET Nat, range : SUBSET Versions])
       /\ Releases[r] # <<>>
  /\ MaxScanned \in Nat /\ ChunkSize \in Nat \ {0} /\ MaxLane \in Nat \ {0}

VARIABLES
  versions,  \* the PackageVersion rows of the graph
  evidence,  \* evidence[i]: the request stored with incident i's evidence
  incident,  \* incident[i]: the request its Incident row was written for
  supports,  \* the incidents that have their SUPPORTS edge
  affects,   \* the AFFECTS edges, <<incident, version>>
  pc,        \* pc[c]: the await call c is suspended at
  held,      \* held[c]: what its continuation holds
  lane       \* operationTail: the calls waiting or in progress

rows == <<evidence, incident, supports, affects>>
vars == <<versions, rows, pc, held, lane>>

Working == {"resolving", "persisting", "confirming", "affecting", "verifying"}
Waiting == {"queued"} \cup Working

(* `at` counts the releases resolved and then the rows persisted; `graph`  *)
(* is what the graph held when the call arrived, for the properties.       *)
Nothing == [at |-> 1, found |-> {}, left |-> {}, graph |-> {}]

Row(c) == Identity[c]
Goto(c, where) == pc' = [pc EXCEPT ![c] = where]
Holds(c, changed) == held' = [held EXCEPT ![c] = changed]

(* Faults, used only to see that a property notices them: a lane that does *)
(* not order its calls or that a rejection blocks, and a resolution that   *)
(* ends with the first release.                                            *)
AtAnyTime(c, where) == pc[c] = where
SettlesBlocking(c, how) ==
  /\ Goto(c, how)
  /\ lane' = IF how = "answered" THEN Tail(lane) ELSE lane
  /\ Holds(c, Nothing)
OnlyRelease(c) == TRUE

(* The call settles, and the next one in the lane may begin.               *)
Settles(c, how) ==
  /\ Goto(c, how)
  /\ lane' = Tail(lane)
  /\ Holds(c, Nothing)

At(c, where) == lane # <<>> /\ c = Head(lane) /\ pc[c] = where

-----------------------------------------------------------------------------
(* An npm ingestion persists a version.                                    *)
Collect(v) ==
  /\ v \notin versions
  /\ versions' = versions \cup {v}
  /\ UNCHANGED <<rows, pc, held, lane>>

Arrive(c) ==
  /\ pc[c] = "new" /\ Len(lane) < MaxLane
  /\ Goto(c, "queued")
  /\ lane' = Append(lane, c)
  /\ Holds(c, [Nothing EXCEPT !.graph = versions])
  /\ UNCHANGED <<versions, rows>>

(* assertReplayCompatible                                                  *)
Compatible(c) == evidence[Row(c)] \in {NoRequest, Request[c]}

Check(c) ==
  /\ At(c, "queued")
  /\ IF Compatible(c) THEN Goto(c, "resolving") /\ UNCHANGED <<held, lane>>
                      ELSE Settles(c, "refused")
  /\ UNCHANGED <<versions, rows>>

(* resolveAffectedVersions: every exact version must be there, a range     *)
(* alone must match something, and too many versions are not looked at.    *)
Available(release) == {v \in versions : Package[v] = release.package}
Matching(release) == Available(release) \cap (release.exact \cup release.range)

Resolvable(release) ==
  /\ Cardinality(Available(release)) <= MaxScanned
  /\ release.exact \subseteq Available(release)
  /\ Matching(release) # {}

LastRelease(c) == held[c].at = Len(Releases[Request[c]])

Resolve(c) ==
  /\ At(c, "resolving")
  /\ LET release == Releases[Request[c]][held[c].at]
         found == held[c].found \cup Matching(release)
     IN  IF ~Resolvable(release) THEN Settles(c, "refused")
         ELSE /\ Holds(c, [held[c] EXCEPT !.found = found,
                             !.at = IF LastRelease(c) THEN 1 ELSE held[c].at + 1])
              /\ Goto(c, IF LastRelease(c) THEN "persisting" ELSE "resolving")
              /\ UNCHANGED lane
  /\ UNCHANGED <<versions, rows>>

(* One statement of persist(): the upsert of a node replaces only an older *)
(* one.                                                                    *)
Upserted(row, c) ==
  IF row[Row(c)] = NoRequest \/ Observed[Request[c]] > Observed[row[Row(c)]]
  THEN [row EXCEPT ![Row(c)] = Request[c]] ELSE row

Persisted(c) ==
  /\ evidence' = IF held[c].at = 1 THEN Upserted(evidence, c) ELSE evidence
  /\ incident' = IF held[c].at = 2 THEN Upserted(incident, c) ELSE incident
  /\ supports' = IF held[c].at = 3 THEN supports \cup {Row(c)} ELSE supports
  /\ UNCHANGED affects

Persist(c) ==
  /\ At(c, "persisting")
  /\ Persisted(c)
  /\ Holds(c, [held[c] EXCEPT !.at = @ + 1])
  /\ Goto(c, IF held[c].at = 3 THEN "confirming" ELSE "persisting")
  /\ UNCHANGED <<versions, lane>>

(* persist() resolves only when it read back what it wrote.                *)
Confirm(c) ==
  /\ At(c, "confirming")
  /\ IF evidence[Row(c)] = Request[c] /\ incident[Row(c)] = Request[c]
     THEN /\ Goto(c, "affecting")
          /\ Holds(c, [held[c] EXCEPT !.left = held[c].found])
          /\ UNCHANGED lane
     ELSE Settles(c, "failed")
  /\ UNCHANGED <<versions, rows>>

(* persistAffectedEdges: the edges in the order of the versions' ids.      *)
Chunk(c) ==
  {v \in held[c].left : Cardinality({w \in held[c].left : w < v}) < ChunkSize}

Affected(c) ==
  /\ affects' = affects \cup ({Row(c)} \X Chunk(c))
  /\ UNCHANGED <<evidence, incident, supports>>

Affect(c) ==
  /\ At(c, "affecting")
  /\ Affected(c)
  /\ Holds(c, [held[c] EXCEPT !.left = @ \ Chunk(c)])
  /\ Goto(c, IF held[c].left = Chunk(c) THEN "verifying" ELSE "affecting")
  /\ UNCHANGED <<versions, lane>>

(* verifyAffectedEdges                                                     *)
Verify(c) ==
  /\ At(c, "verifying")
  /\ Settles(c, IF {Row(c)} \X held[c].found \subseteq affects
                THEN "answered" ELSE "failed")
  /\ UNCHANGED <<versions, rows>>

(* What the statement in flight does, if it commits.                       *)
Commits(c) ==
  \/ pc[c] = "persisting" /\ Persisted(c)
  \/ pc[c] = "affecting" /\ Affected(c)

(* An await rejects, a write before or after it committed.                 *)
Fails(c) ==
  /\ lane # <<>> /\ c = Head(lane) /\ pc[c] \in Waiting
  /\ Settles(c, "failed")
  /\ UNCHANGED rows \/ Commits(c)
  /\ UNCHANGED versions

(* The process stops.                                                      *)
Stop ==
  /\ lane # <<>>
  /\ UNCHANGED rows \/ Commits(Head(lane))
  /\ lane' = <<>>
  /\ pc' = [c \in Calls |-> IF pc[c] \in Waiting THEN "failed" ELSE pc[c]]
  /\ held' = [c \in Calls |-> Nothing]
  /\ UNCHANGED versions

Init ==
  /\ versions = {}
  /\ evidence = [i \in Ids |-> NoRequest]
  /\ incident = [i \in Ids |-> NoRequest]
  /\ supports = {} /\ affects = {}
  /\ pc = [c \in Calls |-> "new"]
  /\ held = [c \in Calls |-> Nothing]
  /\ lane = <<>>

Create(c) ==
  \/ Check(c) \/ Resolve(c) \/ Persist(c) \/ Confirm(c) \/ Affect(c)
  \/ Verify(c) \/ Fails(c)

Next ==
  \/ \E v \in Versions : Collect(v)
  \/ \E c \in Calls : Arrive(c) \/ Create(c)
  \/ Stop

(* Awaits settle: every statement has a timeout.                           *)
Fairness == \A c \in Calls : WF_vars(Create(c))
Spec == Init /\ [][Next]_vars /\ Fairness

-----------------------------------------------------------------------------
(* Types.                                                                  *)
IncidentTypeOK ==
  /\ versions \subseteq Versions
  /\ evidence \in [Ids -> Requests \cup {NoRequest}]
  /\ incident \in [Ids -> Requests \cup {NoRequest}]
  /\ supports \subseteq Ids /\ affects \subseteq Ids \X Versions
  /\ pc \in [Calls -> Waiting \cup {"new", "answered", "refused", "failed"}]
  /\ held \in [Calls -> [at : Nat \ {0}, found : SUBSET Versions,
                         left : SUBSET Versions, graph : SUBSET Versions]]
  /\ lane \in Seq(Calls)

(* The versions request r is about, among those of a graph.                *)
About(r, graph) ==
  {v \in graph : \E n \in DOMAIN Releases[r] :
     LET release == Releases[r][n]
     IN  Package[v] = release.package /\ v \in release.exact \cup release.range}

(* A key stands for one request: the incident under it, its provenance and *)
(* its edges all come from the request its evidence names, whichever calls *)
(* failed half-way and whichever were in progress together.                *)
RowsOfOneRequest ==
  \A i \in Ids :
    /\ incident[i] # NoRequest => evidence[i] = incident[i]
    /\ i \in supports => incident[i] # NoRequest
    /\ \A v \in Versions : <<i, v>> \in affects =>
         i \in supports /\ v \in About(evidence[i], versions)

(* 201 means that the incident is stored with its provenance and affects   *)
(* every version of the request that was in the graph when it arrived,     *)
(* exact ones always, though earlier attempts may have left a part of it.  *)
AnswerIsComplete ==
  [][\A c \in Calls : pc[c] # "answered" /\ pc'[c] = "answered" =>
       /\ incident[Row(c)] = Request[c] /\ Row(c) \in supports
       /\ {Row(c)} \X About(Request[c], held[c].graph) \subseteq affects
       /\ \A n \in DOMAIN Releases[Request[c]] :
            {Row(c)} \X Releases[Request[c]][n].exact \subseteq affects]_vars

(* "An invalid range or missing exact version therefore leaves no partial  *)
(* incident": nothing is stored under a key whose calls were all refused.  *)
RefusedLeavesNothing ==
  \A i \in Ids :
    (\A c \in Calls : Identity[c] = i =>
       pc[c] \in {"new", "queued", "resolving", "refused"})
    => /\ evidence[i] = NoRequest /\ incident[i] = NoRequest
       /\ i \notin supports /\ \A v \in Versions : <<i, v>> \notin affects

(* Every request is answered: of finitely many calls none stays in the     *)
(* lane, so that one that is rejected does not block those behind it.      *)
EveryRequestSettles == []<>(lane = <<>>)

(* All that is stored under a key is one request's, and nothing is when    *)
(* every call was refused.                                                 *)
OneRequestOrNothing == RowsOfOneRequest /\ RefusedLeavesNothing

=============================================================================
