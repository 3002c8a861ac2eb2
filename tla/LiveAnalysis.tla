------------------------------ MODULE LiveAnalysis ------------------------------
(***************************************************************************)
(* runLiveBlastRadius (analysis/live-analysis.ts) behind GET               *)
(* /incidents/:incidentId/blast-radius (api/routes/analysis.ts), over      *)
(* HydraGraphReader (analysis/readers/hydra-graph-reader.ts): "HydraDB is  *)
(* queried through multiple bounded read statements.  The readEpoch is a   *)
(* client correlation epoch, not a database snapshot ID."                  *)
(*                                                                         *)
(* Every read statement is a step, and a writer may persist the rows of a  *)
(* batch between any two of them (db/hydra-writer.ts): its nodes, then the *)
(* canonical edges, then the USED_BY edges that index them.  The writer    *)
(* may stop anywhere.                                                      *)
(***************************************************************************)
EXTENDS BlastRadius, TemporalWindow, EvidenceFunnel

CONSTANTS
  Incident,   \* the node asked for
  Stored,     \* what is stored at first: a set of views
  Written,    \* the view that it is part of and the writer persists
  Requests    \* [limits, maxAffected, interval, asOf, nullRow]: `asOf` may be
              \* Absent; `nullRow` when the database answers a MATCH that
              \* binds nothing with one row of nulls, as getNode says of it

(* What validateGraph (domain/validator.ts) asks of a batch: an edge has    *)
(* its ends and some evidence, and the evidence that a row names is there. *)
EndsOf(view) == {Source[e] : e \in view.edges} \cup {Target[e] : e \in view.edges}
EvidenceNodes(nodes) == {n \in nodes : NodeKind[n] = "Evidence"}
Supported(view, nodes) ==
  /\ EndsOf(view) \subseteq nodes
  /\ \A n \in nodes : NodeEvidence[n] \subseteq EvidenceNodes(view.nodes)
  /\ \A e \in view.edges : EdgeEvidence[e] # {} /\ EdgeEvidence[e] \subseteq EvidenceNodes(view.nodes)

(* A part of the batch may be stored at first, but no edge is without its  *)
(* nodes and their evidence: nodes are written before edges.               *)
ASSUME LiveAssumption ==
  /\ Incident \in Nat /\ Written \in Views /\ Supported(Written, Written.nodes)
  /\ \A view \in Stored : /\ view \in Views /\ Supported(view, EndsOf(view))
                          /\ view.nodes \subseteq Written.nodes /\ view.edges \subseteq Written.edges
  /\ MaxEvidenceIds \in Nat /\ HighConfidence \in Nat
  /\ EvidenceConfidence \in [Nodes -> Nat]
  /\ EvidenceSource \in [Nodes -> ExactSources \cup ContextualSources \cup {Absent}]
  /\ \A asking \in Requests : /\ asking.interval \in [start : Nat, end : Nat \cup {Absent}]
                              /\ asking.asOf \in Nat \cup {Absent}

VARIABLES
  request,    \* one of Requests, with the view that was stored when it came
  graph,      \* [nodes, edges, index]: `index` has a DEPENDS_ON edge when
              \* the USED_BY edge that reverses it is stored
  phase,      \* the statement that is next, or "answered"
  affected,   \* [versions, evidence, truncated]: findAffectedVersions
  search,     \* the traversal
  asked,      \* evidence ids still to be read for this phase
  evidence,   \* [funnel, catalog]: the evidence nodes read
  answer      \* [code, ...]

liveVars == <<request, graph, phase, affected, search, asked, evidence, answer>>

Least(S, k) == {n \in S : Cardinality({m \in S : m < n}) < k}

Dependencies(edges) == {e \in edges : EdgeKind[e] = "DEPENDS_ON"}
AffectsEdges == {e \in graph.edges : EdgeKind[e] = "AFFECTS" /\ Source[e] = Incident}

(* buildFindDependentsQuery: an index row is paired with the edge it was   *)
(* derived from, when that is stored and was in force at `asOf`; one with  *)
(* no recorded validity counts.                                            *)
InForce(e, asOf) ==
  \/ asOf = Absent \/ ValidFrom[e] = Absent
  \/ ValidFrom[e] <= asOf /\ (ValidUntil[e] = Absent \/ asOf <= ValidUntil[e])
IndexRows(node) == {e \in graph.index : Target[e] = node}
Paired == {e \in graph.index \cap graph.edges : InForce(e, request.asOf)}
IndexView == [nodes |-> graph.nodes, edges |-> Paired]

-----------------------------------------------------------------------------
(* The writer: one row after the other, phase by phase.                    *)
NextRow(all, stored) == {x \in all \ stored : \A y \in all \ stored : x <= y}

WriteNode ==
  \E n \in NextRow(Written.nodes, graph.nodes) : graph' = [graph EXCEPT !.nodes = @ \cup {n}]
WriteEdge ==
  \E e \in NextRow(Written.edges, graph.edges) : graph' = [graph EXCEPT !.edges = @ \cup {e}]
WriteIndex ==
  \E e \in NextRow(Dependencies(Written.edges), graph.index) :
    graph' = [graph EXCEPT !.index = @ \cup {e}]

(* A fault, used only to see that a property notices it: the index of an   *)
(* edge written before the edge.                                           *)
PersistIndexFirst ==
  \/ WriteNode
  \/ graph.nodes = Written.nodes /\ WriteIndex
  \/ graph.nodes = Written.nodes /\ graph.index = Dependencies(Written.edges) /\ WriteEdge

PersistRow ==
  \/ WriteNode
  \/ graph.nodes = Written.nodes /\ WriteEdge
  \/ graph.nodes = Written.nodes /\ graph.edges = Written.edges /\ WriteIndex

Persist ==
  /\ phase # "answered" /\ PersistRow
  /\ UNCHANGED <<request, phase, affected, search, asked, evidence, answer>>

-----------------------------------------------------------------------------
Respond(reply) == phase' = "answered" /\ answer' = reply

(* mapKnownAnalysisError: what the client sees of a failure.               *)
PublicCode(cause) ==
  CASE cause \in {"INCIDENT_NOT_FOUND", "NODE_KIND_MISMATCH"} -> 404
    [] cause \in {"DATABASE_QUERY_FAILED", "GRAPH_CORRUPTION", "INVALID_EVIDENCE_RESULT"} -> 503
    [] OTHER -> 500

Failed(cause) == Respond([code |-> PublicCode(cause), cause |-> cause])

(* Any statement may fail, and the first failure is the answer; what fails *)
(* while the funnel reads is wrapped.                                      *)
StatementFails ==
  /\ phase \in {"incident", "affected", "search", "funnel", "catalog"}
  /\ Failed(IF phase = "funnel" THEN "INVALID_EVIDENCE_RESULT" ELSE "DATABASE_QUERY_FAILED")
  /\ UNCHANGED <<request, graph, affected, search, asked, evidence>>

(* getNode of the incident.                                                *)
ReadIncident ==
  /\ phase = "incident"
  /\ IF Incident \notin graph.nodes THEN Failed("INCIDENT_NOT_FOUND")
     ELSE IF NodeKind[Incident] # "Incident" THEN Failed("NODE_KIND_MISMATCH")
     ELSE phase' = "affected" /\ UNCHANGED answer
  /\ UNCHANGED <<request, graph, affected, search, asked, evidence>>

(* The bounded targets of its AFFECTS edges.  A row of nulls is corrupt.   *)
ReadAffected ==
  /\ phase = "affected"
  /\ IF request.nullRow /\ AffectsEdges = {}
     THEN Failed("GRAPH_CORRUPTION") /\ UNCHANGED <<affected, search>>
     ELSE LET versions == Least({Target[e] : e \in AffectsEdges}, request.maxAffected)
          IN  /\ affected' = [versions |-> versions,
                              evidence |-> UNION {EdgeEvidence[e] :
                                                    e \in {d \in AffectsEdges : Target[d] \in versions}},
                              truncated |-> versions # {Target[e] : e \in AffectsEdges}]
              /\ search' = BlastStart(versions)
              /\ phase' = "search" /\ UNCHANGED answer
  /\ UNCHANGED <<request, graph, asked, evidence>>

(* A row of findDependents with no edge is corrupt, whether its index row  *)
(* could not be paired or nothing was bound at all.  Such rows come last:  *)
(* none is read when the pairs fill the page and the one row beyond it.    *)
CorruptPage(node) ==
  \/ request.nullRow /\ IndexRows(node) = {}
  \/ /\ ~(IndexRows(node) \subseteq Paired)
     /\ ~Dependents(IndexView, node, request.limits.dependents).truncated

(* One turn of the traversal: a root, a service or a page of dependents.   *)
SearchStep ==
  /\ phase = "search" /\ Searching(search)
  /\ IF /\ search.queue # <<>> /\ NodeKind[Head(search.queue).node] # "Service"
        /\ Head(search.queue).node \notin DOMAIN search.pages
        /\ CorruptPage(Head(search.queue).node)
     THEN Failed("GRAPH_CORRUPTION") /\ UNCHANGED search
     ELSE /\ search' = BlastStep(search, request.limits, IndexView)
          /\ UNCHANGED <<phase, answer>>
  /\ UNCHANGED <<request, graph, affected, asked, evidence>>

(* "Truncation during root resolution is part of overall analysis          *)
(* truncation."                                                            *)
Truncated == search.truncated \/ affected.truncated

BeginFunnel ==
  /\ phase = "search" /\ ~Searching(search)
  /\ phase' = "funnel" /\ asked' = WithinBudget(Referenced(search.found))
  /\ UNCHANGED <<request, graph, affected, search, evidence, answer>>

(* getEvidence: one statement for every id, in their order.                *)
ReadEvidence(stage) ==
  /\ phase = stage /\ asked # {}
  /\ \E n \in Least(asked, 1) :
       /\ asked' = asked \ {n}
       /\ evidence' = IF n \in graph.nodes /\ NodeKind[n] = "Evidence"
                      THEN [evidence EXCEPT ![stage] = @ \cup {n}] ELSE evidence
  /\ UNCHANGED <<request, graph, phase, affected, search, answer>>

BeginCatalog ==
  /\ phase = "funnel" /\ asked = {}
  /\ phase' = "catalog"
  /\ asked' = WithinBudget(Relevant(Incident, affected.versions, affected.evidence, search.found))
  /\ UNCHANGED <<request, graph, affected, search, evidence, answer>>

FunnelRead == Funnel(search.found, evidence.funnel, Truncated)

(* An incomplete catalog takes the funnel's completeness away.             *)
IncidentComplete ==
  /\ FunnelRead.completeForIncident
  /\ LookupComplete(Relevant(Incident, affected.versions, affected.evidence, search.found),
                    evidence.catalog)

Reply ==
  [code |-> 200, cause |-> "none", found |-> search.found, truncated |-> Truncated,
   funnel |-> [FunnelRead EXCEPT !.completeForIncident = IncidentComplete],
   standing |-> Standing(search.found, request.interval),
   history |-> HistoryComplete(search.found, Truncated),
   impacts |-> Impacts(search.found, evidence.catalog, IncidentComplete)]

(* buildTemporalWindow may refuse the history of a service, and with it    *)
(* the whole analysis: that error is not one the route knows.              *)
Conclude ==
  /\ phase = "catalog" /\ asked = {}
  /\ IF Refused(search.found, request.interval) THEN Failed("TEMPORAL_WINDOW")
     ELSE phase' = "composed" /\ answer' = Reply
  /\ UNCHANGED <<request, graph, affected, search, asked, evidence>>

(* assertAnalysisResponse.                                                 *)
Consistent ==
  LET services(paths) == {p.node : p \in paths}
      atMost(S, T) == /\ Cardinality(S) <= Cardinality(T)
                      /\ Cardinality(services(S)) <= Cardinality(services(T))
  IN  /\ {p.root : p \in answer.found} \subseteq affected.versions
      /\ DOMAIN answer.impacts = services(answer.found)
      /\ atMost(answer.funnel.verified, answer.funnel.candidates)
      /\ atMost(answer.funnel.confident, answer.funnel.verified)

(* The last look before a reply is sent.                                   *)
Send ==
  /\ phase = "composed"
  /\ IF Consistent THEN Respond(answer) ELSE Failed("INCONSISTENT_RESPONSE")
  /\ UNCHANGED <<request, graph, affected, search, asked, evidence>>

-----------------------------------------------------------------------------
LiveInit ==
  /\ \E asking \in Requests, view \in Stored :
       /\ request = [limits |-> asking.limits, maxAffected |-> asking.maxAffected,
                     interval |-> asking.interval, asOf |-> asking.asOf,
                     nullRow |-> asking.nullRow, stored |-> view]
       /\ graph = [nodes |-> view.nodes, edges |-> view.edges, index |-> Dependencies(view.edges)]
  /\ phase = "incident"
  /\ affected = [versions |-> {}, evidence |-> {}, truncated |-> FALSE]
  /\ search = Fresh(<<>>) /\ asked = {}
  /\ evidence = [funnel |-> {}, catalog |-> {}]
  /\ answer = [code |-> 0, cause |-> "none"]

ReadStep ==
  \/ ReadIncident \/ ReadAffected \/ SearchStep \/ BeginFunnel \/ ReadEvidence("funnel")
  \/ BeginCatalog \/ ReadEvidence("catalog") \/ Conclude \/ Send

LiveNext == ReadStep \/ StatementFails \/ Persist

(* Every statement has a timeout, so that it is answered or fails.         *)
LiveFairness == WF_liveVars(ReadStep)

-----------------------------------------------------------------------------
LiveTypeOK ==
  /\ request.stored \in Stored
  /\ graph.nodes \subseteq Nodes /\ graph.edges \subseteq Edges
  /\ graph.index \subseteq Dependencies(Edges)
  /\ phase \in {"incident", "affected", "search", "funnel", "catalog", "composed", "answered"}
  /\ affected.versions \subseteq Nodes /\ asked \subseteq Nodes
  /\ evidence \in [{"funnel", "catalog"} -> SUBSET Nodes]
  /\ answer.code \in {0, 200, 404, 500, 503}

Answered == phase = "answered" /\ answer.code = 200

(* The first paths there were, and those there are now.                    *)
PathsThen == DependencyPaths([nodes |-> request.stored.nodes,
                              edges |-> Dependencies(request.stored.edges)],
                             {Target[e] : e \in {d \in request.stored.edges :
                                EdgeKind[d] = "AFFECTS" /\ Source[d] = Incident}})
PathsNow == DependencyPaths(IndexView, {Target[e] : e \in AffectsEdges})

(* Between a writer and limits: every candidate is reached by the paths    *)
(* that are given for it, of resolutions in force at `asOf`, and an answer *)
(* that does not say it was truncated has every path there was when it was *)
(* asked for: no instant takes a path away from it.                        *)
CandidatesAreReachable ==
  Answered => /\ answer.found \subseteq PathsNow
              /\ ~answer.truncated => PathsThen \subseteq answer.found

(* An answer is never sharper than what was read.  A service is "resolved" *)
(* when the whole incident could be judged and every hop of one of its     *)
(* paths has exact evidence that is stored; the funnel, which read on its  *)
(* own, then verified every path.                                          *)
ResolvedIsBacked ==
  Answered =>
    /\ \A s \in DOMAIN answer.impacts : answer.impacts[s].stage = "resolved" =>
         /\ ~answer.truncated /\ answer.funnel.completeForIncident
         /\ \E p \in answer.found :
              /\ p.node = s /\ p \in answer.funnel.verified
              /\ answer.impacts[s].level = "strong" => p \in answer.funnel.confident
              /\ \A e \in EdgesOf(p) : ExactEvidence(e, graph.nodes) # {}
    /\ answer.funnel.completeForIncident =>
         /\ answer.funnel.verified = answer.found
         /\ Referenced(answer.found) \subseteq evidence.funnel \cap evidence.catalog

(* "A resolution with no recorded validity cannot be shown to be outside   *)
(* the window": a service with a path that was in force during the         *)
(* interval is never outside, one that no path dates is unknown, and only  *)
(* a complete history says so.                                             *)
OutsideIsOutside ==
  Answered => \A s \in DOMAIN answer.standing :
    LET paths == {p \in answer.found : p.node = s}
    IN  /\ (\E p \in paths : ExposedDuring(p, request.interval)) =>
             answer.standing[s] = "resolved-during-window"
        /\ (\A p \in paths : Dated(p) = {}) <=> answer.standing[s] = "unknown-window"
        /\ answer.history => answer.standing[s] # "unknown-window" /\ ~answer.truncated

(* What the last statement was answered by a row of nulls for: the edges   *)
(* of the incident, or the dependents of the version that was next.  And   *)
(* what `asOf` is not within: a resolution of that version.                *)
NothingBound ==
  /\ request.nullRow
  /\ IF search.queue = <<>> THEN AffectsEdges = {} ELSE IndexRows(Head(search.queue).node) = {}
NotInForce ==
  /\ search.queue # <<>> /\ request.asOf # Absent
  /\ \E e \in IndexRows(Head(search.queue).node) : ~InForce(e, request.asOf)

(* A writer in the middle of its batch leaves no index row without its     *)
(* edge: what is called corrupt is a row of nulls in place of no row, or a *)
(* resolution of the version that was next that `asOf` is not within.  And *)
(* writing never takes evidence away from an answer that stayed within its *)
(* limits: unless the incident itself is being written, whose row may come *)
(* before the evidence it names.                                           *)
WritingIsNotCorruption ==
  /\ answer.cause # "INCONSISTENT_RESPONSE"
  /\ answer.cause = "GRAPH_CORRUPTION" => NothingBound \/ NotInForce
  /\ Answered /\ ~answer.truncated /\ NodeEvidence[Incident] \subseteq request.stored.nodes
     /\ Cardinality(Relevant(Incident, affected.versions, affected.evidence, answer.found))
          <= MaxEvidenceIds
       => answer.funnel.completeForIncident

(* "Whether each returned service resolved an affected version while the   *)
(* compromise interval was open": a resolution that was replaced on one    *)
(* path does not cost every service its answer.                            *)
HistoryIsNoFailure == answer.cause # "TEMPORAL_WINDOW"

=============================================================================
