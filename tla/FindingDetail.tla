----------------------------- MODULE FindingDetail -----------------------------
(***************************************************************************)
(* GET /typosquatting/findings/:findingId: getFindingDetail                *)
(* (typosquatting/service.ts) over TyposquattingFindingReader              *)
(* (typosquatting/finding-reader.ts).  A finding names the lockfile it was *)
(* found in; who is exposed is found by following only what names that     *)
(* lockfile: from the versions of the candidate, against DEPENDS_ON, to    *)
(* the services.                                                           *)
(*                                                                         *)
(* Every read statement is a step, and the writer of StoredGraph may write *)
(* a row between any two: the rest of the finding's own batch, or another  *)
(* lockfile over the rows it shares with this one.                         *)
(***************************************************************************)
EXTENDS StoredGraph

CONSTANTS
  FindingId,         \* the finding that is asked for
  FindingEvidence, \* the evidence ids in its row
  Synthetic,       \* evidence nodes that are synthetic
  VersionOrder,    \* VersionOrder[n]: the order of version strings
  DetailLimits     \* a set of [evidence, versions, depth, services, states,
                   \* dependents]

ASSUME VersionAssumption == VersionOrder \in [Nodes -> Nat]

VARIABLE detail

detailVars == <<graphVars, detail>>

NewDetail(lim) ==
  [at |-> "finding", limits |-> lim, asked |-> {}, candidate |-> 0, evidence |-> {},
   exact |-> <<>>, cut |-> FALSE, queue |-> <<>>, services |-> <<>>, states |-> 0,
   truncated |-> FALSE, code |-> 0]

Settle(code) == detail' = [detail EXCEPT !.at = "answered", !.code = code]

(* "Non-synthetic, high-confidence package-lock evidence."                 *)
LockfileEvidence == {n \in detail.evidence : /\ n \notin Synthetic
                                    /\ EvidenceSource[n] = "package-lock"
                                    /\ EvidenceConfidence[n] >= HighConfidence}

(* mapReadError: only a finding that is not there is not a failure of the  *)
(* database.                                                               *)
DetailFails == detail.at # "answered" /\ Settle(503)

ReadFinding ==
  /\ detail.at = "finding"
  /\ IF FindingId \in stored.nodes THEN detail' = [detail EXCEPT !.at = "packages"]
     ELSE Settle(404)

(* One candidate and one trusted package, no more and no less.             *)
ReadPackages ==
  /\ detail.at = "packages"
  /\ LET ends(kind) == {Target[e] : e \in {d \in StoredEdges(kind) : Source[d] = FindingId}}
         found == ends("TARGETS") \X ends("IMITATES")
     IN  IF Cardinality(found) # 1 THEN Settle(503)
         ELSE \E pair \in found :
                detail' = [detail EXCEPT !.at = "package", !.candidate = pair[1],
                                         !.asked = {pair[1], pair[2]}]

(* Both are read at once, so that they come in any order.                  *)
ReadPackage ==
  /\ detail.at = "package"
  /\ \E n \in detail.asked :
       IF n \notin stored.nodes \/ NodeKind[n] # "Package" THEN Settle(503)
       ELSE IF detail.asked # {n} THEN detail' = [detail EXCEPT !.asked = @ \ {n}]
       ELSE IF Cardinality(FindingEvidence) > detail.limits.evidence THEN Settle(503)
       ELSE detail' = [detail EXCEPT !.at = "evidence", !.asked = FindingEvidence]

(* One statement for each id; all of it must be there.                     *)
ReadSupport ==
  /\ detail.at = "evidence" /\ detail.asked # {}
  /\ \E n \in FirstOf(detail.asked, 1) :
       detail' = [detail EXCEPT !.asked = @ \ {n},
                    !.evidence = IF n \in stored.nodes THEN @ \cup {n} ELSE @]

SupportRead ==
  /\ detail.at = "evidence" /\ detail.asked = {}
  /\ IF detail.evidence = FindingEvidence THEN detail' = [detail EXCEPT !.at = "versions"]
     ELSE Settle(503)

(* getExactCandidateVersions: the first versions of the candidate, and of  *)
(* these the ones whose row names the lockfile.                            *)
ReadVersions ==
  /\ detail.at = "versions"
  /\ LET all == {Target[e] : e \in {d \in StoredEdges("HAS_VERSION") : Source[d] = detail.candidate}}
         bounded == FirstOf(all, detail.limits.versions)
     IN  detail' = [detail EXCEPT !.at = "version", !.asked = bounded, !.cut = bounded # all]

ReadVersion ==
  /\ detail.at = "version" /\ detail.asked # {}
  /\ \E n \in FirstOf(detail.asked, 1) :
       IF NodeKind[n] # "PackageVersion" \/ PackageOf[n] # detail.candidate THEN Settle(503)
       ELSE detail' = [detail EXCEPT !.asked = @ \ {n},
                         !.exact = IF NodeNames(n) \cap LockfileEvidence = {} THEN @
                                   ELSE Extend(@, n, NodeNames(n) \cap LockfileEvidence)]

(* A way in progress: an item of Traversal and the evidence along it.      *)
Way(root, node, path, ids) == [item |-> Item(root, node, path), evidence |-> ids]

(* Versions by their strings, then by their ids.                           *)
VersionBefore(m, n) ==
  VersionOrder[m] < VersionOrder[n] \/ (VersionOrder[m] = VersionOrder[n] /\ m < n)
ByVersion(S) ==
  [i \in 1..Cardinality(S) |->
     CHOOSE n \in S : Cardinality({m \in S : VersionBefore(m, n)}) = i - 1]

BeginTrace ==
  /\ detail.at = "version" /\ detail.asked = {}
  /\ LET roots == ByVersion(DOMAIN detail.exact)
     IN  detail' = [detail EXCEPT !.at = "trace",
                      !.queue = [i \in DOMAIN roots |->
                                   Way(roots[i], roots[i], <<>>, detail.exact[roots[i]])]]

-----------------------------------------------------------------------------
(* traceExposure: the first way to a service stands for all of them.       *)
ReachService(d, service, way) ==
  IF service \in DOMAIN d.services THEN d
  ELSE IF Cardinality(DOMAIN d.services) >= d.limits.services THEN [d EXCEPT !.truncated = TRUE]
  ELSE [d EXCEPT !.services = Extend(@, service, way)]

(* A fault, used only to see that a property notices it: hops that other   *)
(* lockfiles resolve are followed too.                                     *)
FollowAnyHop(d, way, edge) ==
  LET next == Way(way.item.root, Source[edge], Append(way.item.path, edge), way.evidence)
  IN  IF Source[edge] \in PathNodes(way.item) THEN d
      ELSE IF NodeKind[Source[edge]] = "Service" THEN ReachService(d, Source[edge], next)
      ELSE [d EXCEPT !.queue = Append(@, next)]

FollowHop(d, way, edge) ==
  LET ids == EdgeNames(edge) \cap LockfileEvidence
      node == Source[edge]
      next == Way(way.item.root, node, Append(way.item.path, edge), way.evidence \cup ids)
  IN  IF ids = {} \/ node \in PathNodes(way.item) THEN d
      ELSE IF NodeKind[node] = "Service" THEN ReachService(d, node, next)
      ELSE IF NodeKind[node] = "PackageVersion" THEN [d EXCEPT !.queue = Append(@, next)]
      ELSE d

FollowPage(d, way) ==
  LET page == Dependents(StoredIndex, way.item.node, d.limits.dependents)
      after[i \in 0..Len(page.hops)] ==
        IF i = 0 THEN [d EXCEPT !.truncated = @ \/ page.truncated]
        ELSE FollowHop(after[i - 1], way, page.hops[i])
  IN  after[Len(page.hops)]

(* The head of the queue: it costs a state whether or not the depth lets   *)
(* its dependents be read.                                                 *)
TraceWay ==
  /\ detail.at = "trace" /\ detail.queue # <<>> /\ detail.states < detail.limits.states
  /\ LET way == Head(detail.queue)
         taken == [detail EXCEPT !.queue = Tail(@), !.states = @ + 1]
     IN  IF Len(way.item.path) >= detail.limits.depth
         THEN detail' = [taken EXCEPT !.truncated = TRUE]
         ELSE IF Dangling(way.item.node) # {} THEN Settle(503)
         ELSE detail' = FollowPage(taken, way)

EndTrace ==
  /\ detail.at = "trace"
  /\ detail.queue = <<>> \/ detail.states >= detail.limits.states
  /\ detail' = [detail EXCEPT !.truncated = @ \/ detail.queue # <<>>, !.at = "answered", !.code = 200]

DetailRead ==
  /\ \/ ReadFinding \/ ReadPackages \/ ReadPackage \/ ReadSupport \/ SupportRead
     \/ ReadVersions \/ ReadVersion \/ BeginTrace \/ TraceWay \/ EndTrace
  /\ UNCHANGED graphVars

DetailInit == (\E s \in Situations : Holding(s)) /\ (\E lim \in DetailLimits : detail = NewDetail(lim))

DetailNext ==
  \/ DetailRead
  \/ DetailFails /\ UNCHANGED graphVars
  \/ detail.at # "answered" /\ WriteRow /\ UNCHANGED detail

(* Statements have a timeout.                                              *)
DetailFairness == WF_detailVars(DetailRead)

-----------------------------------------------------------------------------
(* What a row named at first or names now.                                 *)
EverNodeNames(n) == NodeEvidence[n] \cup NodeNames(n)
EverEdgeNames(e) == EdgeEvidence[e] \cup EdgeNames(e)

CandidateVersions(nodes, edges) ==
  {Target[e] : e \in {d \in edges : EdgeKind[d] = "HAS_VERSION" /\ Source[d] = detail.candidate}}
    \cap nodes

(* The ways on which every hop names the lockfile: those there may have    *)
(* been, and those that were there all the time.                           *)
PossibleWays ==
  DependencyPaths([nodes |-> stored.nodes,
                   edges |-> {e \in stored.index : EverEdgeNames(e) \cap LockfileEvidence # {}}],
                  {v \in CandidateVersions(stored.nodes, stored.edges) :
                     EverNodeNames(v) \cap LockfileEvidence # {}})
CertainWays ==
  DependencyPaths([nodes |-> situation.view.nodes,
                   edges |-> {e \in Indexed(Untouched.edges) : EdgeEvidence[e] \cap LockfileEvidence # {}}],
                  {v \in CandidateVersions(Untouched.nodes, situation.view.edges) :
                     NodeEvidence[v] \cap LockfileEvidence # {}})

(* "A similar-looking package is not treated as confirmed exposure unless  *)
(* the environment has actually resolved or used it": a service is shown   *)
(* only with a way on which every hop names the finding's own lockfile,    *)
(* and an answer that says that nothing was left out shows every service   *)
(* that has such a way, except where another lockfile writes over it.      *)
ExposureIsReal ==
  detail.code = 200 =>
    /\ {detail.services[s].item : s \in DOMAIN detail.services} \subseteq PossibleWays
    /\ \A s \in DOMAIN detail.services :
         LET way == detail.services[s]
         IN  /\ way.item.node = s
             /\ way.evidence # {} /\ way.evidence \subseteq LockfileEvidence
             /\ \A i \in DOMAIN way.item.path :
                  EverEdgeNames(way.item.path[i]) \cap way.evidence # {}
    /\ ~detail.cut /\ ~detail.truncated =>
         {w.node : w \in CertainWays} \subseteq DOMAIN detail.services

=============================================================================
