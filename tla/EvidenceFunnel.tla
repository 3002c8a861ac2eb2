----------------------------- MODULE EvidenceFunnel -----------------------------
(***************************************************************************)
(* What the evidence that could be read says of the paths of a blast       *)
(* radius: the funnel that counts them (analysis/core/evidence-funnel.ts)  *)
(* and the decision for every path and service                             *)
(* (analysis/core/service-impact-explanation.ts).  Each is given the       *)
(* evidence nodes that were read for it, which are not the same reads.     *)
(***************************************************************************)
EXTENDS Traversal

CONSTANTS
  EvidenceSource,      \* EvidenceSource[n] of an evidence node
  EvidenceConfidence,  \* a number
  NodeEvidence,        \* NodeEvidence[n]: the evidence a node names
  HighConfidence,      \* highConfidenceThreshold
  MaxEvidenceIds       \* of one lookup

ExactSources == {"package-lock", "cyclonedx", "spdx", "synthetic-fixture"}
ContextualSources == {"npm-registry", "package-manifest", "security-advisory", "other"}

EdgesOf(item) == {item.path[i] : i \in DOMAIN item.path}

(* collectReferencedEvidenceIds, and the budget: the least ids of a list.  *)
Referenced(paths) == UNION {EdgeEvidence[e] : e \in UNION {EdgesOf(p) : p \in paths}}
WithinBudget(ids) == {n \in ids : Cardinality({m \in ids : m < n}) < MaxEvidenceIds}

(* Nothing omitted, nothing missing.                                       *)
LookupComplete(ids, read) == WithinBudget(ids) = ids /\ ids \subseteq read

Verified(item, read) ==
  item.path # <<>> /\ \A e \in EdgesOf(item) : EdgeEvidence[e] \cap read # {}

Confident(item, read) ==
  /\ Verified(item, read)
  /\ \A e \in EdgesOf(item) : \E n \in EdgeEvidence[e] \cap read :
       EvidenceConfidence[n] >= HighConfidence

(* buildEvidenceFunnel: stages of paths, each within the one before.       *)
Funnel(paths, read, truncated) ==
  [candidates |-> paths,
   verified |-> {p \in paths : Verified(p, read)},
   confident |-> {p \in paths : Confident(p, read)},
   complete |-> LookupComplete(Referenced(paths), read),
   completeForIncident |-> LookupComplete(Referenced(paths), read) /\ ~truncated]

-----------------------------------------------------------------------------
(* collectRelevantEvidenceIds: what the catalog is asked for.              *)
Relevant(incident, affected, affectsEvidence, paths) ==
  NodeEvidence[incident] \cup affectsEvidence \cup Referenced(paths)
    \cup UNION {NodeEvidence[n] : n \in affected \cup UNION {PathNodes(p) : p \in paths}}

ExactEvidence(e, read) == {n \in EdgeEvidence[e] \cap read : EvidenceSource[n] \in ExactSources}

(* A fault, used only to see that a property notices it: some hop of the   *)
(* path is resolved exactly.                                               *)
SomeHopExact(item, read, complete) ==
  complete /\ Verified(item, read) /\ \E e \in EdgesOf(item) : ExactEvidence(e, read) # {}

(* assessPath: "resolved" takes complete evidence and an exact source for  *)
(* every hop.                                                              *)
PathComplete(item, read, complete) ==
  complete /\ \A e \in EdgesOf(item) : EdgeEvidence[e] \subseteq read

ExactlyResolved(item, read, complete) ==
  /\ PathComplete(item, read, complete) /\ Verified(item, read)
  /\ \A e \in EdgesOf(item) : ExactEvidence(e, read) # {}

(* The weakest hop decides, and of a hop its strongest exact evidence.     *)
Level(item, read, complete) ==
  IF ~PathComplete(item, read, complete) THEN "unknown"
  ELSE IF ExactlyResolved(item, read, complete)
  THEN IF \A e \in EdgesOf(item) : \E n \in ExactEvidence(e, read) :
            EvidenceConfidence[n] >= HighConfidence
       THEN "strong" ELSE "probable"
  ELSE IF ~Verified(item, read) THEN "unknown"
  ELSE IF \A e \in EdgesOf(item), n \in Referenced({item}) \cap read :
            n \in EdgeEvidence[e] => EvidenceSource[n] \in ContextualSources
  THEN "contextual" ELSE "possible"

LevelOrder == [l \in {"unknown", "contextual", "possible", "probable", "strong"} |->
                 CASE l = "unknown" -> 0 [] l = "contextual" -> 1 [] l = "possible" -> 2
                   [] l = "probable" -> 3 [] l = "strong" -> 4]

(* buildServiceImpactExplanations: the best path of a service, by stage    *)
(* and then by confidence, decides for it.                                 *)
Impact(paths, read, complete) ==
  [stage |-> IF \E p \in paths : ExactlyResolved(p, read, complete) THEN "resolved" ELSE "candidate",
   level |-> LET best == IF \E p \in paths : ExactlyResolved(p, read, complete)
                         THEN {p \in paths : ExactlyResolved(p, read, complete)} ELSE paths
                 levels == {Level(p, read, complete) : p \in best}
             IN  CHOOSE l \in levels : \A m \in levels : LevelOrder[m] <= LevelOrder[l],
   complete |-> complete /\ \A p \in paths : PathComplete(p, read, complete),
   versions |-> {p.root : p \in {q \in paths : ExactlyResolved(q, read, complete)}}]

Impacts(paths, read, complete) ==
  [s \in {p.node : p \in paths} |-> Impact({p \in paths : p.node = s}, read, complete)]

=============================================================================
