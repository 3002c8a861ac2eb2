------------------------------- MODULE Containment -------------------------------
(***************************************************************************)
(* Analyses of one immutable batch that persistence has verified:          *)
(* runWave2Authority (analysis/authority/persisted-wave2.ts), and          *)
(* runContainmentSimulation (analysis/containment/persisted-containment.ts *)
(* and containment-simulator.ts), which searches the batch twice, the      *)
(* second time through an overlay that hides what the proposed controls    *)
(* block.  "The simulator never infers a destructive mutation."            *)
(*                                                                         *)
(* Nothing can change between the reads of such an analysis, so that each  *)
(* is one step.  Which of several reasons a plan is refused for is not     *)
(* told apart.                                                             *)
(***************************************************************************)
EXTENDS BlastRadius, AuthorityPropagation

CONSTANTS
  Batches,   \* views: what was persisted
  Controls,  \* Controls[n] of a Control node: [action, applied, evidence]
  Plans      \* [directives, affected, seeds, blast, authority], see below

(* A directive: [control, action, applied, evidence, rationale, nodes,     *)
(* edges]; its first four fields are the control as the caller gives it.   *)
(* `blast` and `authority` are limits.                                     *)
ASSUME ContainmentAssumption ==
  /\ Batches \subseteq Views
  /\ \A p \in Plans : /\ IsFiniteSet(p.seeds) /\ {s.node : s \in p.seeds} \subseteq Nat
                       /\ p.blast.states \in Nat /\ p.authority.states \in Nat
                       /\ p.authority.outgoing \in Nat

VARIABLES
  batch,   \* the batch of this request
  plan,    \* one of Plans
  report   \* [status, ...]: "none", then "refused", "propagated" or "simulated"

containmentVars == <<batch, plan, report>>

NodeActions == {"block-package-version", "revoke-credential", "disable-workflow",
                "rotate-secret", "rollback-artifact", "isolate-service", "restrict-network"}
EdgeActions == {"pin-dependency", "apply-override", "remove-publishing-access"}

(* isAllowedNodeTarget and expectedEdgeKind: what an action may block.     *)
Blockable(action) ==
  CASE action = "block-package-version" -> {"PackageVersion"}
    [] action \in {"revoke-credential", "rotate-secret"} -> {"Credential"}
    [] action = "disable-workflow" -> {"CIWorkflow"}
    [] action = "rollback-artifact" -> {"Artifact"}
    [] action = "isolate-service" -> {"Service"}
    [] action = "restrict-network" -> {"Service", "Deployment"}
    [] action \in {"pin-dependency", "apply-override"} -> {"DEPENDS_ON"}
    [] action = "remove-publishing-access" -> {"CAN_PUBLISH"}

-----------------------------------------------------------------------------
(* validateEvidenceIds: every id names an evidence node of the batch.      *)
EvidenceIn(view, ids) == \A n \in ids : n \in view.nodes /\ NodeKind[n] = "Evidence"

SeedsBacked(view, seeds) ==
  \A s \in seeds : s.evidence # {} /\ EvidenceIn(view, s.evidence)

(* normalizeDirective: evidence, a rationale, and targets of the one sort  *)
(* that the action takes; a control already applied is not simulated.      *)
WellFormed(d) ==
  /\ ~d.applied /\ d.evidence # {} /\ d.rationale
  /\ d.action \in NodeActions => d.nodes # {} /\ d.edges = {}
  /\ d.action \in EdgeActions => d.edges # {} /\ d.nodes = {}

(* validatePersistedEdgeTargets: the control is the persisted one, and     *)
(* shares evidence with every edge that it blocks.                         *)
EdgesTargeted(view, d) ==
  /\ d.control \in view.nodes /\ NodeKind[d.control] = "Control"
  /\ Controls[d.control] = [action |-> d.action, applied |-> d.applied, evidence |-> d.evidence]
  /\ \A e \in d.edges : /\ e \in view.edges /\ EdgeKind[e] \in Blockable(d.action)
                        /\ EdgeEvidence[e] \cap d.evidence # {}

NodesTargeted(view, d) ==
  \A n \in d.nodes : n \in view.nodes /\ NodeKind[n] \in Blockable(d.action)

PlanAccepted(view, p) ==
  /\ p.directives # {} /\ p.affected \cup {s.node : s \in p.seeds} \subseteq view.nodes
  /\ \A c, d \in p.directives : c.control = d.control => c = d
  /\ \A d \in p.directives : /\ WellFormed(d) /\ EvidenceIn(view, d.evidence)
                             /\ EdgesTargeted(view, d) /\ NodesTargeted(view, d)
  /\ SeedsBacked(view, p.seeds)

(* createReadersFromOverlay: which analysis sees which controls.  A        *)
(* rollback or a network restriction is modelled by neither.               *)
BlastActions == {"block-package-version", "isolate-service", "pin-dependency", "apply-override"}
AuthorityActions == {"revoke-credential", "disable-workflow", "rotate-secret",
                     "remove-publishing-access"}

HiddenNodes(p, actions) == UNION {d.nodes : d \in {c \in p.directives : c.action \in actions}}
HiddenEdges(p, actions) == UNION {d.edges : d \in {c \in p.directives : c.action \in actions}}

(* The overlay filters what the source returned: nodes, and edges with     *)
(* their ends.                                                             *)
Overlay(view, p, actions) ==
  LET nodes == view.nodes \ HiddenNodes(p, actions)
  IN  [nodes |-> nodes,
       edges |-> {e \in view.edges \ HiddenEdges(p, actions) :
                    Source[e] \in nodes /\ Target[e] \in nodes}]

(* A page is bounded before it is filtered.                                *)
OverlayPage(view, hidden, n, limit) ==
  LET page == Dependents(view, n, limit)
  IN  [hops |-> InOrder(Range(page.hops) \cap hidden.edges), truncated |-> page.truncated]

(* analyzeBlastRadius over the overlay: as BlastStep, with its pages.      *)
OverlayStep(t, lim, view, hidden) ==
  IF t.queue = <<>> THEN BeginRoot(t, lim, hidden)
  ELSE LET item == Head(t.queue)
           rest == NextItem(t)
           read == Cached(rest, item.node, OverlayPage(view, hidden, item.node, lim.dependents))
       IN  IF NodeKind[item.node] = "Service" THEN RetainService(rest, lim, item)
           ELSE Expand(read, lim, item, read.pages[item.node])

BlastBehind(view, hidden, p) ==
  RunToEnd(BlastStart(p.affected), p.blast, LAMBDA t : OverlayStep(t, p.blast, view, hidden))

-----------------------------------------------------------------------------
(* A fault, used only to see that a property notices it: a comparison of   *)
(* what was seen, complete or not.                                         *)
ImpactAnyway(before, after, authBefore, authAfter) ==
  [conclusive |-> TRUE,
   services |-> Reached(before) \ Reached(after), paths |-> before.found \ after.found,
   targets |-> Reached(authBefore) \ Reached(authAfter),
   authorityPaths |-> authBefore.found \ authAfter.found]

(* calculateImpact: nothing is removed unless all four searches were       *)
(* complete.                                                               *)
CalculateImpact(before, after, authBefore, authAfter) ==
  LET conclusive == \A t \in {before, after, authBefore, authAfter} : ~t.truncated
      claim(S) == IF conclusive THEN S ELSE {}
  IN  [conclusive |-> conclusive,
       services |-> claim(Reached(before) \ Reached(after)),
       paths |-> claim(before.found \ after.found),
       targets |-> claim(Reached(authBefore) \ Reached(authAfter)),
       authorityPaths |-> claim(authBefore.found \ authAfter.found)]

Conclusion(impact) ==
  IF ~impact.conclusive THEN "inconclusive"
  ELSE IF impact.paths # {} \/ impact.authorityPaths # {} THEN "simulated-reduction"
  ELSE "no-simulated-reduction"

(* The evidence of every path of a result is held against the batch again. *)
PathsBacked(view, p, paths, chains) ==
  /\ \A i \in paths.found : \A k \in DOMAIN i.path : EvidenceIn(view, EdgeEvidence[i.path[k]])
  /\ \A i \in chains.found : EvidenceIn(view, PathEvidence(p.seeds, i))

Simulate ==
  /\ report.status = "none" /\ plan.directives # {}
  /\ LET before == BlastRadius(batch, plan.affected, plan.blast)
         after == BlastBehind(batch, Overlay(batch, plan, BlastActions), plan)
         authBefore == Authority(batch, plan.seeds, plan.authority)
         authAfter == Authority(Overlay(batch, plan, AuthorityActions), plan.seeds, plan.authority)
         impact == CalculateImpact(before, after, authBefore, authAfter)
     IN  report' = IF /\ PlanAccepted(batch, plan)
                      /\ PathsBacked(batch, plan, before, authBefore)
                      /\ PathsBacked(batch, plan, after, authAfter)
                   THEN [status |-> "simulated", impact |-> impact, conclusion |-> Conclusion(impact)]
                   ELSE [status |-> "refused"]
  /\ UNCHANGED <<batch, plan>>

(* runWave2Authority: what supports a path must be evidence too.           *)
Propagate ==
  /\ report.status = "none" /\ plan.directives = {}
  /\ LET result == Authority(batch, plan.seeds, plan.authority)
         backing == [i \in result.found |-> PathEvidence(plan.seeds, i)]
     IN  report' = IF /\ SeedsBacked(batch, plan.seeds)
                      /\ \A i \in result.found : EvidenceIn(batch, backing[i])
                   THEN [status |-> "propagated", found |-> result.found, backing |-> backing,
                         truncated |-> result.truncated]
                   ELSE [status |-> "refused"]
  /\ UNCHANGED <<batch, plan>>

ContainmentInit ==
  /\ batch \in Batches /\ plan \in Plans
  /\ report = [status |-> "none"]

ContainmentNext == Simulate \/ Propagate

-----------------------------------------------------------------------------
(* A path is cut when a control that the analysis knows blocks a node or   *)
(* an edge of it.                                                          *)
Cut(item, actions) ==
  \/ PathNodes(item) \cap HiddenNodes(plan, actions) # {}
  \/ \E i \in DOMAIN item.path : item.path[i] \in HiddenEdges(plan, actions)

(* A conclusive simulation removes exactly what its controls cut, however  *)
(* many other paths lead to the same service: a service or a target is     *)
(* removed when no path to it is left.  An inconclusive one claims         *)
(* nothing.                                                                *)
ReductionIsReal ==
  report.status = "simulated" =>
    LET paths == DependencyPaths(batch, plan.affected)
        chains == AuthorityPaths(batch, plan.seeds)
        impact == report.impact
        lost(all, actions) == {i \in all : Cut(i, actions)}
        gone(all, actions) == {i.node : i \in all} \ {i.node : i \in all \ lost(all, actions)}
    IN  IF impact.conclusive
        THEN /\ impact.paths = lost(paths, BlastActions)
             /\ impact.authorityPaths = lost(chains, AuthorityActions)
             /\ impact.services = gone(paths, BlastActions)
             /\ impact.targets = gone(chains, AuthorityActions)
        ELSE impact.paths \cup impact.authorityPaths \cup impact.services \cup impact.targets = {}

(* Authority that is reported is a path of valid steps from a seed, with   *)
(* the evidence of the seed and of every step, none of it missing; unless  *)
(* it was truncated all such paths are there.                              *)
AuthorityIsBacked ==
  report.status = "propagated" =>
    /\ report.found \subseteq AuthorityPaths(batch, plan.seeds)
    /\ ~report.truncated => AuthorityPaths(batch, plan.seeds) \subseteq report.found
    /\ \A i \in report.found :
         /\ report.backing[i] \subseteq {n \in batch.nodes : NodeKind[n] = "Evidence"}
         /\ \A s \in plan.seeds : s.node = i.root => s.evidence \subseteq report.backing[i]
         /\ \A k \in DOMAIN i.path : EdgeEvidence[i.path[k]] \subseteq report.backing[i]

=============================================================================
