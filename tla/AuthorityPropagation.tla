-------------------------- MODULE AuthorityPropagation --------------------------
(***************************************************************************)
(* analyzeWave2Authority (analysis/authority/wave2-propagation.ts): which  *)
(* packages, workflows, credentials ... the authority of a seed reaches in *)
(* the graph.  A seed is a node with the evidence for why it matters:      *)
(* [node, evidence].                                                       *)
(***************************************************************************)
EXTENDS Traversal

(* limits: depth, targets, pathsPerTarget, states, outgoing and warnings.  *)

(* isValidAuthorityTransition: who may lead where.                         *)
Transitions ==
  {<<"Maintainer", "MAINTAINS", "Package">>, <<"Maintainer", "MEMBER_OF", "Organization">>,
   <<"Organization", "OWNS", "Package">>, <<"Organization", "OWNS", "Repository">>,
   <<"Organization", "OWNS", "Service">>, <<"Repository", "TRIGGERS", "CIWorkflow">>,
   <<"Maintainer", "CONTROLS", "Credential">>, <<"Organization", "CONTROLS", "Credential">>,
   <<"CIWorkflow", "CAN_ACCESS", "Credential">>, <<"Credential", "CAN_PUBLISH", "Package">>}

SeedKinds == {"Maintainer", "Organization", "Repository", "CIWorkflow", "Credential"}

ValidTransition(edge) ==
  /\ <<NodeKind[Source[edge]], EdgeKind[edge], NodeKind[Target[edge]]>> \in Transitions
  /\ EdgeEvidence[edge] # {}

(* findOutgoingAuthorityHops: every authority edge that leaves n.          *)
Outgoing(view, n) ==
  InOrder({e \in view.edges : /\ EdgeKind[e] \in {k[2] : k \in Transitions}
                              /\ Source[e] = n /\ Target[e] \in view.nodes})

(* normalizeSeeds: one seed per node, with all of its evidence.            *)
SeedEvidence(seeds, n) == UNION {s.evidence : s \in {x \in seeds : x.node = n}}

-----------------------------------------------------------------------------
BeginSeed(t, lim, view, seeds) ==
  LET seed == Head(t.roots)
      next == NextRoot(t)
  IN  IF SeedEvidence(seeds, seed) = {}
      THEN Warn(next, lim.warnings, <<"missing-seed-evidence", seed>>)
      ELSE IF seed \notin view.nodes
      THEN Warn(next, lim.warnings, <<"missing-seed-node", seed>>)
      ELSE IF NodeKind[seed] \notin SeedKinds
      THEN Warn(next, lim.warnings, <<"unsupported-seed-kind", seed>>)
      ELSE Admit(next, lim, Item(seed, seed, <<>>))

(* retainTargetPath: every node but the seed is a target; a target too     *)
(* many ends the search, a path too many does not.                         *)
RetainTarget(t, lim, item) ==
  LET paths == FoundAt(t, item.node)
  IN  IF item.path = <<>> \/ item \in paths THEN t
      ELSE IF paths = {} /\ Cardinality(Reached(t)) >= lim.targets
      THEN [WarnTruncated(t, lim.warnings, <<"target-limit-reached", item>>) EXCEPT !.stop = TRUE]
      ELSE IF paths # {} /\ Cardinality(paths) >= lim.pathsPerTarget
      THEN WarnTruncated(t, lim.warnings, <<"paths-per-target-limit-reached", item>>)
      ELSE [t EXCEPT !.found = @ \cup {item}]

FollowAuthority(t, lim, item, edge) ==
  LET next == Item(item.root, Target[edge], Append(item.path, edge))
  IN  IF t.stop THEN t
      ELSE IF ~ValidTransition(edge)
      THEN Warn(t, lim.warnings, <<"invalid-authority-hop", item, edge>>)
      ELSE IF next.node \in PathNodes(item)
      THEN Warn(t, lim.warnings, <<"cycle-skipped", item, edge>>)
      ELSE IF next \in t.seen THEN t
      ELSE Admit(t, lim, next)

(* The hops beyond the limit are left out, then the depth is looked at.    *)
ExpandAuthority(t, lim, item, all) ==
  LET cut == IF Len(all) > lim.outgoing
             THEN WarnTruncated(t, lim.warnings, <<"outgoing-edge-limit-reached", item>>)
             ELSE t
      hops == SubSeq(all, 1, IF Len(all) > lim.outgoing THEN lim.outgoing ELSE Len(all))
      after[i \in 0..Len(hops)] ==
        IF i = 0 THEN cut ELSE FollowAuthority(after[i - 1], lim, item, hops[i])
  IN  IF cut.stop THEN cut
      ELSE IF Len(item.path) >= lim.depth
      THEN IF hops = <<>> THEN cut
           ELSE WarnTruncated(cut, lim.warnings, <<"depth-limit-reached", item>>)
      ELSE after[Len(hops)]

AuthorityStep(t, lim, view, seeds) ==
  IF t.queue = <<>> THEN BeginSeed(t, lim, view, seeds)
  ELSE LET item == Head(t.queue)
           kept == RetainTarget(NextItem(t), lim, item)
           read == Cached(kept, item.node, Outgoing(view, item.node))
       IN  IF kept.stop THEN kept ELSE ExpandAuthority(read, lim, item, read.pages[item.node])

AuthorityStart(seeds) == Fresh(InOrder({s.node : s \in seeds}))

Authority(view, seeds, lim) ==
  RunToEnd(AuthorityStart(seeds), lim, LAMBDA t : AuthorityStep(t, lim, view, seeds))

(* A fault, used only to see that a property notices it: a path that       *)
(* claims the evidence of its edges alone.                                 *)
EdgesAlone(seeds, item) == UNION {EdgeEvidence[item.path[i]] : i \in DOMAIN item.path}

(* collectPathEvidence: what supports a path, the seed's evidence too.     *)
PathEvidence(seeds, item) ==
  SeedEvidence(seeds, item.root) \cup UNION {EdgeEvidence[item.path[i]] : i \in DOMAIN item.path}

-----------------------------------------------------------------------------
(* The reference: the simple paths of valid transitions from the seeds     *)
(* that may be searched.                                                   *)
AuthorityGraph(view, seeds) ==
  [nodes |-> view.nodes, from |-> Source, to |-> Target,
   starts |-> {n \in view.nodes : SeedEvidence(seeds, n) # {} /\ NodeKind[n] \in SeedKinds},
   steps |-> {e \in view.edges : ValidTransition(e)},
   last |-> {}]

AuthorityPaths(view, seeds) == {i \in PathsOf(AuthorityGraph(view, seeds)) : i.path # <<>>}

=============================================================================
