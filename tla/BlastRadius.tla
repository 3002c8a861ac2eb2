------------------------------ MODULE BlastRadius ------------------------------
(***************************************************************************)
(* analyzeBlastRadius (analysis/core/blast-radius.ts): from the affected   *)
(* package versions against the direction of DEPENDS_ON to the services    *)
(* that structurally depend on them.  "A derived USED_BY edge may help a   *)
(* reader find a hop, but it is never accepted as evidence."               *)
(*                                                                         *)
(* BlastStep is one turn of its loops: a root, or one item of the queue    *)
(* with the single page of dependents that may have to be read for it.     *)
(* Between two steps the graph may change.                                 *)
(***************************************************************************)
EXTENDS Traversal

(* limits: depth, services, pathsPerService, paths, states, dependents and *)
(* warnings.                                                               *)

(* findDependents: the edges that arrive at n, in the order of their ids,  *)
(* and whether there were more than the limit.                             *)
Dependents(view, n, limit) ==
  LET all == {e \in view.edges : /\ EdgeKind[e] = "DEPENDS_ON"
                                 /\ Target[e] = n /\ Source[e] \in view.nodes}
      bounded == {e \in all : Cardinality({d \in all : d < e}) < limit}
  IN  [hops |-> InOrder(bounded), truncated |-> bounded # all]

-----------------------------------------------------------------------------
BeginRoot(t, lim, view) ==
  LET root == Head(t.roots)
      next == NextRoot(t)
  IN  IF root \notin view.nodes
      THEN Warn(next, lim.warnings, <<"missing-node", root>>)
      ELSE IF NodeKind[root] # "PackageVersion"
      THEN Warn(next, lim.warnings, <<"unsupported-root-node", root>>)
      ELSE Admit(next, lim, Item(root, root, <<>>))

(* A path that has arrived at a service is kept as far as the limits       *)
(* allow; only the limit of all paths ends the search.                     *)
RetainService(t, lim, item) ==
  LET paths == FoundAt(t, item.node)
  IN  IF item \in paths THEN t
      ELSE IF paths = {} /\ Cardinality(Reached(t)) >= lim.services
      THEN WarnTruncated(t, lim.warnings, <<"service-limit-reached", item>>)
      ELSE IF paths # {} /\ Cardinality(paths) >= lim.pathsPerService
      THEN WarnTruncated(t, lim.warnings, <<"paths-per-service-limit-reached", item>>)
      ELSE IF Cardinality(t.found) >= lim.paths
      THEN [WarnTruncated(t, lim.warnings, <<"path-limit-reached", item>>) EXCEPT !.stop = TRUE]
      ELSE [t EXCEPT !.found = @ \cup {item}]

(* One hop of a page.  At the depth limit one warning stands for all hops  *)
(* that are not followed.                                                  *)
Follow(t, lim, item, edge) ==
  LET next == Item(item.root, Source[edge], Append(item.path, edge))
  IN  IF t.stop THEN t
      ELSE IF EdgeKind[edge] # "DEPENDS_ON" \/ Target[edge] # item.node
      THEN Warn(t, lim.warnings, <<"invalid-canonical-hop", item, edge>>)
      ELSE IF next.node \in PathNodes(item)
      THEN Warn(t, lim.warnings, <<"cycle-skipped", item, next.node>>)
      ELSE IF Len(item.path) >= lim.depth
      THEN WarnTruncated(t, lim.warnings, <<"depth-limit-reached", item>>)
      ELSE IF next \in t.seen THEN t
      ELSE Admit(t, lim, next)

Expand(t, lim, item, page) ==
  LET begun == IF page.truncated
               THEN WarnTruncated(t, lim.warnings, <<"dependents-per-node-limit-reached", item>>)
               ELSE t
      after[i \in 0..Len(page.hops)] ==
        IF i = 0 THEN begun ELSE Follow(after[i - 1], lim, item, page.hops[i])
  IN  after[Len(page.hops)]

BlastStep(t, lim, view) ==
  IF t.queue = <<>> THEN BeginRoot(t, lim, view)
  ELSE LET item == Head(t.queue)
           rest == NextItem(t)
           read == Cached(rest, item.node, Dependents(view, item.node, lim.dependents))
       IN  IF NodeKind[item.node] = "Service" THEN RetainService(rest, lim, item)
           ELSE Expand(read, lim, item, read.pages[item.node])

(* The affected ids once each, in their order.                             *)
BlastStart(roots) == Fresh(InOrder(roots))

(* The whole search of a graph that does not change (runBlastRadius and    *)
(* the containment simulator, over a batch).                               *)
BlastRadius(view, roots, lim) ==
  RunToEnd(BlastStart(roots), lim, LAMBDA t : BlastStep(t, lim, view))

-----------------------------------------------------------------------------
(* The reference: the simple paths against DEPENDS_ON that end at the      *)
(* first service on them.                                                  *)
DependencyGraph(view, roots) ==
  [nodes |-> view.nodes, from |-> Target, to |-> Source,
   starts |-> {n \in roots \cap view.nodes : NodeKind[n] = "PackageVersion"},
   steps |-> {e \in view.edges : EdgeKind[e] = "DEPENDS_ON"},
   last |-> {n \in view.nodes : NodeKind[n] = "Service"}]

DependencyPaths(view, roots) ==
  {i \in PathsOf(DependencyGraph(view, roots)) : NodeKind[i.node] = "Service"}

=============================================================================
