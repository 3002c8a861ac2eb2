------------------------------- MODULE Traversal -------------------------------
(***************************************************************************)
(* What the two bounded breadth-first searches of the analysis have in     *)
(* common (analysis/core/blast-radius.ts and                               *)
(* analysis/authority/wave2-propagation.ts): roots that are searched one   *)
(* after the other, a queue of paths, a budget of traversal states and a   *)
(* budget of warnings whose last slot is reserved.                         *)
(*                                                                         *)
(* A search in progress is a record that one step at a time rewrites.  A   *)
(* warning is the tuple its key is made of: warnings are reported once and *)
(* sorted, so that a set of them says the same.  Node and edge ids are     *)
(* numbers: pages and roots come in their order.                           *)
(***************************************************************************)
EXTENDS Naturals, FiniteSets, SequencesExt

CONSTANTS
  Nodes, Edges,      \* ids
  NodeKind,          \* NodeKind[n]
  EdgeKind,          \* EdgeKind[e]: a canonical relationship
  Source, Target,    \* its end points
  EdgeEvidence       \* EdgeEvidence[e]: the evidence nodes it names

ASSUME GraphAssumption ==
  /\ Nodes \subseteq Nat /\ IsFiniteSet(Nodes)
  /\ Edges \subseteq Nat /\ IsFiniteSet(Edges)
  /\ Source \in [Edges -> Nodes] /\ Target \in [Edges -> Nodes]
  /\ EdgeEvidence \in [Edges -> SUBSET Nodes]

(* What a reader can see: nodes and canonical edges.                       *)
Views == [nodes : SUBSET Nodes, edges : SUBSET Edges]

(* Numbers in their order: the i-th is the one with i - 1 below it.        *)
InOrder(S) == [i \in 1..Cardinality(S) |-> CHOOSE n \in S : Cardinality({m \in S : m < n}) = i - 1]

(* A path from a root: the edges in the order they were followed.  `node`  *)
(* is where it has arrived.                                                *)
Item(root, node, path) == [root |-> root, node |-> node, path |-> path]

PathNodes(item) ==
  {item.root} \cup {Source[item.path[i]] : i \in DOMAIN item.path}
              \cup {Target[item.path[i]] : i \in DOMAIN item.path}

Fresh(roots) ==
  [roots |-> roots, queue |-> <<>>, seen |-> {}, admitted |-> 0, pages |-> <<>>,
   found |-> {}, warnings |-> {}, full |-> FALSE, truncated |-> FALSE, stop |-> FALSE]

Searching(t) == ~t.stop /\ (t.roots # <<>> \/ t.queue # <<>>)

(* addWarning: a warning is recorded once; the one that would take the     *)
(* last slot becomes the notification that there is no more room, and ends *)
(* the search.                                                             *)
Warn(t, room, warning) ==
  IF warning \in t.warnings \/ t.full THEN t
  ELSE IF Cardinality(t.warnings) >= room - 1
       THEN [t EXCEPT !.full = TRUE, !.truncated = TRUE, !.stop = TRUE,
                      !.warnings = @ \cup {<<"warning-limit-reached">>}]
       ELSE [t EXCEPT !.warnings = @ \cup {warning}]

(* Something is left out: the result says so.                              *)
WarnTruncated(t, room, warning) == Warn([t EXCEPT !.truncated = TRUE], room, warning)

(* A fault, used only to see that a property notices it: a search that     *)
(* ends for want of states and does not say so.                            *)
AdmitQuietly(t, lim, item) ==
  IF t.admitted < lim.states
  THEN [t EXCEPT !.admitted = @ + 1, !.queue = Append(@, item), !.seen = @ \cup {item}]
  ELSE [t EXCEPT !.stop = TRUE]

(* admitTraversalState and the push onto the queue.                        *)
Admit(t, lim, item) ==
  IF t.admitted < lim.states
  THEN [t EXCEPT !.admitted = @ + 1, !.queue = Append(@, item), !.seen = @ \cup {item}]
  ELSE [WarnTruncated(t, lim.warnings, <<"traversal-state-limit-reached", item>>)
          EXCEPT !.stop = TRUE]

NextRoot(t) == [t EXCEPT !.roots = Tail(@)]

(* A fault: the queue does not move on.                                    *)
SameItem(t) == t

NextItem(t) == [t EXCEPT !.queue = Tail(@)]

(* The page of a node is read once; later paths through it see the same.   *)
Cached(t, node, page) ==
  IF node \in DOMAIN t.pages THEN t
  ELSE [t EXCEPT !.pages = [n \in DOMAIN @ \cup {node} |-> IF n = node THEN page ELSE @[n]]]

FoundAt(t, node) == {p \in t.found : p.node = node}
Reached(t) == {p.node : p \in t.found}

(* A search of a graph that does not change: every step takes a root or an *)
(* admitted item away.                                                     *)
RunToEnd(t, lim, Step(_)) ==
  LET turns == lim.states + Len(t.roots)
      after[k \in 0..turns] ==
        IF k = 0 THEN t
        ELSE LET s == after[k - 1] IN IF Searching(s) THEN Step(s) ELSE s
  IN  after[turns]

(* The reference the searches are compared with, stated without a queue:   *)
(* the simple paths of a graph g, [nodes, starts, steps, from, to, last].  *)
(* They begin at `starts`; a step e is taken from from[e] to to[e]; no     *)
(* step is taken from a node of `last`.                                    *)
StepsOf(g, item) ==
  {e \in g.steps : g.from[e] = item.node /\ g.to[e] \in g.nodes \ PathNodes(item)}
Longer(g, paths) ==
  UNION {{Item(i.root, g.to[e], Append(i.path, e)) : e \in StepsOf(g, i)} :
           i \in {p \in paths : p.node \notin g.last}}
PathsOf(g) ==
  LET upTo[k \in 0..Cardinality(g.nodes)] ==
        IF k = 0 THEN {Item(r, r, <<>>) : r \in g.starts}
        ELSE LET shorter == upTo[k - 1] IN shorter \cup Longer(g, shorter)
  IN  upTo[Cardinality(g.nodes)]

=============================================================================
