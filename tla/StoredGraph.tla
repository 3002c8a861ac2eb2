------------------------------ MODULE StoredGraph ------------------------------
(***************************************************************************)
(* The rows that HydraDB holds while one batch is persisted                *)
(* (db/hydra-writer.ts), for the readers of findings and of packages: the  *)
(* nodes, then the canonical edges, then the USED_BY edges that index      *)
(* them.  A row that was there is written over: a lockfile that resolves   *)
(* what another one did leaves its own evidence in their common rows.      *)
(***************************************************************************)
EXTENDS BlastRadius, EvidenceFunnel

CONSTANTS
  PackageOf,   \* PackageOf[n] of a package version: its package
  Situations   \* [view, batch, evidence]: what is stored at first, what is
               \* persisted, and the evidence the batch names in its rows;
               \* {} when they name what EdgeEvidence and NodeEvidence say

(* validateGraphBatch (domain/validator.ts): an edge has its two ends, and *)
(* packages are depended on by packages and services.                      *)
ASSUME SituationAssumption ==
  \A s \in Situations :
    /\ s.view \in Views /\ s.batch \in Views /\ s.evidence \subseteq Nodes
    /\ \A e \in s.view.edges : {Source[e], Target[e]} \subseteq s.view.nodes
    /\ \A e \in s.view.edges : EdgeKind[e] = "DEPENDS_ON" =>
         NodeKind[Source[e]] \in {"PackageVersion", "Service"}

VARIABLES
  situation,
  stored,      \* [nodes, edges, index]
  pending,     \* [nodes, edges, index]: rows of the batch still to be written
  rewritten    \* [nodes, edges]: rows the batch has written

graphVars == <<situation, stored, pending, rewritten>>

Phases == {"nodes", "edges", "index"}
Earlier == [nodes |-> {}, edges |-> {"nodes"}, index |-> {"nodes", "edges"}]
Indexed(edges) == {e \in edges : EdgeKind[e] = "DEPENDS_ON"}
RowsOf(view) == [nodes |-> view.nodes, edges |-> view.edges, index |-> Indexed(view.edges)]

(* A function of one more thing, for what is found one by one.             *)
Extend(f, x, y) == [z \in DOMAIN f \cup {x} |-> IF z = x THEN y ELSE f[z]]

FirstOf(S, k) == {n \in S : Cardinality({m \in S : m < n}) < k}

(* The evidence a stored row names.                                        *)
ByBatch(own) == IF situation.evidence = {} THEN own ELSE situation.evidence
NodeNames(n) == IF n \in rewritten.nodes THEN ByBatch(NodeEvidence[n]) ELSE NodeEvidence[n]
EdgeNames(e) == IF e \in rewritten.edges THEN ByBatch(EdgeEvidence[e]) ELSE EdgeEvidence[e]

WriteRow ==
  \E phase \in Phases : \E row \in FirstOf(pending[phase], 1) :
    /\ \A p \in Earlier[phase] : pending[p] = {}
    /\ stored' = [stored EXCEPT ![phase] = @ \cup {row}]
    /\ pending' = [pending EXCEPT ![phase] = @ \ {row}]
    /\ rewritten' = IF phase = "index" THEN rewritten
                    ELSE [rewritten EXCEPT ![phase] = @ \cup {row}]
    /\ UNCHANGED situation

Holding(s) == /\ situation = s /\ stored = RowsOf(s.view) /\ pending = RowsOf(s.batch)
              /\ rewritten = [nodes |-> {}, edges |-> {}]

(* What can be traversed, and the index rows at a node that lead nowhere.  *)
StoredIndex == [nodes |-> stored.nodes, edges |-> stored.index]
Dangling(node) == {e \in stored.index \ stored.edges : Target[e] = node}

(* The canonical edges of a kind that are stored.                          *)
StoredEdges(kind) == {e \in stored.edges : /\ EdgeKind[e] = kind
                                           /\ {Source[e], Target[e]} \subseteq stored.nodes}

(* What was stored at first and has not been written over.                 *)
Untouched == [nodes |-> situation.view.nodes \ rewritten.nodes,
              edges |-> situation.view.edges \ rewritten.edges]

StoredTypeOK ==
  /\ situation \in Situations
  /\ \A phase \in Phases : pending[phase] \cup stored[phase] \subseteq Nodes \cup Edges
  /\ rewritten.nodes \subseteq Nodes /\ rewritten.edges \subseteq Edges

=============================================================================
