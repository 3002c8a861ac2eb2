------------------------- MODULE MCPersistenceService -------------------------
(* Model-checking definitions for PersistenceService: two batches over two *)
(* nodes, the edge between them and its derived index row.                 *)
EXTENDS PersistenceService

CONSTANTS c1, c2, n1, n2, e, d

McEnds == [r \in Rows |-> IF r \in {e, d} THEN {n1, n2} ELSE {}]
McBase == [r \in Rows |-> IF r = d THEN {e} ELSE {}]

(* The whole graph with one chunk per node, and the whole graph again at a *)
(* later time in larger chunks.                                            *)
McChunks ==
  [c \in Calls |->
     [nodes |-> IF c = c1 THEN <<{n1}, {n2}>> ELSE <<{n1, n2}>>,
      canonical |-> <<{e}>>, derived |-> <<{d}>>]]

McStamp == [c \in Calls |-> IF c = c1 THEN 1 ELSE 2]

=============================================================================
