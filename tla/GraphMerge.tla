------------------------------ MODULE GraphMerge ------------------------------
(***************************************************************************)
(* mergeGraphFragments (ingest/graph-batch.ts): the fragments that         *)
(* collectors observed independently become one batch, which validateGraph *)
(* (domain/validator.ts) accepts, or nothing.  "The function fails closed: *)
(* contradictory facts never silently overwrite one another."              *)
(*                                                                         *)
(* An identity is the hash of what it names (domain/identity.ts), so that  *)
(* two observations meet exactly when they have the same name.  Fragments  *)
(* are merged in an arbitrary order: no caller's order may matter.         *)
(***************************************************************************)
EXTENDS Naturals

CONSTANTS
  Fragments,  \* what may be merged
  Names,      \* logical identities of nodes and edges
  Content,    \* Content[f][n]: what fragment f says of n, or Absent
  Ends,       \* Ends[n]: <<source, target>> of an edge, <<>> for a node
  Index,      \* Index[n]: the USED_BY edge that reverses DEPENDS_ON edge n
  Allowed,    \* hasAllowedEndpoints: triples of kinds, edge, source, target
  Fields,     \* the other properties of nodes and edges
  Values,     \* their values
  Absent

Kinds == {"Evidence", "DEPENDS_ON", "USED_BY"} \cup {t[1] : t \in Allowed}
           \cup {t[2] : t \in Allowed} \cup {t[3] : t \in Allowed}

(* `made` orders (generatedAt, generatorVersion) of a derived edge; what   *)
(* has no such property, or no synthetic one, has 0 and FALSE.             *)
Entity == [kind : Kinds, fields : [Fields -> Values \cup {Absent}],
           evidence : SUBSET Names, synthetic : BOOLEAN, at : Nat, made : Nat]

Graphs == [Names -> Entity \cup {Absent}]

ASSUME MergeAssumption ==
  /\ Absent \notin Values /\ Absent \notin Entity
  /\ Content \in [Fragments -> Graphs]
  /\ \A n \in Names : Ends[n] = <<>> \/ Ends[n] \in Names \X Names
  /\ Index \in [Names -> Names]

VARIABLES
  pending,  \* fragments yet to be merged
  merged,   \* fragments merged so far
  graph,    \* what they say together
  outcome   \* "none" before, "merging", then "conflict", "invalid" or "batch"

mergeVars == <<pending, merged, graph, outcome>>

Larger(s, t) == IF s >= t THEN s ELSE t

(* A fault, used only to see that a property notices it: the later         *)
(* observation taken for the more recent one.                              *)
MergedInOrder(a, b) ==
  [kind |-> a.kind,
   fields |-> [x \in Fields |-> IF a.fields[x] # Absent THEN a.fields[x]
                                                        ELSE b.fields[x]],
   evidence |-> a.evidence \cup b.evidence,
   synthetic |-> a.synthetic /\ (a.kind = "Evidence" \/ b.synthetic),
   at |-> b.at,
   made |-> Larger(a.made, b.made)]

-----------------------------------------------------------------------------
(* Two observations of one identity contradict each other in their kind,   *)
(* in a property that both have, or in whether evidence is synthetic.      *)
Agree(a, b) ==
  /\ a.kind = b.kind
  /\ \A x \in Fields : Absent \in {a.fields[x], b.fields[x]} \/ a.fields[x] = b.fields[x]
  /\ a.kind = "Evidence" => a.synthetic = b.synthetic

(* mergeNodes, mergeCanonicalEdges and mergeDerivedEdges: complementary    *)
(* properties, all the evidence, the latest observation and the latest     *)
(* derivation; synthetic only if every observation is.                     *)
Merged(a, b) ==
  [kind |-> a.kind,
   fields |-> [x \in Fields |-> IF a.fields[x] # Absent THEN a.fields[x]
                                                        ELSE b.fields[x]],
   evidence |-> a.evidence \cup b.evidence,
   synthetic |-> a.synthetic /\ (a.kind = "Evidence" \/ b.synthetic),
   at |-> Larger(a.at, b.at),
   made |-> Larger(a.made, b.made)]

Both(g, h, n) == g[n] # Absent /\ h[n] # Absent

Contradict(g, h) == \E n \in Names : Both(g, h, n) /\ ~Agree(g[n], h[n])

Joined(g, h) ==
  [n \in Names |-> IF Both(g, h, n) THEN Merged(g[n], h[n])
                   ELSE IF g[n] = Absent THEN h[n] ELSE g[n]]

(* validateGraph, as far as it relates nodes and edges: endpoints are      *)
(* there and of the right kinds, evidence supports everything but itself   *)
(* and what is derived, synthetic entities rest on synthetic evidence.     *)
ValidEntity(g, n) ==
  /\ Ends[n] # <<>> => \A k \in {1, 2} : g[Ends[n][k]] # Absent
  /\ Ends[n] # <<>> /\ g[n].kind # "USED_BY" =>
       <<g[n].kind, g[Ends[n][1]].kind, g[Ends[n][2]].kind>> \in Allowed
  /\ (g[n].evidence = {}) = (g[n].kind \in {"Evidence", "USED_BY"})
  /\ \A e \in g[n].evidence : g[e] # Absent /\ g[e].kind = "Evidence"
  /\ g[n].synthetic /\ g[n].kind # "Evidence" =>
       \E e \in g[n].evidence : g[e].synthetic

(* validateParity: every DEPENDS_ON edge has its USED_BY edge, reversed,   *)
(* and no USED_BY edge is there without it.                                *)
Parity(g, n) ==
  /\ g[n].kind = "DEPENDS_ON" =>
       /\ g[Index[n]] # Absent /\ g[Index[n]].kind = "USED_BY"
       /\ Ends[Index[n]] = <<Ends[n][2], Ends[n][1]>>
  /\ g[n].kind = "USED_BY" =>
       \E d \in Names : Index[d] = n /\ g[d] # Absent /\ g[d].kind = "DEPENDS_ON"

Valid(g) == \A n \in Names : g[n] # Absent => ValidEntity(g, n) /\ Parity(g, n)

-----------------------------------------------------------------------------
(* EMPTY_BATCH: nothing is merged without a fragment.                      *)
Begin(batch) ==
  /\ outcome = "none" /\ batch # {}
  /\ outcome' = "merging"
  /\ pending' = batch
  /\ UNCHANGED <<merged, graph>>

MergeFragment(f) ==
  /\ outcome = "merging" /\ f \in pending
  /\ pending' = pending \ {f}
  /\ merged' = merged \cup {f}
  /\ IF Contradict(graph, Content[f])
     THEN outcome' = "conflict" /\ UNCHANGED graph
     ELSE graph' = Joined(graph, Content[f]) /\ UNCHANGED outcome

Finish ==
  /\ outcome = "merging" /\ pending = {}
  /\ outcome' = IF Valid(graph) THEN "batch" ELSE "invalid"
  /\ UNCHANGED <<pending, merged, graph>>

MergeInit ==
  /\ pending = {} /\ merged = {}
  /\ graph = [n \in Names |-> Absent]
  /\ outcome = "none"

MergeStep == (\E f \in Fragments : MergeFragment(f)) \/ Finish

MergeNext == (\E batch \in SUBSET Fragments : Begin(batch)) \/ MergeStep

MergeSpec == MergeInit /\ [][MergeNext]_mergeVars

-----------------------------------------------------------------------------
(* Types.                                                                  *)
MergeTypeOK ==
  /\ pending \subseteq Fragments /\ merged \subseteq Fragments
  /\ graph \in Graphs
  /\ outcome \in {"none", "merging", "conflict", "invalid", "batch"}

(* What fragments say of n, all of them.                                   *)
Said(n, batch) == {Content[f][n] : f \in {g \in batch : Content[g][n] # Absent}}

(* e is what observations S say together, stated without an order: every   *)
(* property that one of them has, the union of their evidence, the latest  *)
(* of their times, synthetic exactly if all of them are.                   *)
IsJoin(e, S) ==
  /\ \A s \in S : s.kind = e.kind /\ s.at <= e.at /\ s.made <= e.made
  /\ \A x \in Fields : e.fields[x] # Absent => \E s \in S : s.fields[x] = e.fields[x]
  /\ \A x \in Fields, s \in S : s.fields[x] # Absent => e.fields[x] = s.fields[x]
  /\ e.evidence = UNION {s.evidence : s \in S}
  /\ e.synthetic = (\A s \in S : s.synthetic)
  /\ (\E s \in S : s.at = e.at) /\ (\E s \in S : s.made = e.made)

(* In whatever order fragments come, the graph is what they say together:  *)
(* nothing is lost, nothing is made up and no time goes back.              *)
MergedIsJoin ==
  outcome # "conflict" =>
    \A n \in Names :
      IF Said(n, merged) = {} THEN graph[n] = Absent
      ELSE graph[n] # Absent /\ IsJoin(graph[n], Said(n, merged))

(* Two observations of one identity that cannot both be true.              *)
Clash(a, b) ==
  \/ a.kind # b.kind
  \/ \E v, w \in Values : v # w /\ \E x \in Fields : a.fields[x] = v /\ b.fields[x] = w
  \/ a.kind = "Evidence" /\ a.synthetic # b.synthetic

(* A merge is refused exactly when two of the fragments contradict each    *)
(* other, whatever they were completed with by others in between.          *)
FailsClosed ==
  (outcome = "conflict") =
    \E n \in Names : \E a, b \in Said(n, merged) : Clash(a, b)

(* Collectors validate their fragments; fragments that are valid and do    *)
(* not contradict each other make a valid batch.                           *)
ValidityPreserved ==
  outcome = "invalid" => \E f \in merged : ~Valid(Content[f])

(* A batch is the join of its fragments, or it is refused, and then for    *)
(* what the fragments say themselves.                                      *)
MergedOrRefused == MergedIsJoin /\ FailsClosed /\ ValidityPreserved

=============================================================================
