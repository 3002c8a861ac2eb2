---------------------------- MODULE ReleaseFirewall ----------------------------
(***************************************************************************)
(* evaluateReleaseFirewall (analysis/release-trust/                        *)
(* release-influence-firewall.ts): whether a release may be trusted, given *)
(* everything that influenced it.  "Influence edges point from cause to    *)
(* effect.  Evaluation walks backward from each release and fails closed   *)
(* when evidence, trust, or traversal coverage is incomplete."             *)
(*                                                                         *)
(* An input is [nodes, edges, releases]: nodes [id, kind, trust,           *)
(* evidence], edges [id, kind, source, target, trust, boundary, evidence], *)
(* where evidence says whether there is any; releases is a sequence of     *)
(* ids.  Options are [depth, states, incoming, paths, findings, evidence,  *)
(* untrusted, unknown, cross, unclear]: five limits, whether evidence is   *)
(* required, and what four sorts of concern lead to.                       *)
(***************************************************************************)
EXTENDS Naturals, FiniteSets, SequencesExt

Runs == {"workflow-run", "build"}
PipelineKinds == Runs \cup {"source-change", "cache-entry", "credential", "attestation", "artifact"}

(* validEndpointKinds.                                                     *)
Endpoints ==
  [triggers |-> {"source-change"} \X {"workflow-run"},
   checks_out |-> {"source-change"} \X {"workflow-run"},
   writes_cache |-> Runs \X {"cache-entry"}, restores_cache |-> {"cache-entry"} \X Runs,
   starts_build |-> {"workflow-run"} \X {"build"},
   mints_credential |-> Runs \X {"credential"}, uses_credential |-> {"credential"} \X Runs,
   produces |-> Runs \X {"artifact"}, attests |-> {"attestation"} \X {"artifact", "release"},
   publishes |-> {"artifact"} \X {"release"}, authorizes_publish |-> {"credential"} \X {"release"},
   influences |-> PipelineKinds \X (PipelineKinds \cup {"release"})]

Ids(things) == {x.id : x \in things}
Node(input, id) == CHOOSE n \in input.nodes : n.id = id
Edge(input, id) == CHOOSE e \in input.edges : e.id = id
OnceEach(things) == \A x, y \in things : x.id = y.id => x = y

(* validateAndIndexGraph: which of the reasons it throws for is not told   *)
(* apart.                                                                  *)
Valid(input) ==
  /\ input.releases # <<>> /\ IsInjective(input.releases)
  /\ OnceEach(input.nodes) /\ OnceEach(input.edges)
  /\ Ids(input.nodes) \cup Ids(input.edges) \subseteq Nat
  /\ \A n \in input.nodes : n.kind \in PipelineKinds \cup {"release"}
  /\ \A e \in input.edges :
       /\ e.source # e.target /\ {e.source, e.target} \subseteq Ids(input.nodes)
       /\ <<Node(input, e.source).kind, Node(input, e.target).kind>> \in Endpoints[e.kind]
  /\ \A r \in ToSet(input.releases) : r \in Ids(input.nodes) /\ Node(input, r).kind = "release"

(* Incoming edges in the order of their ids.                               *)
Into(input, id) == {e \in input.edges : e.target = id}
Incoming(input, id) ==
  [i \in 1..Cardinality(Into(input, id)) |->
     CHOOSE e \in Into(input, id) : Cardinality({d \in Into(input, id) : d.id < e.id}) = i - 1]

-----------------------------------------------------------------------------
(* A way to the release: from the cause `nodes[1]` to the release.         *)
(* A finding is what its key is made of, and its severity.                 *)
NoWay == [nodes |-> <<>>, edges |-> <<>>]
Start(release) == [nodes |-> <<release>>, edges |-> <<>>]
Preceded(way, e) == [nodes |-> <<e.source>> \o way.nodes, edges |-> <<e.id>> \o way.edges]
Finding(code, severity, about, way) ==
  [code |-> code, severity |-> severity, about |-> about, way |-> way]
General(code) == Finding(code, "quarantine", 0, NoWay)

FreshSearch(release) ==
  [queue |-> <<Start(release)>>, states |-> 1, findings |-> {},
   risks |-> {}, inspected |-> {}, truncated |-> FALSE, stop |-> FALSE]

(* A fault, used only to see that a property notices it: a finding beyond  *)
(* the limit is dropped.                                                   *)
RecordOrDrop(t, o, f) ==
  IF f \in t.findings \/ Cardinality(t.findings) >= o.findings THEN t
  ELSE [t EXCEPT !.findings = @ \cup {f}]

(* addFinding without a path: the last slot is for the limit itself, which *)
(* ends the search.                                                        *)
Record(t, o, f) ==
  IF f \in t.findings THEN t
  ELSE IF Cardinality(t.findings) >= o.findings - 1
  THEN [t EXCEPT !.truncated = TRUE, !.stop = TRUE,
                 !.findings = @ \cup {General("finding-limit-reached")}]
  ELSE [t EXCEPT !.findings = @ \cup {f}]

(* addFinding: the path of a finding that was recorded is kept, within a   *)
(* limit.                                                                  *)
AddFinding(t, o, f) ==
  LET recorded == Record(t, o, f)
  IN  IF \/ f \in t.findings \/ f \notin recorded.findings
         \/ f.way = NoWay \/ f.severity = "warning" \/ f.way \in t.risks
      THEN recorded
      ELSE IF Cardinality(t.risks) < o.paths THEN [recorded EXCEPT !.risks = @ \cup {f.way}]
      ELSE Record([recorded EXCEPT !.truncated = TRUE], o, General("risk-path-limit-reached"))

Truncate(t, o, f) == AddFinding([t EXCEPT !.truncated = TRUE], o, f)

(* What an edge, with the node it comes from, gives reason to doubt.       *)
When(holds, finding) == IF holds THEN <<finding>> ELSE <<>>

EdgeConcerns(o, e, way) ==
  LET cache == e.kind \in {"writes_cache", "restores_cache"}
  IN  When(o.evidence /\ ~e.evidence, Finding("missing-edge-evidence", "quarantine", e.id, way))
      \o When(e.trust = "untrusted", Finding("untrusted-edge", o.untrusted, e.id, way))
      \o When(e.trust = "unknown", Finding("unknown-edge", o.unknown, e.id, way))
      \o When(cache /\ e.boundary = "cross-trust-boundary",
              Finding("cross-boundary-cache", o.cross, e.id, way))
      \o When(cache /\ e.boundary = "unknown", Finding("unknown-cache-boundary", o.unclear, e.id, way))

NodeConcerns(o, n, way) ==
  When(o.evidence /\ ~n.evidence, Finding("missing-node-evidence", "quarantine", n.id, way))
    \o When(n.trust = "untrusted", Finding("untrusted-node", o.untrusted, n.id, way))
    \o When(n.trust = "unknown", Finding("unknown-node", o.unknown, n.id, way))

(* Of the edge and the node a way begins with, and of the release itself.  *)
WayConcerns(o, input, way) ==
  EdgeConcerns(o, Edge(input, way.edges[1]), way) \o NodeConcerns(o, Node(input, way.nodes[1]), way)

ReleaseConcerns(o, input, release) ==
  When(o.evidence /\ ~Node(input, release).evidence,
       Finding("missing-node-evidence", "quarantine", release, NoWay))
    \o When(\A e \in Into(input, release) : e.kind # "publishes",
            Finding("missing-artifact-publication", "quarantine", release, NoWay))

AddAll(t, o, concerns) ==
  LET Added[i \in 0..Len(concerns)] ==
        IF i = 0 THEN t ELSE AddFinding(Added[i - 1], o, concerns[i])
  IN  Added[Len(concerns)]

(* One incoming edge of the node a way has reached.  An edge that closes a *)
(* cycle counts as inspected and is looked at no further.                  *)
Inspect(t, o, input, way, e) ==
  LET looked == [t EXCEPT !.inspected = @ \cup {e.id}]
      judged == AddAll(looked, o, WayConcerns(o, input, Preceded(way, e)))
  IN  IF t.stop THEN t
      ELSE IF e.source \in ToSet(way.nodes)
      THEN AddFinding(looked, o, Finding("cycle-skipped", "warning", e.id, NoWay))
      ELSE IF judged.states >= o.states
      THEN Truncate([judged EXCEPT !.stop = TRUE], o, General("traversal-state-limit-reached"))
      ELSE [judged EXCEPT !.states = @ + 1, !.queue = Append(@, Preceded(way, e))]

LeftOut(t, o, node, incoming) ==
  IF Len(incoming) <= o.incoming THEN t
  ELSE Truncate(t, o, Finding("incoming-edge-limit-reached", "quarantine", node, NoWay))

Lesser(m, n) == IF m < n THEN m ELSE n
InspectAll(t, o, input, way, incoming) ==
  LET Inspected[i \in 0..Lesser(Len(incoming), o.incoming)] ==
        IF i = 0 THEN LeftOut(t, o, way.nodes[1], incoming)
        ELSE Inspect(Inspected[i - 1], o, input, way, incoming[i])
  IN  Inspected[Lesser(Len(incoming), o.incoming)]

(* One way of the queue.                                                   *)
ExpandWay(t, o, input) ==
  LET way == Head(t.queue)
      incoming == Incoming(input, way.nodes[1])
      rest == [t EXCEPT !.queue = Tail(@)]
  IN  IF Len(way.edges) >= o.depth /\ incoming # <<>>
      THEN Truncate(rest, o, Finding("depth-limit-reached", "quarantine", way.nodes[1], NoWay))
      ELSE InspectAll(rest, o, input, way, incoming)

(* evaluateRelease: the release itself, then the ways to it.               *)
BeginRelease(o, input, release) ==
  AddAll(FreshSearch(release), o, ReleaseConcerns(o, input, release))

Turn(t, o, input) == IF t.stop \/ t.queue = <<>> THEN t ELSE ExpandWay(t, o, input)
EvaluateRelease(o, input, release) ==
  LET After[i \in 0..o.states] ==
        IF i = 0 THEN BeginRelease(o, input, release) ELSE Turn(After[i - 1], o, input)
  IN  After[o.states]

(* verdictForFindings.                                                     *)
Verdict(t) ==
  IF \E f \in t.findings : f.severity = "block" THEN "block"
  ELSE IF t.truncated \/ \E f \in t.findings : f.severity = "quarantine" THEN "quarantine"
  ELSE "allow"

Decision(o, input, release) ==
  LET t == EvaluateRelease(o, input, release)
  IN  [verdict |-> Verdict(t), truncated |-> t.truncated, findings |-> t.findings,
       risks |-> t.risks, inspected |-> t.inspected]

(* evaluateReleaseFirewall.                                                *)
Firewall(o, input) == [r \in ToSet(input.releases) |-> Decision(o, input, r)]

-----------------------------------------------------------------------------
(* The reference, stated without a queue or a limit: the ways to a release *)
(* that meet no node twice.                                                *)
Leading(input, way) == {e \in Into(input, way.nodes[1]) : e.source \notin ToSet(way.nodes)}
Ways(input, release) ==
  LET OfLength[k \in 0..Cardinality(input.nodes)] ==
        IF k = 0 THEN {Start(release)}
        ELSE UNION {{Preceded(w, e) : e \in Leading(input, w)} : w \in OfLength[k - 1]}
  IN  UNION {OfLength[k] : k \in 1..Cardinality(input.nodes)}

(* What the options make of everything on those ways, and of the release.  *)
Concerns(o, input, release) ==
  (UNION {ToSet(WayConcerns(o, input, w)) : w \in Ways(input, release)})
    \cup ToSet(ReleaseConcerns(o, input, release))

(* A decision names only what is there; one that was cut short never       *)
(* allows; any other names everything and is as severe as the worst of it. *)
(* `all` is Concerns(o, input, release).                                   *)
Sound(all, decision) ==
  LET severities == {f.severity : f \in all}
      ofWays == {f \in decision.findings : f.way # NoWay}
  IN  /\ ofWays \subseteq all
      /\ decision.verdict = "block" => "block" \in severities
      /\ decision.truncated => decision.verdict # "allow"
      /\ ~decision.truncated =>
           /\ all \subseteq decision.findings
           /\ decision.verdict = (IF "block" \in severities THEN "block"
                                  ELSE IF "quarantine" \in severities THEN "quarantine" ELSE "allow")

=============================================================================
