--------------------------- MODULE MCAnalysisRoutes ---------------------------
(* Model-checking definitions for AnalysisRoutes: one small graph with a   *)
(* supply chain (an incident, versions, services), an authority chain      *)
(* (a maintainer to the package it can publish) and six controls, and the  *)
(* pipelines of a few releases.                                            *)
EXTENDS AnalysisRoutes, TLC

McNodes == 1..35
McNodeKind == [n \in McNodes |->
  CASE n = 1 -> "Incident" [] n \in {2, 3, 4} -> "PackageVersion" [] n \in {5, 6} -> "Service"
    [] n \in 7..10 \cup {25} -> "Evidence" [] n = 11 -> "Maintainer" [] n = 12 -> "Organization"
    [] n \in {13, 17} -> "Package" [] n = 14 -> "Repository" [] n = 15 -> "CIWorkflow"
    [] n = 16 -> "Credential" [] n = 26 -> "Finding" [] n \in {27, 28} -> "Package"
    [] n \in {29, 30, 31} -> "PackageVersion" [] n = 32 -> "Service" [] n \in {33, 34, 35} -> "Evidence"
    [] OTHER -> "Control"]

(* The two versions 3 and 4 depend on each other; service 5 on both of the *)
(* affected ones, in two ways on one of them.                              *)
Affects == 21 :> <<1, 2>> @@ 22 :> <<1, 3>>
DependsOn == 31 :> <<4, 2>> @@ 32 :> <<5, 4>> @@ 33 :> <<6, 4>> @@ 34 :> <<5, 3>>
               @@ 35 :> <<3, 4>> @@ 36 :> <<4, 3>>
Authorities == 41 :> <<11, 13>> @@ 42 :> <<11, 12>> @@ 43 :> <<12, 14>> @@ 44 :> <<14, 15>>
                 @@ 45 :> <<15, 16>> @@ 46 :> <<16, 17>> @@ 47 :> <<11, 16>> @@ 48 :> <<12, 6>>
                 @@ 49 :> <<11, 17>>

(* Package 27 has the versions 29 and 30, which services 6 and 32 use      *)
(* directly and through 31; 29 and 31 depend on each other.                *)
Suspicions == 51 :> <<26, 27>> @@ 52 :> <<26, 28>> @@ 53 :> <<27, 29>> @@ 54 :> <<27, 30>>
                @@ 55 :> <<31, 29>> @@ 56 :> <<32, 31>> @@ 57 :> <<6, 31>> @@ 58 :> <<29, 31>>
                @@ 59 :> <<32, 29>> @@ 60 :> <<6, 30>> @@ 61 :> <<6, 29>> @@ 62 :> <<11, 27>>
                @@ 63 :> <<29, 13>> @@ 64 :> <<30, 13>> @@ 65 :> <<1, 29>> @@ 66 :> <<1, 30>>
McEnds == Affects @@ DependsOn @@ Authorities @@ Suspicions
McEdges == DOMAIN McEnds
McEdgeKind == [e \in McEdges |->
  CASE e < 30 \/ e \in {65, 66} -> "AFFECTS" [] e \in 31..36 \cup 55..61 -> "DEPENDS_ON"
    [] e \in {41, 49, 62} -> "MAINTAINS" [] e = 51 -> "TARGETS" [] e = 52 -> "IMITATES"
    [] e \in {53, 54} -> "HAS_VERSION" [] e \in {63, 64} -> "DECLARES_DEPENDENCY" [] e = 42 -> "MEMBER_OF" [] e \in {43, 48} -> "OWNS" [] e = 44 -> "TRIGGERS"
    [] e = 45 -> "CAN_ACCESS" [] e = 46 -> "CAN_PUBLISH" [] OTHER -> "CONTROLS"]
McSource == [e \in McEdges |-> McEnds[e][1]]
McTarget == [e \in McEdges |-> McEnds[e][2]]

(* 7 is an advisory, 8, 9, 33 and 34 are lockfiles, 10 and 25 a manifest,  *)
(* 35 is the detector.                                                     *)
McEdgeEvidence == [e \in McEdges |->
  CASE e < 30 -> {7} [] e = 31 -> {8} [] e = 32 -> {9} [] e = 34 -> {8, 10} [] e = 36 -> {25}
    [] e \in {55, 56, 59, 60} -> {33} [] e = 57 -> {8} [] e = 58 -> {33, 34} [] e = 61 -> {9}
    [] e = 49 -> {} [] e \in {41, 47} -> {7} [] e \in {43, 46} -> {9} [] OTHER -> {10}]
McEvidenceSource == [n \in McNodes |->
  CASE n = 7 -> "security-advisory" [] n \in {8, 9, 33, 34} -> "package-lock"
    [] n \in {10, 25} -> "package-manifest" [] n = 35 -> "other" [] OTHER -> Absent]
McEvidenceConfidence == [n \in McNodes |-> IF n \in {9, 10} THEN 5 ELSE 9]
McNodeEvidence == [n \in McNodes |->
  CASE n = 1 -> {7} [] n \in 2..6 -> {8} [] n \in {29, 31} -> {33}
    [] n = 30 -> {8, 33} [] OTHER -> {}]

McValidFrom == [e \in McEdges |-> CASE e = 31 -> 1 [] e = 32 -> 2 [] e = 34 -> 5 [] OTHER -> Absent]
McValidUntil == [e \in McEdges |-> CASE e = 31 -> 3 [] e = 34 -> 6 [] OTHER -> Absent]

-----------------------------------------------------------------------------
(* Live: a batch that is being written, one written but for a service's    *)
(* index, one that lost its evidence.                                      *)
SupplyNodes == 1..10 \cup {25}
SupplyEdges == {21, 22} \cup 31..36
McWritten == [nodes |-> SupplyNodes, edges |-> SupplyEdges]
McStored ==
  {[nodes |-> SupplyNodes \ {6}, edges |-> SupplyEdges \ {33, 35, 36}],
   [nodes |-> SupplyNodes, edges |-> SupplyEdges \ {22, 34}],
   [nodes |-> SupplyNodes \ {9}, edges |-> {21, 22}], [nodes |-> {1, 7}, edges |-> {}],
   [nodes |-> {1}, edges |-> {}]}

Wide == [depth |-> 4, services |-> 3, pathsPerService |-> 4, paths |-> 9, states |-> 20,
         dependents |-> 5, warnings |-> 9]
Narrow == {[Wide EXCEPT !.depth = 1], [Wide EXCEPT !.states = 3], [Wide EXCEPT !.dependents = 1],
           [Wide EXCEPT !.warnings = 1], [Wide EXCEPT !.services = 1],
           [Wide EXCEPT !.pathsPerService = 1], [Wide EXCEPT !.paths = 1]}
While(first, last) == [start |-> first, end |-> last]
Asking(limits, most, interval, asOf, nullRow) ==
  [limits |-> limits, maxAffected |-> most, interval |-> interval, asOf |-> asOf, nullRow |-> nullRow]
McRequests ==
  {Asking(Wide, m, i, Absent, null) :
     m \in {1, 2}, i \in {While(3, 4), While(4, Absent)}, null \in BOOLEAN}
  \cup {Asking(l, 2, While(4, Absent), Absent, null) : l \in Narrow, null \in BOOLEAN}
  \cup {Asking(Wide, 2, While(4, Absent), at, TRUE) : at \in {2, 5}}
  \cup {Asking([Wide EXCEPT !.dependents = 1], 2, While(4, Absent), 1, TRUE)}

-----------------------------------------------------------------------------
(* Batches: all there is, and without a lockfile.                          *)
BatchEdges == SupplyEdges \cup DOMAIN Authorities
McBatches == {[nodes |-> 1..25, edges |-> BatchEdges], [nodes |-> 1..25 \ {9}, edges |-> BatchEdges]}

Directive(control, action, ids, nodes, targets) ==
  [control |-> control, action |-> action, applied |-> FALSE, evidence |-> ids,
   rationale |-> TRUE, nodes |-> nodes, edges |-> targets]
Directives ==
  {Directive(18, "block-package-version", {8}, {4}, {}), Directive(19, "isolate-service", {8}, {5}, {}),
   Directive(20, "revoke-credential", {8}, {16}, {}), Directive(21, "pin-dependency", {9}, {}, {32}),
   Directive(22, "remove-publishing-access", {9}, {}, {46}),
   Directive(23, "restrict-network", {8}, {6}, {})}
Mistaken == {Directive(24, "pin-dependency", {10}, {}, {31}), Directive(19, "isolate-service", {8}, {4}, {}),
             Directive(18, "block-package-version", {9}, {4}, {})}
McControls == [n \in 18..24 |->
  IF n = 24 THEN [action |-> "pin-dependency", applied |-> FALSE, evidence |-> {10}]
  ELSE LET d == CHOOSE d \in Directives : d.control = n
       IN  [action |-> d.action, applied |-> FALSE, evidence |-> d.evidence]]

Far == [depth |-> 6, targets |-> 9, pathsPerTarget |-> 4, states |-> 20, outgoing |-> 5, warnings |-> 9]
Seeds == {[node |-> 11, evidence |-> {7}], [node |-> 15, evidence |-> {8, 10}]}
Unsound == {[node |-> 13, evidence |-> {7}], [node |-> 15, evidence |-> {}], [node |-> 12, evidence |-> {10}]}
Plan(directives, seeds, blast, authority) ==
  [directives |-> directives, affected |-> {2, 3}, seeds |-> seeds, blast |-> blast, authority |-> authority]
Limited == {[Far EXCEPT !.depth = 1], [Far EXCEPT !.targets = 1], [Far EXCEPT !.pathsPerTarget = 1],
            [Far EXCEPT !.states = 2], [Far EXCEPT !.outgoing = 1], [Far EXCEPT !.warnings = 1]}
McPlans ==
  {Plan(ds, Seeds, Wide, Far) : ds \in {d \in SUBSET Directives : Cardinality(d) \in {1, 2}}}
  \cup {Plan({d}, Seeds, Wide, Far) : d \in Mistaken}
  \cup {Plan({d}, Seeds, l, Far) : d \in Directives, l \in Narrow}
  \cup {Plan({}, s, Wide, l) : s \in {Seeds, Unsound}, l \in Limited \cup {Far}}

-----------------------------------------------------------------------------
(* Releases.                                                               *)
Kinds == <<"release", "artifact", "build", "workflow-run", "source-change", "credential", "cache-entry",
           "release">>
Actor(id) == [id |-> id, kind |-> Kinds[id], trust |-> "trusted", evidence |-> TRUE]
Trusted(ids) == {Actor(id) : id \in ids}
Influence(id, k, source, target) ==
  [id |-> id, kind |-> k, source |-> source, target |-> target, trust |-> "trusted",
   boundary |-> "same-trust-zone", evidence |-> TRUE]
Publish == Influence(11, "publishes", 2, 1)
Produce == Influence(12, "produces", 3, 2)
Build == Influence(13, "starts_build", 4, 3)
Trigger == Influence(14, "triggers", 5, 4)
Authorize == Influence(15, "authorizes_publish", 6, 1)
Mint == Influence(16, "mints_credential", 4, 6)
Write == Influence(17, "writes_cache", 4, 7)
Restore == Influence(18, "restores_cache", 7, 3)
Use == Influence(19, "uses_credential", 6, 4)
Pipeline(actors, influences) == [nodes |-> actors, edges |-> influences, releases |-> <<1>>]

Clean == Pipeline(Trusted(1..7), {Publish, Produce, Build, Trigger, Write, Restore})
TwoReleases == [Clean EXCEPT !.nodes = @ \cup Trusted({8}), !.releases = <<8, 1>>,
                             !.edges = {Publish, Produce, Influence(20, "publishes", 2, 8)}]
Bare == Pipeline(Trusted({1}), {})
Invalid == Pipeline(Trusted({1, 3}), {Influence(11, "publishes", 3, 1)})
Cyclic == Pipeline(Trusted(1..4 \cup {6}), {Publish, Produce, Build, Use, Authorize, Mint})
Untrusted == [Clean EXCEPT !.edges = (@ \ {Trigger}) \cup {[Trigger EXCEPT !.trust = "untrusted"]}]
Doubtful ==
  Pipeline({[Actor(1) EXCEPT !.evidence = FALSE], [Actor(2) EXCEPT !.trust = "unknown"],
            [Actor(3) EXCEPT !.trust = "untrusted", !.evidence = FALSE]} \cup Trusted({4, 7}),
           {[Publish EXCEPT !.evidence = FALSE], Produce, Build,
            [Write EXCEPT !.boundary = "cross-trust-boundary"],
            [Restore EXCEPT !.boundary = "unknown", !.trust = "unknown"]})

Strict == [depth |-> 9, states |-> 12, incoming |-> 9, paths |-> 9, findings |-> 30, evidence |-> TRUE,
           untrusted |-> "block", unknown |-> "quarantine", cross |-> "block", unclear |-> "quarantine"]
McOptions ==
  {Strict, [Strict EXCEPT !.states = 3], [Strict EXCEPT !.depth = 2], [Strict EXCEPT !.incoming = 1],
   [Strict EXCEPT !.paths = 1], [Strict EXCEPT !.findings = 3], [Strict EXCEPT !.findings = 1],
   [Strict EXCEPT !.evidence = FALSE, !.untrusted = "quarantine", !.unknown = "block",
                  !.cross = "quarantine", !.unclear = "block"]}

Rivals == 1 :> Pipeline(Trusted({1, 2}), {Publish})
            @@ 2 :> Pipeline(Trusted({1, 2, 3}), {Publish, Produce})
McCases ==
  {[input |-> 1 :> g, options |-> o, nullRow |-> TRUE] :
     g \in {Clean, TwoReleases, Bare, Invalid, Cyclic, Untrusted, Doubtful}, o \in McOptions}
  \cup {[input |-> 1 :> g, options |-> Strict, nullRow |-> FALSE] : g \in {Clean, Bare}}
  \cup {[input |-> Rivals, options |-> Strict, nullRow |-> null] : null \in BOOLEAN}

-----------------------------------------------------------------------------
(* Investigations: of a finding whose batch is being written, of one       *)
(* another lockfile (8) writes over, of a package that is new.             *)
McPackageOf == [n \in {2, 3, 4, 29, 30, 31} |-> CASE n < 5 -> 17 [] n \in 27..30 -> 27 [] OTHER -> 13]
Suspected == [nodes |-> {1, 6, 8, 9, 11, 13, 17} \cup 26..35, edges |-> {41, 49} \cup 51..66]
Without(view, nodes, some) == [nodes |-> view.nodes \ nodes, edges |-> view.edges \ some]
Only(nodes, some) == [nodes |-> nodes, edges |-> some]
McSituations ==
  {[view |-> Without(Suspected, {26, 28, 34, 35}, {51, 52, 54, 60}), evidence |-> {},
    batch |-> Only({26, 28, 34, 35}, {51, 52, 54, 60})],
   [view |-> Without(Suspected, {}, {57}), evidence |-> {8}, batch |-> Only({29, 31}, {55, 57, 59})],
   [view |-> Without(Suspected, {29, 30}, {53, 54, 55, 58, 59, 60, 61, 63, 64, 65, 66}),
    evidence |-> {}, batch |-> Only({29, 30}, {53, 54, 55, 60, 63, 65, 66})]}

Whole == [evidence |-> 4, versions |-> 3, depth |-> 5, services |-> 3, states |-> 9, dependents |-> 6]
McDetailLimits ==
  {Whole, [Whole EXCEPT !.evidence = 3], [Whole EXCEPT !.versions = 1], [Whole EXCEPT !.depth = 1],
   [Whole EXCEPT !.services = 1], [Whole EXCEPT !.states = 2], [Whole EXCEPT !.dependents = 1]}
McVersionOrder == [n \in McNodes |-> IF n \in {29, 30} THEN 30 - n ELSE 0]
McOverviewRequests ==
  {[package |-> 27, limit |-> l, valid |-> TRUE] : l \in {1, 2, 6}}
  \cup {[package |-> 28, limit |-> 6, valid |-> TRUE], [package |-> 27, limit |-> 6, valid |-> FALSE]}

-----------------------------------------------------------------------------
(* Two situations of their own.  Service 6 has resolved 2 through 4 from 1 *)
(* to 3, service 5 resolves 4 since 5, without 2.                          *)
MixedFrom == [e \in McEdges |-> CASE e \in {31, 33} -> 1 [] e = 32 -> 5 [] OTHER -> Absent]
MixedUntil == [e \in McEdges |-> IF e \in {31, 33} THEN 3 ELSE Absent]
MixedStored == {[nodes |-> SupplyNodes, edges |-> {21, 31, 32, 33}]}

(* An untrusted credential is minted by a workflow that uses it.           *)
CycleCases ==
  {[input |-> 1 :> [Cyclic EXCEPT !.edges = {Publish, Produce, Build, Use,
                                             [Mint EXCEPT !.trust = "untrusted"]}],
    options |-> Strict, nullRow |-> TRUE]}

=============================================================================
