---------------------------- MODULE PackageOverview ----------------------------
(***************************************************************************)
(* GET /packages/:packageName (api/routes/packages.ts) over                *)
(* HydraPackageOverviewStore.investigate                                   *)
(* (packages/package-overview-store.ts): "Bounded, read-only package       *)
(* investigation projection.  It deliberately keeps registry declarations  *)
(* and lockfile-backed exact dependencies separate."                       *)
(*                                                                         *)
(* Two statements about the package and three about each of its versions,  *)
(* each of them bounded, with the writer of StoredGraph between any two.   *)
(***************************************************************************)
EXTENDS StoredGraph

CONSTANT OverviewRequests   \* a set of [package, limit, valid]: valid when
                            \* the name and the limit are in range

ASSUME OverviewAssumption == \A r \in OverviewRequests : r.valid => r.limit \in Nat \ {0}

VARIABLE overview

overviewVars == <<graphVars, overview>>

Lists == {"maintainers", "authorities", "declarations", "dependents", "incidents"}

NewOverview(asked) ==
  [at |-> "versions", asked |-> asked, versions |-> {}, todo |-> <<>>, truncated |-> FALSE,
   found |-> FALSE, lists |-> [l \in Lists |-> <<>>], code |-> 0]

Overviewed(code) == [overview EXCEPT !.at = "answered", !.code = code]

(* The first rows of a list, and what is appended for one version.         *)
Bounded(seq) == SubSeq(seq, 1, IF Len(seq) < overview.asked.limit THEN Len(seq) ELSE overview.asked.limit)

Refuse ==
  /\ overview.at = "versions" /\ ~overview.asked.valid
  /\ overview' = Overviewed(400)

(* A statement or the closing of its session fails, or a row is corrupt.   *)
OverviewFails ==
  /\ overview.at \notin {"answered", "cut"} /\ overview.asked.valid
  /\ overview' = Overviewed(503)

(* Versions by their name, the last observed first: rows that the batch    *)
(* has written come before the others.                                     *)
VersionsOf(package, nodes) ==
  {v \in nodes : NodeKind[v] = "PackageVersion" /\ PackageOf[v] = package}
LastObserved(S) ==
  Reverse(InOrder(S \cap rewritten.nodes)) \o Reverse(InOrder(S \ rewritten.nodes))

ReadPackageVersions ==
  /\ overview.at = "versions" /\ overview.asked.valid
  /\ LET all == LastObserved(VersionsOf(overview.asked.package, stored.nodes))
     IN  overview' = IF all = <<>> THEN Overviewed(200)
                     ELSE [overview EXCEPT
                            !.at = "maintainers", !.found = TRUE, !.todo = Bounded(all),
                            !.versions = Range(Bounded(all)), !.truncated = Bounded(all) # all]

MaintainersOf(package, edges) ==
  {Source[e] : e \in {d \in edges : EdgeKind[d] = "MAINTAINS" /\ Target[d] = package}}
Keep(list, rows, next) == [overview EXCEPT !.lists[list] = @ \o Bounded(rows), !.at = next]

ReadMaintainers ==
  /\ overview.at = "maintainers"
  /\ LET found == MaintainersOf(overview.asked.package, StoredEdges("MAINTAINS"))
     IN  overview' = Keep("maintainers", InOrder(found), "authorities")

(* A maintainer and another package of theirs: the edge that says so.      *)
AuthoritiesOf(package, edges) ==
  {e \in edges : /\ EdgeKind[e] = "MAINTAINS" /\ Target[e] # package
                 /\ Source[e] \in MaintainersOf(package, edges)}

ReadAuthorities ==
  /\ overview.at = "authorities"
  /\ LET found == AuthoritiesOf(overview.asked.package, StoredEdges("MAINTAINS"))
     IN  overview' = Keep("authorities", InOrder(found), "declarations")

ReadDeclarations ==
  /\ overview.at = "declarations"
  /\ LET found == {e \in StoredEdges("DECLARES_DEPENDENCY") : Source[e] = Head(overview.todo)}
     IN  overview' = Keep("declarations", InOrder(found), "dependents")

(* A USED_BY row and, when there is one, the DEPENDS_ON row it is from.    *)
Dependent(e) == [edge |-> e, resolved |-> e \in stored.edges]

ReadDependents ==
  /\ overview.at = "dependents"
  /\ LET page == Dependents(StoredIndex, Head(overview.todo), overview.asked.limit)
     IN  overview' = Keep("dependents", [i \in DOMAIN page.hops |-> Dependent(page.hops[i])],
                          "incidents")

(* An incident that affects several versions is listed once.  The last     *)
(* version is followed by the last cut.                                    *)
ReadIncidents ==
  /\ overview.at = "incidents"
  /\ LET found == {Source[e] : e \in {d \in StoredEdges("AFFECTS") : Target[d] = Head(overview.todo)}}
         rows == Bounded(InOrder(found))
         next == IF Tail(overview.todo) = <<>> THEN "cut" ELSE "declarations"
     IN  overview' = [overview EXCEPT
                       !.at = next, !.todo = Tail(@),
                       !.lists["incidents"] = @ \o InOrder(Range(rows) \ Range(@))]

Compose ==
  /\ overview.at = "cut"
  /\ overview' = [Overviewed(200) EXCEPT !.lists = [l \in Lists |-> Bounded(overview.lists[l])]]

OverviewRead ==
  /\ \/ Refuse \/ ReadPackageVersions \/ ReadMaintainers \/ ReadAuthorities \/ ReadDeclarations
     \/ ReadDependents \/ ReadIncidents \/ Compose
  /\ UNCHANGED graphVars

OverviewInit ==
  /\ \E s \in Situations : Holding(s)
  /\ \E asked \in OverviewRequests : overview = NewOverview(asked)

OverviewNext ==
  \/ OverviewRead
  \/ OverviewFails /\ UNCHANGED graphVars
  \/ overview.at # "answered" /\ WriteRow /\ UNCHANGED overview

OverviewFairness == WF_overviewVars(OverviewRead)

-----------------------------------------------------------------------------
(* What was there at first belongs in a list.                              *)
Due ==
  LET edges == situation.view.edges
      package == overview.asked.package
      from(kind) == {e \in edges : EdgeKind[e] = kind}
  IN  [maintainers |-> MaintainersOf(package, edges),
       authorities |-> AuthoritiesOf(package, edges),
       declarations |-> {e \in from("DECLARES_DEPENDENCY") : Source[e] \in overview.versions},
       dependents |-> {Dependent(e) : e \in {d \in from("DEPENDS_ON") : Target[d] \in overview.versions}},
       incidents |-> {Source[e] : e \in {d \in from("AFFECTS") : Target[d] \in overview.versions}}]

(* A package is unknown only when none of its versions was stored; a       *)
(* dependent is listed only with the resolution that proves it, although   *)
(* the index row is found first; and what a list leaves out of the         *)
(* versions it is about, it leaves out at its limit, never because a       *)
(* writer was busy.                                                        *)
OverviewIsBounded ==
  overview.code = 200 =>
    /\ ~overview.found => VersionsOf(overview.asked.package, situation.view.nodes) = {}
    /\ overview.found /\ ~overview.truncated =>
         VersionsOf(overview.asked.package, situation.view.nodes) \subseteq overview.versions
    /\ \A i \in DOMAIN overview.lists["dependents"] : overview.lists["dependents"][i].resolved
    /\ overview.found => \A l \in Lists :
         /\ Len(overview.lists[l]) <= overview.asked.limit
         /\ Cardinality(Range(overview.lists[l])) = Len(overview.lists[l])
         /\ Len(overview.lists[l]) < overview.asked.limit => Due[l] \subseteq Range(overview.lists[l])

=============================================================================
