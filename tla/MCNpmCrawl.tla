------------------------------ MODULE MCNpmCrawl ------------------------------
(* Model-checking definitions for NpmCrawl: five packages with a cycle and *)
(* a diamond, two of which name one maintainer differently; and six        *)
(* fragments merged without a crawl, in which a registry, a lockfile and   *)
(* the synthetic fixture speak of one service that depends on one version. *)
EXTENDS NpmCrawl, Sequences

McDeps == [p \in Packages |-> CASE p = 1 -> {3, 4}
                                [] p = 2 -> {4}
                                [] p = 3 -> {1, 2, 5}
                                [] p = 4 -> {5}
                                [] OTHER -> {}]

Handle == [p \in Packages |-> CASE p = 2 -> 1 [] p = 4 -> 2 [] OTHER -> 0]

Seen(kind, p) ==
  [kind |-> kind, fields |-> [x \in Fields |-> Absent],
   evidence |-> IF kind = "Evidence" THEN {} ELSE {<<"evidence", p>>},
   synthetic |-> FALSE, at |-> p, made |-> 0]

(* collectPackage: the package, its version and its maintainer, and the    *)
(* packages that the version declares, all with one piece of evidence.     *)
CrawlNames == ({"evidence", "package", "version", "has"} \X Packages)
                \cup {<<"declares", p, q>> : p \in Packages, q \in {1, 2, 3, 4, 5}}
                \cup {<<"maintainer">>} \cup ({"maintains"} \X {2, 4})

(* The fragments apart from the crawl: their evidence, one version, one    *)
(* package, one service and the edges between them.                        *)
OtherNames == {<<"e1">>, <<"e2">>, <<"e3">>, <<"package">>, <<"version">>,
               <<"service">>, <<"has">>, <<"depends">>, <<"used">>}
McNames == {n \in CrawlNames : n[1] = "declares" => n[3] \in Deps[n[2]]} \cup OtherNames

PackageContent(p) ==
  [n \in Names |->
     CASE n = <<"evidence", p>> -> Seen("Evidence", p)
       [] n[1] = "package" /\ Len(n) = 2 /\ n[2] \in {p} \cup Deps[p] ->
            Seen("Package", p)
       [] n = <<"version", p>> -> Seen("PackageVersion", p)
       [] n = <<"has", p>> -> Seen("HAS_VERSION", p)
       [] n[1] = "declares" /\ n[2] = p -> Seen("DECLARES_DEPENDENCY", p)
       [] n = <<"maintainer">> /\ Handle[p] # 0 ->
            [Seen("Maintainer", p) EXCEPT !.fields["handle"] = Handle[p]]
       [] n = <<"maintains", p>> -> Seen("MAINTAINS", p)
       [] OTHER -> Absent]

Says(kind, evidence, synthetic, at) ==
  [kind |-> kind, fields |-> [x \in Fields |-> Absent], evidence |-> evidence,
   synthetic |-> synthetic, at |-> at, made |-> 0]

(* A fragment whose evidence is e, observed at t: the entities of the      *)
(* given kinds, the version with a time of publication.                    *)
Fragment(e, synthetic, t, kinds, published) ==
  [n \in Names |->
    CASE n = e -> Says("Evidence", {}, synthetic, t)
      [] n = <<"version">> /\ "PackageVersion" \in kinds ->
           [Says("PackageVersion", {e}, synthetic, t)
              EXCEPT !.fields["publishedAt"] = published]
      [] n = <<"package">> /\ "Package" \in kinds -> Says("Package", {e}, synthetic, t)
      [] n = <<"service">> /\ "Service" \in kinds -> Says("Service", {e}, synthetic, t)
      [] n = <<"has">> /\ "HAS_VERSION" \in kinds -> Says("HAS_VERSION", {e}, FALSE, t)
      [] n = <<"depends">> /\ "DEPENDS_ON" \in kinds -> Says("DEPENDS_ON", {e}, FALSE, t)
      [] n = <<"used">> /\ "DEPENDS_ON" \in kinds ->
           [Says("USED_BY", {}, FALSE, t) EXCEPT !.made = t]
      [] OTHER -> Absent]

Registry == {"Package", "PackageVersion", "HAS_VERSION"}
Lockfile == {"Service", "PackageVersion", "DEPENDS_ON"}

(* 6, 9: the registry at two times, which disagree; 7: a lockfile; 8: the  *)
(* fixture; 10: the fixture's evidence, classified as real; 11: an edge    *)
(* without its endpoints.                                                  *)
McContent ==
  [f \in Fragments |->
    CASE f \in Packages -> PackageContent(f)
      [] f = 6 -> Fragment(<<"e1">>, FALSE, 2, Registry, 1)
      [] f = 7 -> Fragment(<<"e2">>, FALSE, 1, Lockfile, Absent)
      [] f = 8 -> Fragment(<<"e3">>, TRUE, 3, Registry \cup Lockfile, 1)
      [] f = 9 -> Fragment(<<"e1">>, FALSE, 3, Registry, 2)
      [] f = 10 -> Fragment(<<"e3">>, FALSE, 2, {"Package"}, Absent)
      [] OTHER -> Fragment(<<"e1">>, FALSE, 1, {"HAS_VERSION"}, Absent)]

McEnds == [n \in Names |->
  CASE n = <<"has">> -> <<<<"package">>, <<"version">>>>
    [] n = <<"depends">> -> <<<<"service">>, <<"version">>>>
    [] n = <<"used">> -> <<<<"version">>, <<"service">>>>
    [] n[1] = "has" /\ Len(n) = 2 -> <<<<"package", n[2]>>, <<"version", n[2]>>>>
    [] n[1] = "declares" -> <<<<"version", n[2]>>, <<"package", n[3]>>>>
    [] n[1] = "maintains" -> <<<<"maintainer">>, <<"package", n[2]>>>>
    [] OTHER -> <<>>]
McIndex == [n \in Names |-> IF n = <<"depends">> THEN <<"used">> ELSE n]
McAllowed == {<<"HAS_VERSION", "Package", "PackageVersion">>,
              <<"DECLARES_DEPENDENCY", "PackageVersion", "Package">>,
              <<"MAINTAINS", "Maintainer", "Package">>,
              <<"DEPENDS_ON", "Service", "PackageVersion">>}

=============================================================================
