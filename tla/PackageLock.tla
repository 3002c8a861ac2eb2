----------------------------- MODULE PackageLock -----------------------------
(***************************************************************************)
(* What parsePackageLock (ingest/lockfile/package-lock-parser.ts) and      *)
(* collectPackageLock (ingest/lockfile/collector.ts) make of a             *)
(* package-lock file: where each package's dependencies are found, through *)
(* the links of a workspace, and the DEPENDS_ON edges that say so.         *)
(*                                                                         *)
(* A path is the sequence of its segments (a scoped name is one segment),  *)
(* the root project <<>>.  A lockfile is                                   *)
(*   [lockfileVersion, packages], packages[path] = [link, resolved, name,  *)
(*   version, dependencies, devDependencies, optionalDependencies,         *)
(*   peerDependencies]                                                     *)
(* with None for a field that is not there and sets of names for           *)
(* dependencies: the declared ranges play no part.                         *)
(***************************************************************************)
EXTENDS Naturals, FiniteSets, SequencesExt

CONSTANTS
  None,
  MaxPackages  \* entries of a lockfile, the root not counted

Root == <<>>
NodeModules == "node_modules"
Paths(lock) == DOMAIN lock.packages

(* normalizeInstallPath                                                    *)
Safe(path) == \A i \in DOMAIN path : path[i] \notin {"", ".", ".."}

-----------------------------------------------------------------------------
(* resolveEntry follows links, of links if need be, to an entry that is    *)
(* there; more steps than entries means a cycle.                           *)
Follow(lock, path) ==
  IF path \in Paths(lock) /\ lock.packages[path].link
  THEN lock.packages[path].resolved ELSE path

Real(lock, path) ==
  LET After[n \in 0..Cardinality(Paths(lock))] ==
        IF n = 0 THEN path ELSE Follow(lock, After[n - 1])
  IN  After[Cardinality(Paths(lock))]

LinksEnd(lock) ==
  \A path \in Paths(lock) : LET real == Real(lock, path) IN
    /\ real \in Paths(lock) /\ ~lock.packages[real].link
    /\ lock.packages[path].link => Safe(lock.packages[path].resolved)

(* What parsePackageLock throws for before it looks at any dependency.     *)
WellFormed(lock) ==
  /\ lock.lockfileVersion \in {2, 3}
  /\ \A path \in Paths(lock) : Safe(path)
  /\ Cardinality(Paths(lock) \ {Root}) <= MaxPackages
  /\ Root \in Paths(lock)
  /\ LinksEnd(lock)

(* mergeLinkedEntry: the fields of the target, at the place of the link.   *)
Entry(lock, path) == lock.packages[Real(lock, path)]

(* derivePackageNameFromPath                                               *)
Installed(path) == {i \in 1..(Len(path) - 1) : path[i] = NodeModules}
PackageName(lock, path) ==
  IF Entry(lock, path).name # None THEN Entry(lock, path).name
  ELSE IF Installed(path) = {} THEN None
  ELSE path[Max(Installed(path)) + 1]

(* The entries that become packages; any other entry is an error.          *)
Packages(lock) ==
  {path \in Paths(lock) \ {Root} :
     PackageName(lock, path) # None /\ Entry(lock, path).version # None}

(* collectDeclarations: the later of these sections overrides the earlier; *)
(* an installed package does not bring its development dependencies.       *)
Develops(lock, path) == path = Root \/ Installed(Real(lock, path)) = {}

DependencyType(lock, path, name) ==
  LET entry == Entry(lock, path)
  IN  IF name \in entry.optionalDependencies THEN "optional"
      ELSE IF name \in entry.dependencies THEN "production"
      ELSE IF name \in entry.peerDependencies THEN "peer"
      ELSE "development"

Declared(lock, path) ==
  LET entry == Entry(lock, path)
  IN  entry.optionalDependencies \cup entry.dependencies \cup entry.peerDependencies
        \cup (IF Develops(lock, path) THEN entry.devDependencies ELSE {})

-----------------------------------------------------------------------------
Above(path, n) == SubSeq(path, 1, n)
Inside(dir, name) == dir \o <<NodeModules, name>>

(* dependencyCandidatePaths: from the path itself up to the root.          *)
Candidates(path, name) ==
  [i \in 1..(Len(path) + 1) |-> Inside(Above(path, Len(path) + 1 - i), name)]

(* A fault, used only to see that a property notices it: a linked package  *)
(* that looks around the place of its link first.                          *)
SearchFromLink(lock, path, name) ==
  Candidates(path, name) \o Candidates(Real(lock, path), name)

(* resolveDependencyPath: from where the package really is, then from      *)
(* where it is linked.                                                     *)
SearchPath(lock, path, name) ==
  Candidates(Real(lock, path), name) \o Candidates(path, name)

Resolved(lock, path, name) ==
  LET search == SearchPath(lock, path, name)
      first == SelectInSeq(search, LAMBDA candidate : candidate \in Paths(lock))
  IN  IF first = 0 THEN None ELSE search[first]

(* Dependencies that must be there for the lockfile to be accepted.        *)
Required(lock, path) ==
  {name \in Declared(lock, path) :
     DependencyType(lock, path, name) \notin {"optional", "peer"}}

(* One issue of severity "error" refuses the whole lockfile.               *)
Accepted(lock) ==
  /\ WellFormed(lock)
  /\ Packages(lock) = Paths(lock) \ {Root}
  /\ \A path \in Paths(lock) : \A name \in Required(lock, path) :
       Resolved(lock, path, name) # None

(* createDependencyPair: the edge's identity is that of its nodes, paths,  *)
(* name and type, so that another service's lockfile may have it too.      *)
Node(service, lock, path) ==
  IF path = Root THEN service
  ELSE <<PackageName(lock, path), Entry(lock, path).version>>

Edge(service, lock, path, name) ==
  LET target == Resolved(lock, path, name)
  IN  [source |-> Node(service, lock, path), target |-> Node(service, lock, target),
       from |-> path, to |-> target, name |-> name,
       type |-> DependencyType(lock, path, name)]

DependsOn(service, lock) ==
  IF ~Accepted(lock) THEN {}
  ELSE {Edge(service, lock, d[1], d[2]) :
          d \in {p \in Paths(lock) \X UNION {Declared(lock, q) : q \in Paths(lock)} :
                   /\ p[2] \in Declared(lock, p[1])
                   /\ Resolved(lock, p[1], p[2]) # None}}

-----------------------------------------------------------------------------
(* What Node.js would load, said without a search and without regard to    *)
(* what the collector does: a package is loaded by its real path, and from *)
(* there `to` is a directory of that name installed around it, with none   *)
(* nearer.                                                                 *)
Nearest(lock, place, name, to) ==
  \E n \in 0..Len(place) :
    /\ to = Inside(Above(place, n), name) /\ to \in Paths(lock)
    /\ \A m \in (n + 1)..Len(place) : Inside(Above(place, m), name) \notin Paths(lock)

Nowhere(lock, place, name) ==
  \A n \in 0..Len(place) : Inside(Above(place, n), name) \notin Paths(lock)

Loads(lock, path, name, to) == Nearest(lock, Real(lock, path), name, to)
Unloadable(lock, path, name) == Nowhere(lock, Real(lock, path), name)

=============================================================================
