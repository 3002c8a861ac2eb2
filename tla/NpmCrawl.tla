------------------------------- MODULE NpmCrawl -------------------------------
(***************************************************************************)
(* orchestrateNpmIngestion (ingest/npm/orchestrator.ts): a breadth-first   *)
(* crawl of the npm registry in waves, within a depth and a number of      *)
(* packages, whose fragments GraphMerge joins.  "Network completion order  *)
(* cannot change which packages are admitted before the global package     *)
(* cap."                                                                   *)
(*                                                                         *)
(* Package names are numbers in the order of localeCompare.  Production    *)
(* passes neither a cache nor a collector: every package is fetched.       *)
(***************************************************************************)
EXTENDS GraphMerge, FiniteSets

CONSTANTS
  Packages,     \* the fragments that a crawl collects: one of each package
  Deps,         \* Deps[p]: what the selected versions of p declare
  MaxDepth,
  MaxPackages,
  Concurrency,
  Retries

ASSUME CrawlAssumption ==
  /\ Packages \subseteq Fragments
  /\ Fragments \subseteq Nat /\ IsFiniteSet(Fragments)
  /\ Deps \in [Packages -> SUBSET Packages]
  /\ MaxDepth \in Nat /\ Retries \in Nat
  /\ MaxPackages \in Nat \ {0} /\ Concurrency \in Nat \ {0}

(* collectPackage returns a fragment that validateGraph has accepted.      *)
ASSUME CollectedAssumption == \A p \in Packages : Valid(Content[p])

VARIABLES
  fetch,     \* fetch[p]: "unseen", "waiting", "fetching", "ok" or "failed"
  tries,     \* tries[p]: attempts that failed, all but the last
  depthOf,   \* depthOf[p]: the wave p is in, once seen
  depth,     \* the wave in progress
  omitted,   \* packages discovered beyond the cap
  result     \* "none", then "failed", "completed", "partially-completed" or
             \* "rejected"

crawlVars == <<fetch, tries, depthOf, depth, omitted, result>>

Of(status) == {p \in Packages : fetch[p] \in status}
Visited == Packages \ Of({"unseen"})
Successes == Of({"ok"})

(* A fault, used only to see that a property notices it.                   *)
LastOf(S, n) == {p \in S : Cardinality({q \in S : q > p}) < n}

(* The n least packages of S.                                              *)
Least(S, n) == {p \in S : Cardinality({q \in S : q < p}) < n}

(* Faults too: a status that looks at failures only, attempts that are     *)
(* counted anew.                                                           *)
StatusOfFailures == IF Of({"failed"}) = {} THEN "completed" ELSE "partially-completed"
RetriedAnew(p) ==
  /\ fetch[p] = "fetching"
  /\ tries' = [tries EXCEPT ![p] = IF @ < Retries THEN @ + 1 ELSE 0]
  /\ UNCHANGED <<fetch, depthOf, depth, omitted, result, mergeVars>>

-----------------------------------------------------------------------------
(* mapWithConcurrency: workers take the items of the wave in their order.  *)
Start(p) ==
  /\ p \in Least(Of({"waiting"}), 1)
  /\ Cardinality(Of({"fetching"})) < Concurrency
  /\ fetch' = [fetch EXCEPT ![p] = "fetching"]
  /\ UNCHANGED <<tries, depthOf, depth, omitted, result, mergeVars>>

(* fetchPackageMetadata: a timeout, a lost connection and a retryable      *)
(* status are tried again, any other failure is final.                     *)
Retried(p) ==
  /\ fetch[p] = "fetching" /\ tries[p] < Retries
  /\ tries' = [tries EXCEPT ![p] = @ + 1]
  /\ UNCHANGED <<fetch, depthOf, depth, omitted, result, mergeVars>>

Collected(p) ==
  /\ fetch[p] = "fetching"
  /\ \E status \in {"ok", "failed"} : fetch' = [fetch EXCEPT ![p] = status]
  /\ UNCHANGED <<tries, depthOf, depth, omitted, result, mergeVars>>

WaveOver == /\ Visited # {} /\ Of({"waiting", "fetching"}) = {}
            /\ outcome = "none" /\ result = "none"

(* What the wave discovered, unless it was the last one allowed.           *)
Discovered ==
  (UNION {Deps[p] : p \in {q \in Successes : depthOf[q] = depth /\ depth < MaxDepth}})
    \ Visited

Admitted == Least(Discovered, MaxPackages - Cardinality(Visited))

NextWave ==
  /\ WaveOver /\ Admitted # {}
  /\ depth' = depth + 1
  /\ fetch' = [p \in Packages |-> IF p \in Admitted THEN "waiting" ELSE fetch[p]]
  /\ depthOf' = [p \in Packages |-> IF p \in Admitted THEN depth + 1 ELSE depthOf[p]]
  /\ omitted' = omitted \cup (Discovered \ Admitted)
  /\ UNCHANGED <<tries, result, mergeVars>>

NothingCollected ==
  /\ WaveOver /\ Admitted = {} /\ Successes = {}
  /\ result' = "failed"
  /\ UNCHANGED <<fetch, tries, depthOf, depth, omitted, mergeVars>>

MergeSuccesses ==
  /\ WaveOver /\ Admitted = {}
  /\ Begin(Successes)
  /\ omitted' = omitted \cup Discovered
  /\ UNCHANGED <<fetch, tries, depthOf, depth, result>>

MergeGoesOn == MergeStep /\ UNCHANGED crawlVars

StatusOfIssues ==
  IF Of({"failed"}) = {} /\ omitted = {} THEN "completed" ELSE "partially-completed"

Report ==
  /\ Visited # {} /\ result = "none" /\ outcome \in {"batch", "conflict", "invalid"}
  /\ result' = IF outcome = "batch" THEN StatusOfIssues ELSE "rejected"
  /\ UNCHANGED <<fetch, tries, depthOf, depth, omitted, mergeVars>>

-----------------------------------------------------------------------------
Crawling ==
  /\ \E roots \in (SUBSET Packages) \ {{}} :
       /\ Cardinality(roots) <= MaxPackages
       /\ fetch = [p \in Packages |-> IF p \in roots THEN "waiting" ELSE "unseen"]

(* Incidents and typosquatting findings are merged without a crawl.        *)
NotCrawling == fetch = [p \in Packages |-> "unseen"]

CrawlInit ==
  /\ Crawling \/ NotCrawling
  /\ tries = [p \in Packages |-> 0]
  /\ depthOf = [p \in Packages |-> 0]
  /\ depth = 0 /\ omitted = {} /\ result = "none"
  /\ MergeInit

MergeElsewhere ==
  /\ Visited = {}
  /\ \E batch \in SUBSET (Fragments \ Packages) : Begin(batch)
  /\ UNCHANGED crawlVars

FetchStep == \E p \in Packages : Start(p) \/ Retried(p) \/ Collected(p)

WaveStep == NextWave \/ NothingCollected \/ MergeSuccesses \/ MergeGoesOn \/ Report

CrawlNext == FetchStep \/ WaveStep \/ MergeElsewhere

(* Every attempt has a timeout, so that it is answered in the end; the     *)
(* rest is the event loop's work.                                          *)
CrawlSpec == /\ CrawlInit /\ [][CrawlNext]_<<crawlVars, mergeVars>>
             /\ WF_<<crawlVars, mergeVars>>(CrawlNext)

-----------------------------------------------------------------------------
(* Types.                                                                  *)
CrawlTypeOK ==
  /\ fetch \in [Packages -> {"unseen", "waiting", "fetching", "ok", "failed"}]
  /\ tries \in [Packages -> 0..Retries]
  /\ depthOf \in [Packages -> 0..MaxDepth] /\ depth \in 0..MaxDepth
  /\ omitted \subseteq Packages
  /\ result \in {"none", "failed", "completed", "partially-completed", "rejected"}
  /\ Cardinality(Of({"fetching"})) <= Concurrency

(* Within(S)[d]: what is at most d declarations away from the roots,       *)
(* through packages of S.                                                  *)
Roots == {p \in Visited : depthOf[p] = 0}
Within(S) ==
  LET W[d \in 0..MaxDepth] ==
        IF d = 0 THEN Roots
        ELSE W[d - 1] \cup UNION {Deps[p] : p \in W[d - 1] \cap S}
  IN  W

(* Whatever answers came first, the packages of a crawl are those nearest  *)
(* to the roots, in the order of their names among the equally near, and   *)
(* what the cap left out is named: only failures make a difference.        *)
SelectionIsDeterministic ==
  result # "none" =>
    LET Reach == Within(Successes)[MaxDepth]
        Far(p) == CHOOSE d \in 0..MaxDepth :
                    p \in Within(Successes)[d] /\ (d = 0 \/ p \notin Within(Successes)[d - 1])
        Before(q, p) == Far(q) < Far(p) \/ (Far(q) = Far(p) /\ q < p)
    IN  /\ Visited = {p \in Reach : Cardinality({q \in Reach : Before(q, p)}) < MaxPackages}
        /\ omitted = Reach \ Visited
        /\ \A p \in Visited : depthOf[p] = Far(p)

(* A crawl that says "completed" has all there is to know within its       *)
(* depth in its batch.                                                     *)
CompletedHasAll ==
  result = "completed" => Within(Packages)[MaxDepth] \subseteq merged

(* What was collected is in the answer, or two packages that were          *)
(* collected contradict each other; nothing else costs the crawl.          *)
NothingCollectedIsLost ==
  /\ result \in {"completed", "partially-completed"} => merged = Successes
  /\ result = "failed" => Successes = {}
  /\ result = "rejected" =>
       \E p, q \in Successes, n \in Names :
         Both(Content[p], Content[q], n) /\ Clash(Content[p][n], Content[q][n])

(* A batch is all that was collected, and called complete only if it is    *)
(* all there is.                                                           *)
BatchIsWhatWasCollected == CompletedHasAll /\ NothingCollectedIsLost

(* A crawl ends, whatever the registry does.                               *)
CrawlEnds == Visited # {} ~> result # "none"

=============================================================================
