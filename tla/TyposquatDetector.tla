--------------------------- MODULE TyposquatDetector ---------------------------
(***************************************************************************)
(* detectTyposquatting (typosquatting/detector.ts): which packages of a    *)
(* lockfile are named like a trusted one.  Trusted names that may be meant *)
(* come from an index of deletions (candidate-index.ts,                    *)
(* candidate-generator.ts), those within the budgets are compared letter   *)
(* by letter (distance.ts, explanations.ts), and what is close enough is   *)
(* classified by the evidence there is besides the name (scorer.ts).       *)
(*                                                                         *)
(* A name is [scope, base]: a scope or "", and the base name as a sequence *)
(* of characters, "-" any separator; scopes are taken to be of one letter. *)
(* Scores, which only order findings, and names the parser refuses are     *)
(* abstracted: `valid` says which.                                         *)
(***************************************************************************)
EXTENDS Integers, FiniteSets, SequencesExt

CONSTANTS
  Targets,   \* the corpus, by name: a sequence of [name, watched, prominent]
  Allowlist, Blocklist, Watchlist,  \* names
  Scans      \* [packages, maxPackages, maxCandidates, maxComparisons,
             \*  maxDistance]: the last in percent

(* An observed package: evidence ids, the categories its metadata gives    *)
(* reason for, and pairs <<category, evidence id>>.                        *)
PackageName == [scope : STRING, base : Seq(STRING)]
ObservedPackage ==
  [name : PackageName, valid : BOOLEAN, lockfile : BOOLEAN, evidence : SUBSET Nat,
   signals : SUBSET STRING, contexts : SUBSET (STRING \X Nat)]

(* The distance is no stricter than the default (normalizeLimits).         *)
ASSUME DetectorAssumption ==
  /\ Targets \in Seq([name : PackageName, watched : BOOLEAN, prominent : BOOLEAN])
  /\ Scans \subseteq [packages : Seq(ObservedPackage), maxPackages : Nat, maxCandidates : Nat,
                     maxComparisons : Nat, maxDistance : Nat]
  /\ \A s \in Scans :
       /\ s.maxDistance >= 25
       /\ \A p \in ToSet(s.packages) :
            IsFiniteSet(p.evidence) /\ IsFiniteSet(p.signals) /\ IsFiniteSet(p.contexts)

VARIABLES
  scan,      \* one of Scans
  detection  \* [status, left, comparisons, results, truncated]

detectorVars == <<scan, detection>>

-----------------------------------------------------------------------------
KeepUnless(kept, c) == IF c = "-" THEN kept ELSE Append(kept, c)
Compact(name) ==
  LET Kept[i \in 0..Len(name.base)] ==
        IF i = 0 THEN <<>> ELSE KeepUnless(Kept[i - 1], name.base[i])
  IN  Kept[Len(name.base)]

(* confusableSkeleton: characters that look like another, in the scope as  *)
(* well as in the base name.                                               *)
LooksLike(c) == CASE c = "0" -> "o" [] c = "1" -> "l" [] OTHER -> c
Skeleton(name) ==
  [scope |-> LooksLike(name.scope), base |-> [i \in DOMAIN name.base |-> LooksLike(name.base[i])]]

Shorter(words) == UNION {{RemoveAt(w, i) : i \in DOMAIN w} : w \in words}

(* A fault, used only to see that a property notices it: an index of       *)
(* single deletions.                                                       *)
DeletionsOfOne(word) == {word} \cup Shorter({word})

(* createDeletionVariants, maxDeletionDepth = 2.                           *)
DeletionVariants(word) == {word} \cup Shorter({word}) \cup Shorter(Shorter({word}))

(* weightedDamerauLevenshtein: the cost, row by row.                       *)
Cheapest(S) == CHOOSE x \in S : \A y \in S : x <= y

(* One more cell of row i: the rows before it are `rows`.                  *)
Further(s, t, i, rows, row, j) ==
  Append(row, Cheapest({rows[2][j] + (IF s[i] = t[j] THEN 0 ELSE 100),
                        rows[2][j + 1] + 100, row[j] + 100}
    \cup (IF i > 1 /\ j > 1 /\ s[i] = t[j - 1] /\ s[i - 1] = t[j]
          THEN {rows[1][j - 1] + 75} ELSE {})))

NextRows(s, t, i, rows) ==
  LET Row[j \in 0..Len(t)] ==
        IF j = 0 THEN <<100 * i>> ELSE Further(s, t, i, rows, Row[j - 1], j)
  IN  <<rows[2], Row[Len(t)]>>

Cost(s, t) ==
  LET first == [j \in 1..(Len(t) + 1) |-> 100 * (j - 1)]
      Rows[i \in 0..Len(s)] ==
        IF i = 0 THEN <<first, first>> ELSE NextRows(s, t, i, Rows[i - 1])
  IN  Rows[Len(s)][2][Len(t) + 1]

-----------------------------------------------------------------------------
(* generateCandidates: the signatures of a target that the observed name   *)
(* asks for.                                                               *)
Reasons(name, target) ==
  LET word == Compact(name)
      other == Compact(target.name)
  IN  (IF word = other THEN {"compact"} ELSE {})
      \cup (IF name.base = target.name.base THEN {"basename"} ELSE {})
      \cup (IF Skeleton(name) = Skeleton(target.name) THEN {"confusable"} ELSE {})
      \cup (IF DeletionVariants(word) \cap DeletionVariants(other) # {} THEN {"deletion"} ELSE {})
      \cup (IF name.scope # "" /\ name.scope = target.name.scope THEN {"scope"} ELSE {})

Selected(name) ==
  {t \in DOMAIN Targets : Targets[t].name # name /\ Reasons(name, Targets[t]) # {}}

(* The order of the candidates, smaller first.                             *)
Rank(name, t) ==
  LET target == Targets[t]
      reasons == Reasons(name, target)
      word == Compact(name)
      other == Compact(target.name)
      variants == DeletionVariants(word)
      exact == IF other \in variants \ {word} THEN 1 ELSE 0
      matches == Cardinality(reasons \ {"deletion"}) + exact
                   + Cardinality(variants \cap DeletionVariants(other))
      apart == IF Len(word) > Len(other) THEN Len(word) - Len(other) ELSE Len(other) - Len(word)
  IN  <<IF reasons \cap {"compact", "confusable"} # {} THEN -4
        ELSE IF "basename" \in reasons THEN -3
        ELSE IF "deletion" \in reasons THEN -2 ELSE -1,
        -exact, -matches, apart,
        IF target.watched \/ target.name \in Watchlist THEN 0 ELSE 1,
        IF target.prominent THEN 0 ELSE 1, t>>

Before(p, q) == \E i \in DOMAIN p : p[i] < q[i] /\ \A j \in 1..(i - 1) : p[j] = q[j]

Ranked(name) ==
  LET rank == [t \in Selected(name) |-> Rank(name, t)]
  IN  [n \in 1..Cardinality(Selected(name)) |->
         CHOOSE t \in Selected(name) :
           Cardinality({u \in Selected(name) : Before(rank[u], rank[t])}) = n - 1]

-----------------------------------------------------------------------------
(* explainTransformations, as far as the gate looks at it.                 *)
Collapsed(word) ==
  FoldLeft(LAMBDA w, c : IF w # <<>> /\ w[Len(w)] = c THEN w ELSE Append(w, c), <<>>, word)
RepeatedCharacter(other, word) == Collapsed(word) # word /\ Collapsed(word) = Collapsed(other)
Affix(v, w) ==
  v # w /\ (IsPrefix(v, w) \/ IsSuffix(v, w) \/ IsPrefix(w, v) \/ IsSuffix(w, v))

(* lexicalGate                                                             *)
Gate(target, name, maxDistance) ==
  LET word == Compact(name)
      other == Compact(target.name)
      cost == Cost(other, word)
      short == IF Len(word) < Len(other) THEN Len(word) ELSE Len(other)
      long == IF Len(word) < Len(other) THEN Len(other) ELSE Len(word)
      same == word = other \/ Skeleton(name) = Skeleton(target.name)
      twisted == cost = 75 \/ RepeatedCharacter(other, word)
      special == same \/ twisted \/ (Affix(word, other) /\ long - short <= 2)
      within == cost <= maxDistance * long
      accepted == /\ CASE short <= 3 -> same
                       [] short = 4 -> same \/ twisted
                       [] short \in 5..7 -> cost <= 100 \/ special
                       [] OTHER -> (cost <= 200 /\ within) \/ special
                  /\ within \/ special
  IN  [accepted |-> accepted,
       strong |-> accepted /\ \/ same
                              \/ short >= 4 /\ twisted
                              \/ short >= 5 /\ cost <= 100 /\ cost <= 20 * long]

-----------------------------------------------------------------------------
(* scoreCandidate: the evidence for each category of concern.              *)
Categories(package) ==
  LET contexts == {c[1] : c \in package.contexts}
      policy == IF package.name \in Blocklist THEN {"policy:blocklist"} ELSE {}
  IN  [c \in contexts \cup package.signals \cup policy |->
         {x[2] : x \in {y \in package.contexts : y[1] = c}}
         \cup (IF c \in package.signals \cup policy THEN package.evidence ELSE {})]

(* independentCategoryCount: categories that can each be given evidence of *)
(* its own.  A search is [done, seen, owner]: evidence that was looked at, *)
(* and who has what of it.  `assign` tries the evidence of a category in   *)
(* turn: what is free it takes, what has an owner it takes if the owner    *)
(* can be given other evidence.                                            *)
Concerned(categories) == UNION {categories[c] : c \in DOMAIN categories}
Searches(categories) ==
  [done : BOOLEAN, seen : SUBSET Concerned(categories),
   owner : UNION {[D -> DOMAIN categories] : D \in SUBSET Concerned(categories)}]
Take(search, e, c) ==
  [done |-> TRUE, seen |-> search.seen,
   owner |-> [x \in DOMAIN search.owner \cup {e} |-> IF x = e THEN c ELSE search.owner[x]]]

(* From the i-th piece of evidence on; Assign is what a call that is made  *)
(* on the way comes to.                                                    *)
Tried(categories, Assign, c, i, s) ==
  LET list == SetToSeq(categories[c])
      e == list[i]
      looked(done) == [done |-> done, seen |-> s.seen \cup {e}, owner |-> s.owner]
      freed == IF e \notin DOMAIN s.owner THEN looked(TRUE)
               ELSE Assign[<<s.owner[e], 1, looked(FALSE)>>]
  IN  IF i > Len(list) THEN s
      ELSE IF e \in s.seen THEN Assign[<<c, i + 1, s>>]
      ELSE IF freed.done THEN Take(freed, e, c)
      ELSE Assign[<<c, i + 1, freed>>]

Assignments(categories) == (DOMAIN categories) \X (Nat \ {0}) \X Searches(categories)
Deeper(categories, Assign) ==
  [a \in Assignments(categories) |-> Tried(categories, Assign, a[1], a[2], a[3])]

(* A call looks at a piece of evidence or goes on: this many are enough.   *)
AssignAll(categories) ==
  LET most == Cardinality(Concerned(categories)) + 1
      Assign[n \in 0..(most * most)] ==
        IF n = 0 THEN [a \in Assignments(categories) |-> a[3]]
        ELSE Deeper(categories, Assign[n - 1])
  IN  Assign[most * most]

Counted(categories, s, c) ==
  LET r == AssignAll(categories)[<<c, 1, [done |-> FALSE, seen |-> {}, owner |-> s.owner]>>]
  IN  [owner |-> r.owner, count |-> IF r.done THEN s.count + 1 ELSE s.count]

IndependentCategories(categories) ==
  LET list == SetToSeq(DOMAIN categories)
      After[i \in 0..Len(list)] ==
        IF i = 0 THEN [owner |-> <<>>, count |-> 0]
        ELSE Counted(categories, After[i - 1], list[i])
  IN  After[Len(list)].count

Classification(package, strong) ==
  LET categories == Categories(package)
  IN  IF strong /\ package.lockfile /\ IndependentCategories(categories) >= 2
      THEN "high-confidence"
      ELSE IF DOMAIN categories # {} THEN "suspicious" ELSE "candidate"

-----------------------------------------------------------------------------
First(n, seq) == SubSeq(seq, 1, IF n < Len(seq) THEN n ELSE Len(seq))

Unscanned(status) == [status |-> status, findings |-> {}, compared |-> 0, truncated |-> FALSE]

(* One turn of the loop: candidates within their budget, and comparisons   *)
(* within what the packages before it have left.                           *)
Scanned(package, left) ==
  LET ranked == Ranked(package.name)
      candidates == First(scan.maxCandidates, ranked)
      compared == First(left, candidates)
      gates == [t \in ToSet(compared) |-> Gate(Targets[t], package.name, scan.maxDistance)]
      exhausted == Len(candidates) > left
  IN  [status |-> IF exhausted THEN "budget-exhausted" ELSE "scanned",
       findings |-> {<<t, Classification(package, gates[t].strong)>> :
                       t \in {u \in DOMAIN gates : gates[u].accepted}},
       compared |-> Len(compared),
       truncated |-> exhausted \/ Len(ranked) > scan.maxCandidates]

ScanPackage ==
  /\ detection.status = "scanning" /\ detection.left # <<>>
  /\ LET package == Head(detection.left)
         result == IF ~package.valid THEN Unscanned("invalid")
                   ELSE IF package.name \in Allowlist THEN Unscanned("allowlisted")
                   ELSE Scanned(package, scan.maxComparisons - detection.comparisons)
     IN  detection' = [status |-> "scanning", left |-> Tail(detection.left),
                       comparisons |-> detection.comparisons + result.compared,
                       results |-> Append(detection.results, result),
                       truncated |-> detection.truncated \/ result.truncated]
  /\ UNCHANGED scan

FinishDetection ==
  /\ detection.status = "scanning" /\ detection.left = <<>>
  /\ detection' = [detection EXCEPT !.status = "done"]
  /\ UNCHANGED scan

NoDetection ==
  [status |-> "none", left |-> <<>>, comparisons |-> 0, results |-> <<>>, truncated |-> FALSE]

DetectionInit ==
  /\ scan \in Scans
  /\ detection = [status |-> "scanning", left |-> First(scan.maxPackages, scan.packages),
                  comparisons |-> 0, results |-> <<>>,
                  truncated |-> Len(scan.packages) > scan.maxPackages]

DetectionNext == ScanPackage \/ FinishDetection

-----------------------------------------------------------------------------
(* The reference: words one edit away, and two, one in each of two parts   *)
(* of the word, said without a matrix.                                     *)
Letters == UNION {UNION {ToSet(p.name.base) : p \in ToSet(s.packages)} : s \in Scans}
Edited(w) ==
  {w} \cup Shorter({w})
    \cup {InsertAt(w, i, c) : i \in 1..(Len(w) + 1), c \in Letters}
    \cup {ReplaceAt(w, i, c) : i \in DOMAIN w, c \in Letters}
    \cup {[w EXCEPT ![i] = w[i + 1], ![i + 1] = w[i]] : i \in 1..(Len(w) - 1)}
EditedTwice(w) ==
  UNION {{u \o v : u \in Edited(SubSeq(w, 1, k)), v \in Edited(SubSeq(w, k + 1, Len(w)))} :
           k \in 0..Len(w)}
OneEdit == [t \in DOMAIN Targets |-> Edited(Compact(Targets[t].name))]
TwoEdits == [t \in DOMAIN Targets |-> EditedTwice(Compact(Targets[t].name))]

(* Names that nobody who typed the trusted one could be told from.  (Two   *)
(* letters swapped and a third put between them count as three changes.)   *)
Lookalike(name, t) ==
  LET word == Compact(name)
      other == Compact(Targets[t].name)
      both(n) == Len(word) >= n /\ Len(other) >= n
  IN  \/ word = other \/ Skeleton(name) = Skeleton(Targets[t].name)
      \/ both(5) /\ word \in OneEdit[t]
      \/ both(8) /\ word \in TwoEdits[t]

(* What two pieces of evidence support, for two reasons.                   *)
Corroborated(package) ==
  \E c, d \in DOMAIN Categories(package) : c # d /\
    \E e \in Categories(package)[c], f \in Categories(package)[d] : e # f

(* No look-alike slips through the index of deletions, the ranking and the *)
(* gate unless a budget cut the scan short and the result says so; what is *)
(* reported is never the trusted name itself; and the strongest alarm      *)
(* takes a lockfile and two concerns with evidence of their own.           *)
AlarmsAreExact ==
  detection.status = "done" =>
    /\ ~detection.truncated => Len(detection.results) = Len(scan.packages)
    /\ \A i \in DOMAIN detection.results :
         LET package == scan.packages[i]
             result == detection.results[i]
             reported == {f[1] : f \in result.findings}
             others == {t \in DOMAIN Targets : Targets[t].name # package.name}
         IN  /\ reported \subseteq others
             /\ \/ result.status \in {"invalid", "allowlisted"} /\ reported = {}
                \/ result.truncated /\ detection.truncated
                \/ \A t \in others : Lookalike(package.name, t) => t \in reported
             /\ \A f \in result.findings : f[2] = "high-confidence" =>
                  package.lockfile /\ Corroborated(package)

=============================================================================
