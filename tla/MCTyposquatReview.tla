-------------------------- MODULE MCTyposquatReview --------------------------
(* Model-checking definitions for TyposquatService.                        *)
EXTENDS TyposquatService

CONSTANTS k1, k2

(* A promotion and its retry, a promotion under another key, a dismissal,  *)
(* and a request that re-uses the dismissal's key.                         *)
McKey == [c \in Calls |-> IF c \in {1, 2} THEN k1 ELSE k2]
McAction == [c \in Calls |-> IF c = 3 THEN "dismiss" ELSE "promote"]
McRequest == [c \in Calls |-> CASE c \in {1, 2} -> "a" [] c = 3 -> "b" [] OTHER -> "c"]

-----------------------------------------------------------------------------
(* Trusted names of four, five, eight and two letters, the last in a scope *)
(* and with a separator; the second is on the watchlist.                   *)
Named(base) == [scope |-> "", base |-> base]
Short == Named(<<"a", "b", "b", "a">>)
Five == Named(<<"a", "b", "a", "o", "b">>)
Eight == Named(<<"a", "a", "b", "a", "b", "b", "a", "b">>)
Scoped == [scope |-> "o", base |-> <<"a", "-", "o">>]
McTargets == <<[name |-> Eight, watched |-> FALSE, prominent |-> TRUE],
               [name |-> Five, watched |-> TRUE, prominent |-> FALSE],
               [name |-> Scoped, watched |-> FALSE, prominent |-> FALSE],
               [name |-> Short, watched |-> FALSE, prominent |-> TRUE]>>

Likely == Named(<<"a", "b", "a", "0", "b">>)   \* looks like Five
Allowed == Named(<<"a", "b", "a", "o">>)
Blocked == Named(<<"b", "a", "a", "o", "b">>)

McAllowlist == {Allowed}
McBlocklist == {Blocked}
McWatchlist == {Short}

(* Every word of five or eight of two letters, words that differ from      *)
(* trusted ones in a separator, a scope or a digit, and the trusted names. *)
Words == {Named(w) : w \in [1..5 -> {"a", "b"}] \cup [1..8 -> {"a", "b"}]
                             \cup [1..4 -> {"a", "b", "o"}]}
Odd == {Likely, Allowed, Blocked, Scoped, Named(<<"a", "b", "-", "b", "a">>),
        [scope |-> "o", base |-> <<"a", "o">>], [scope |-> "o", base |-> <<"b">>],
        [scope |-> "0", base |-> <<"a", "-", "o">>],
        [scope |-> "t", base |-> <<"a", "-", "o">>], [scope |-> "o", base |-> <<"a", "-", "0">>],
        Named(<<"a", "b", "a", "o", "b", "a", "b">>),
        Named(<<"a", "b", "b", "b", "b", "b", "a">>), Five}

Package(name, lockfile, signals, contexts) ==
  [name |-> name, valid |-> TRUE, lockfile |-> lockfile, evidence |-> {1},
   signals |-> signals, contexts |-> contexts]

(* As scanLockfile describes a package, and with more evidence for it.     *)
Observed(name) == Package(name, TRUE, {}, {<<"dependency-graph", 1>>})
Evidences ==
  {Package(name, lockfile, signals, contexts) :
     name \in {Likely, Blocked}, lockfile \in BOOLEAN,
     signals \in {{}, {"publication", "maintainer"}},
     contexts \in {{}, {<<"dependency-graph", 1>>}, {<<"maintainer", 1>>, <<"maintainer", 2>>},
                   {<<"build", 1>>, <<"build", 2>>, <<"deployment", 1>>},
                   {<<"runtime", 2>>, <<"build", 2>>}}}

Ask(packages, n, candidates, comparisons) ==
  [packages |-> packages, maxPackages |-> n, maxCandidates |-> candidates,
   maxComparisons |-> comparisons, maxDistance |-> 25]

Probes == {Observed(name) : name \in Words \cup Odd} \cup Evidences
Unreadable == [Observed(Named(<<>>)) EXCEPT !.valid = FALSE]

(* Every package on its own, and five after one another within tight       *)
(* budgets.                                                                *)
Several == <<Observed(Likely), Unreadable, Observed(Allowed),
             Observed([scope |-> "o", base |-> <<"a", "o">>]), Observed(Blocked)>>
McScans == {Ask(<<p>>, 1, 5, 5) : p \in Probes}
             \cup {Ask(Several, n, c, k) : n \in 3..5, c \in 0..3, k \in 0..4}

=============================================================================
