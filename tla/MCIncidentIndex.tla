--------------------------- MODULE MCIncidentIndex ----------------------------
(* Model-checking definitions for IncidentIndex.                           *)
EXTENDS IncidentIndex

(* A request and its retry, another one under the same key, and one        *)
(* without a key whose incident has the same observed_at.                  *)
McIdentity == [c \in Calls |-> IF c = 4 THEN 2 ELSE 1]
McRequest == [c \in Calls |-> CASE c \in {1, 2} -> "a" [] c = 3 -> "b" [] OTHER -> "d"]
McObserved == [r \in {"a", "b", "d"} |-> IF r = "b" THEN 2 ELSE 1]

(* A version of each of two packages; request "a" affects both.            *)
McPackage == [v \in Versions |-> IF v = 1 THEN "p" ELSE "q"]
McReleases ==
  [r \in {"a", "b", "d"} |->
    CASE r = "a" -> <<[package |-> "p", exact |-> {}, range |-> {1}],
                      [package |-> "q", exact |-> {2}, range |-> {}]>>
      [] r = "b" -> <<[package |-> "q", exact |-> {}, range |-> {2}]>>
      [] OTHER -> <<[package |-> "p", exact |-> {1}, range |-> {}]>>]

=============================================================================
