------------------------------- MODULE TaskPool -------------------------------
(***************************************************************************)
(* What the worker dispatcher promises: a task is accepted once, waits,    *)
(* executes at most once with at most Slots tasks executing together, and  *)
(* never comes back; nothing new is accepted once the pool stops.          *)
(***************************************************************************)
EXTENDS Naturals, FiniteSets

CONSTANTS Tasks, Slots

VARIABLES waiting, executing, done, open

poolVars == <<waiting, executing, done, open>>

Fresh(i) == i \in Tasks \ (waiting \cup executing \cup done)

Init == waiting = {} /\ executing = {} /\ done = {} /\ open = TRUE

Accept(i) ==
  /\ open
  /\ Fresh(i)
  /\ waiting' = waiting \cup {i}
  /\ UNCHANGED <<executing, done, open>>

(* A task turned away is as finished as one that ran.                      *)
Reject(i) ==
  /\ Fresh(i)
  /\ done' = done \cup {i}
  /\ UNCHANGED <<waiting, executing, open>>

Begin(i) ==
  /\ i \in waiting
  /\ Cardinality(executing) < Slots
  /\ waiting' = waiting \ {i}
  /\ executing' = executing \cup {i}
  /\ UNCHANGED <<done, open>>

Finish(i) ==
  /\ i \in executing
  /\ executing' = executing \ {i}
  /\ done' = done \cup {i}
  /\ UNCHANGED <<waiting, open>>

(* A waiting task whose job has meanwhile failed is skipped.               *)
Skip(i) ==
  /\ i \in waiting
  /\ waiting' = waiting \ {i}
  /\ done' = done \cup {i}
  /\ UNCHANGED <<executing, open>>

(* Stopping may discard what waits (cancel-pending) or keep it (drain).    *)
Stop ==
  /\ open
  /\ open' = FALSE
  /\ \E S \in {{}, waiting} :
       waiting' = waiting \ S /\ done' = done \cup S
  /\ UNCHANGED executing

Next ==
  \/ \E i \in Tasks : Accept(i) \/ Reject(i) \/ Begin(i) \/ Finish(i) \/ Skip(i)
  \/ Stop

Spec == Init /\ [][Next]_poolVars

=============================================================================
