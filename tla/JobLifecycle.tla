----------------------------- MODULE JobLifecycle -----------------------------
(***************************************************************************)
(* What the ingestion job manager promises to the rest of HydraGuard and   *)
(* to HTTP clients polling GET /ingestions/:id, without saying how: every  *)
(* job takes one pass through queued, running and one terminal status, the *)
(* errors recorded with the terminal status never change, a job may be     *)
(* forgotten only once it is terminal, and the number of remembered and of *)
(* running jobs is bounded.                                                *)
(***************************************************************************)
EXTENDS Naturals, FiniteSets

CONSTANTS Ids,        \* the identifiers jobs may be given
          MaxJobs,    \* bound on remembered jobs
          MaxRunning  \* bound on running jobs

VARIABLES phase,      \* phase[i]: where job i is in its life
          outcome     \* outcome[i]: the failure codes reported with it

lifecycleVars == <<phase, outcome>>

TerminalPhases == {"completed", "partially-completed", "failed"}
Phases == {"unborn", "queued", "running", "forgotten"} \cup TerminalPhases

(* The statuses a job may have next; "unborn" is the only way in.          *)
MayFollow ==
  {<<"unborn", "queued">>, <<"unborn", "failed">>,
   <<"queued", "running">>, <<"queued", "failed">>,
   <<"running", "completed">>, <<"running", "partially-completed">>,
   <<"running", "failed">>}
  \cup {<<p, "forgotten">> : p \in TerminalPhases}

Remembered(ph) == {i \in Ids : ph[i] \notin {"unborn", "forgotten"}}
Executing(ph) == {i \in Ids : ph[i] = "running"}

Init ==
  /\ phase = [i \in Ids |-> "unborn"]
  /\ outcome = [i \in Ids |-> {}]

(* One call may settle, expire and admit several jobs at once (it sweeps   *)
(* first), so a step moves any set of jobs, each along one edge.           *)
Next ==
  /\ phase' \in [Ids -> Phases]
  /\ \A i \in Ids :
       /\ phase'[i] # phase[i] => <<phase[i], phase'[i]>> \in MayFollow
       /\ phase[i] \in TerminalPhases /\ phase'[i] = phase[i]
            => outcome'[i] = outcome[i]
       /\ phase'[i] \in {"queued", "running", "completed"} => outcome'[i] = {}
       /\ phase'[i] \in {"failed", "partially-completed"} => outcome'[i] # {}
  /\ Cardinality(Remembered(phase')) <= MaxJobs
  /\ Cardinality(Executing(phase')) <= MaxRunning

Spec == Init /\ [][Next]_lifecycleVars

=============================================================================
