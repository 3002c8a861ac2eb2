-------------------------- MODULE PersistenceService --------------------------
(***************************************************************************)
(* HydraPersistenceService (db/persistence-service.ts): the process-wide   *)
(* chain that lets one persist() call write at a time, and the replay of a *)
(* whole batch after a partial pass.  The process may stop between any two *)
(* statements and start again; HydraDB stays.                              *)
(***************************************************************************)
EXTENDS HydraWriter

CONSTANTS
  MaxPartialReplays,  \* maxPartialReplays
  NoCall              \* the resolved promise processWriterTail starts from

ASSUME ServiceAssumption ==
  /\ MaxPartialReplays \in Nat
  /\ NoCall \notin Calls

VARIABLES
  call,   \* call[c]: where the promise of call c is
  pred,   \* pred[c]: the tail it was chained to
  tail,   \* processWriterTail
  round   \* round[c]: persistenceAttempt

serviceVars == <<call, pred, tail, round>>
vars == <<writerVars, serviceVars>>

InProgress(c) == call[c] \in {"waiting", "writing", "delayed"}
Settled(c) == call[c] \in {"resolved", "rejected", "stopped"}

(* runWithExclusiveWriter: chain on the tail and become the tail.          *)
Persist(c) ==
  /\ call[c] = "new"
  /\ call' = [call EXCEPT ![c] = "waiting"]
  /\ pred' = [pred EXCEPT ![c] = tail]
  /\ tail' = c
  /\ UNCHANGED <<writerVars, round>>

(* Faults, used only to see that a property notices them: a chain that     *)
(* stops at a rejection, and a partial result returned as success.         *)
MyTurnAfterSuccess(c) ==
  pred[c] = NoCall \/ (pred[c] \in Calls /\ call[pred[c]] \in {"resolved", "stopped"})

(* The operation runs once its predecessor settles, however it settles.    *)
MyTurn(c) == pred[c] = NoCall \/ (pred[c] \in Calls /\ Settled(pred[c]))

Enter(c) ==
  /\ call[c] = "waiting"
  /\ MyTurn(c)
  /\ call' = [call EXCEPT ![c] = "writing"]
  /\ StartPass(c)
  /\ UNCHANGED <<pred, tail, round>>

Write(c) ==
  /\ call[c] = "writing"
  /\ WriterStep(c)
  /\ UNCHANGED serviceVars

CanReplay(c) == stage[c] = "partial" /\ round[c] <= MaxPartialReplays

AfterPassUnchecked(c) == IF CanReplay(c) THEN "delayed" ELSE "resolved"

(* A pass has ended: resolve, wait before the next replay, or reject.      *)
AfterPass(c) ==
  IF stage[c] = "succeeded" THEN "resolved"
  ELSE IF CanReplay(c) THEN "delayed"
  ELSE "rejected"

EndPass(c) ==
  /\ call[c] = "writing"
  /\ stage[c] \in {"succeeded", "partial", "failed"}
  /\ call' = [call EXCEPT ![c] = AfterPass(c)]
  /\ UNCHANGED <<writerVars, pred, tail, round>>

Replay(c) ==
  /\ call[c] = "delayed"
  /\ call' = [call EXCEPT ![c] = "writing"]
  /\ round' = [round EXCEPT ![c] = @ + 1]
  /\ StartPass(c)
  /\ UNCHANGED <<pred, tail>>

(* The process stops; a statement it had sent may still commit.            *)
Stop ==
  /\ \E c \in Calls : InProgress(c)
  /\ call' = [c \in Calls |-> IF InProgress(c) THEN "stopped" ELSE call[c]]
  /\ tail' = NoCall
  /\ \/ UNCHANGED <<store, left>>
     \/ \E c \in Calls : /\ call[c] = "writing" /\ stage[c] = "writing"
                         /\ next[c] <= Len(Plan(c))
                         /\ Commit(c)
  /\ UNCHANGED <<stage, cursorVars, pred, round>>

Init ==
  /\ WriterInit
  /\ call = [c \in Calls |-> "new"]
  /\ pred = [c \in Calls |-> NoCall]
  /\ tail = NoCall
  /\ round = [c \in Calls |-> 1]

CallStep(c) == Enter(c) \/ Write(c) \/ EndPass(c) \/ Replay(c)

Next == Stop \/ \E c \in Calls : Persist(c) \/ CallStep(c)

(* Promises and timers run while the process does: every statement has a   *)
(* timeout.  Nothing makes a caller call, nor the process stop.            *)
Spec == Init /\ [][Next]_vars /\ \A c \in Calls : WF_vars(CallStep(c))

-----------------------------------------------------------------------------
(* Types of the store, the passes and the chain.                           *)
TypeOK ==
  /\ store \in [Rows -> Nat]
  /\ stage \in [Calls -> {"idle", "preflight", "writing", "verifying",
                          "succeeded", "partial", "failed"}]
  /\ next \in [Calls -> Nat \ {0}]
  /\ attempt \in [Calls -> 1..MaxAttempts]
  /\ wrote \in [Calls -> BOOLEAN]
  /\ left \in [Calls -> BOOLEAN]
  /\ call \in [Calls -> {"new", "waiting", "writing", "delayed", "resolved",
                         "rejected", "stopped"}]
  /\ pred \in [Calls -> Calls \cup {NoCall}]
  /\ tail \in Calls \cup {NoCall}
  /\ round \in [Calls -> 1..MaxPartialReplays + 1]

(* persist() resolves only when every row of the batch is in HydraDB with  *)
(* this batch's content or newer, whatever was lost and retried, and it    *)
(* stays there.                                                            *)
ResolvedIsDurable ==
  \A c \in Calls : call[c] = "resolved" => \A r \in Batch(c) : store[r] >= Stamp[c]

(* One writer at a time in the process, across replays and their delays.   *)
Writing(c) == call[c] \in {"writing", "delayed"}
OneWriter == \A c, d \in Calls : Writing(c) /\ Writing(d) => c = d

(* A crash, an exhausted retry or a replay never leaves a relationship     *)
(* whose endpoints are missing, nor a USED_BY index row without the        *)
(* canonical edge it indexes: readers that traverse the derived edges of a *)
(* half-written batch find nothing unsupported.                            *)
NoOrphanRows ==
  \A r \in Rows : store[r] # 0 => \A s \in Ends[r] \cup Base[r] : store[s] # 0

(* Two batches that write the same row in either order, or a delayed       *)
(* replay of the older one, never put older content over newer.            *)
ContentNeverRegresses == [][\A r \in Rows : store'[r] >= store[r]]_vars

(* A rejected or partial predecessor does not block the chain: every call  *)
(* gets its turn and settles.                                              *)
EveryCallSettles == \A c \in Calls : InProgress(c) ~> Settled(c)

=============================================================================
