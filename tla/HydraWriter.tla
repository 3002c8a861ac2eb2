----------------------------- MODULE HydraWriter ------------------------------
(***************************************************************************)
(* persistGraphBatch (db/hydra-writer.ts): one pass of a graph batch       *)
(* through preflight, the chunked upserts of nodes, canonical edges and    *)
(* derived edges, and verification.                                        *)
(*                                                                         *)
(* HydraDB has no multi-statement transactions: every statement commits on *)
(* its own.  A statement that throws may or may not have committed -- the  *)
(* acknowledgement was lost, or closing the session failed after RUN -- so *)
(* a failure is one of those two, and retryable or not.  The rows of a     *)
(* chunk are members of a small set, and the content of a row is the       *)
(* observed_at stamp it was last written with.                             *)
(***************************************************************************)
EXTENDS Naturals, Sequences, FiniteSets

CONSTANTS
  Calls,        \* the calls of persist() there may be
  Rows,         \* node and relationship rows of all batches
  Ends,         \* Ends[r]: the nodes a relationship row joins, {} for a node
  Base,         \* Base[r]: the canonical edge a derived row indexes, as a set
  Chunks,       \* Chunks[c][phase]: the chunks of call c's batch, in order
  Stamp,        \* Stamp[c]: observed_at of call c's batch
  MaxAttempts,  \* maxAttempts of a statement
  AckMayBeLost  \* a failed statement may have committed

ASSUME WriterAssumption ==
  /\ Ends \in [Rows -> SUBSET Rows] /\ Base \in [Rows -> SUBSET Rows]
  /\ Stamp \in [Calls -> Nat \ {0}]
  /\ MaxAttempts \in Nat \ {0}
  /\ AckMayBeLost \in BOOLEAN

(* A validated batch is closed (domain/validator.ts): a relationship's     *)
(* endpoints are nodes of the same batch, and a derived row comes with the *)
(* canonical edge it indexes.                                              *)
PhaseRows(c, phase) == UNION {Chunks[c][phase][k] : k \in DOMAIN Chunks[c][phase]}

ASSUME BatchAssumption ==
  \A c \in Calls :
    /\ Chunks[c] \in [nodes : Seq(SUBSET Rows), canonical : Seq(SUBSET Rows),
                      derived : Seq(SUBSET Rows)]
    /\ \A r \in PhaseRows(c, "nodes") : Ends[r] = {} /\ Base[r] = {}
    /\ \A r \in PhaseRows(c, "canonical") :
         Ends[r] \subseteq PhaseRows(c, "nodes") /\ Base[r] = {}
    /\ \A r \in PhaseRows(c, "derived") :
         /\ Ends[r] \subseteq PhaseRows(c, "nodes")
         /\ Base[r] \subseteq PhaseRows(c, "canonical")

VARIABLES
  store,    \* store[r]: the stamp of row r in HydraDB, 0 while it is absent
  stage,    \* stage[c]: the phase call c's pass is in, or its status
  next,     \* next[c]: the statement of its plan it executes next
  attempt,  \* attempt[c]: which attempt at that statement
  wrote,    \* wrote[c]: mutationStatementsSucceeded > 0 in this pass
  left      \* left[c]: whether call c has committed a row, in any pass

writerVars == <<store, stage, next, attempt, wrote, left>>
cursorVars == <<next, attempt, wrote>>

(* Faults, used only to see that a property notices them: index rows       *)
(* before the edges they index, and upserts without their guard.           *)
PhaseOrderIndexFirst == <<"nodes", "derived", "canonical">>

(* The order of the mutating members of HYDRA_PERSISTENCE_PHASES.          *)
PhaseOrder == <<"nodes", "canonical", "derived">>

Plan(c) ==
  Chunks[c][PhaseOrder[1]] \o Chunks[c][PhaseOrder[2]] \o Chunks[c][PhaseOrder[3]]

Batch(c) == UNION {Plan(c)[k] : k \in DOMAIN Plan(c)}
Chunk(c) == Plan(c)[next[c]]

(* An upsert MERGEs a row by its id; a relationship row whose MATCH finds  *)
(* no endpoints yields nothing.                                            *)
Reaches(r) == \A n \in Ends[r] : store[n] # 0

Unguarded(stamp, old) == TRUE

(* __hydradb_update_if_newer_by = row.observed_at                          *)
Newer(stamp, old) == stamp > old

Upserted(c) ==
  [r \in Rows |-> IF r \in Chunk(c) /\ Reaches(r) /\ Newer(Stamp[c], store[r])
                  THEN Stamp[c] ELSE store[r]]

Commit(c) ==
  /\ store' = Upserted(c)
  /\ left' = [left EXCEPT ![c] = @ \/ \E r \in Chunk(c) : Reaches(r)]

FailureStatus(c) == IF wrote[c] THEN "partial" ELSE "failed"
FailPhase(c) == stage' = [stage EXCEPT ![c] = FailureStatus(c)]

-----------------------------------------------------------------------------
(* Validation, serialisation and a fresh set of counters.                  *)
StartPass(c) ==
  /\ stage' = [stage EXCEPT ![c] = "preflight"]
  /\ next' = [next EXCEPT ![c] = 1]
  /\ attempt' = [attempt EXCEPT ![c] = 1]
  /\ wrote' = [wrote EXCEPT ![c] = FALSE]
  /\ UNCHANGED <<store, left>>

PreflightPasses(c) ==
  /\ stage[c] = "preflight"
  /\ stage' = [stage EXCEPT ![c] = "writing"]
  /\ UNCHANGED <<store, cursorVars, left>>

(* A read fails for good, an identity collides, or the rows read back are  *)
(* not the ones expected.                                                  *)
ReadPhaseFails(c) ==
  /\ stage[c] \in {"preflight", "verifying"}
  /\ FailPhase(c)
  /\ UNCHANGED <<store, cursorVars, left>>

StatementSucceeds(c) ==
  /\ stage[c] = "writing"
  /\ next[c] <= Len(Plan(c))
  /\ Commit(c)
  /\ next' = [next EXCEPT ![c] = @ + 1]
  /\ attempt' = [attempt EXCEPT ![c] = 1]
  /\ wrote' = [wrote EXCEPT ![c] = TRUE]
  /\ UNCHANGED stage

StatementThrows(c, retryable, committed) ==
  /\ stage[c] = "writing"
  /\ next[c] <= Len(Plan(c))
  /\ IF committed THEN AckMayBeLost /\ Commit(c) ELSE UNCHANGED <<store, left>>
  /\ IF retryable /\ attempt[c] < MaxAttempts
     THEN attempt' = [attempt EXCEPT ![c] = @ + 1] /\ UNCHANGED stage
     ELSE FailPhase(c) /\ UNCHANGED attempt
  /\ UNCHANGED <<next, wrote>>

WritesDone(c) ==
  /\ stage[c] = "writing"
  /\ next[c] > Len(Plan(c))
  /\ stage' = [stage EXCEPT ![c] = "verifying"]
  /\ UNCHANGED <<store, cursorVars, left>>

Verified(c) ==
  /\ stage[c] = "verifying"
  /\ \A r \in Batch(c) : store[r] # 0
  /\ stage' = [stage EXCEPT ![c] = "succeeded"]
  /\ UNCHANGED <<store, cursorVars, left>>

WriterInit ==
  /\ store = [r \in Rows |-> 0]
  /\ stage = [c \in Calls |-> "idle"]
  /\ next = [c \in Calls |-> 1]
  /\ attempt = [c \in Calls |-> 1]
  /\ wrote = [c \in Calls |-> FALSE]
  /\ left = [c \in Calls |-> FALSE]

WriterStep(c) ==
  \/ PreflightPasses(c) \/ ReadPhaseFails(c)
  \/ StatementSucceeds(c)
  \/ \E retryable, committed \in BOOLEAN : StatementThrows(c, retryable, committed)
  \/ WritesDone(c) \/ Verified(c)

=============================================================================
