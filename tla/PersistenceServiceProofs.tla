----------------------- MODULE PersistenceServiceProofs -----------------------
(***************************************************************************)
(* Proofs about the persistence service and the writer passes it runs, for *)
(* any batches, rows, chunk sizes and limits.                              *)
(***************************************************************************)
EXTENDS PersistenceService, TLAPS

-----------------------------------------------------------------------------
(* The plan of a batch: nodes, then canonical edges, then derived rows.    *)

Nodes(c) == Chunks[c].nodes
Canonical(c) == Chunks[c].canonical
Derived(c) == Chunks[c].derived

LEMMA ConcatFacts ==
  ASSUME NEW u \in Seq(SUBSET Rows), NEW v \in Seq(SUBSET Rows)
  PROVE  /\ u \o v \in Seq(SUBSET Rows)
         /\ Len(u \o v) = Len(u) + Len(v)
         /\ \A k \in 1..Len(u) : (u \o v)[k] = u[k]
         /\ \A k \in 1..Len(v) : (u \o v)[Len(u) + k] = v[k]
OBVIOUS

LEMMA PlanShape ==
  ASSUME NEW c \in Calls
  PROVE  /\ Plan(c) \in Seq(SUBSET Rows)
         /\ Len(Plan(c)) = Len(Nodes(c)) + Len(Canonical(c)) + Len(Derived(c))
         /\ \A k \in 1..Len(Nodes(c)) : Plan(c)[k] = Nodes(c)[k]
         /\ \A k \in 1..Len(Canonical(c)) :
              Plan(c)[Len(Nodes(c)) + k] = Canonical(c)[k]
         /\ \A k \in 1..Len(Derived(c)) :
              Plan(c)[Len(Nodes(c)) + Len(Canonical(c)) + k] = Derived(c)[k]
<1>. DEFINE N == Nodes(c)  C == Canonical(c)  D == Derived(c)
<1>1. N \in Seq(SUBSET Rows) /\ C \in Seq(SUBSET Rows) /\ D \in Seq(SUBSET Rows)
  BY BatchAssumption DEF Nodes, Canonical, Derived
<1>2. Plan(c) = N \o C \o D
  BY DEF Plan, PhaseOrder, Nodes, Canonical, Derived
<1>. HIDE DEF N, C, D
<1>. DEFINE NC == N \o C
<1>3. /\ NC \in Seq(SUBSET Rows) /\ Len(NC) = Len(N) + Len(C)
      /\ \A k \in 1..Len(N) : NC[k] = N[k]
      /\ \A k \in 1..Len(C) : NC[Len(N) + k] = C[k]
  BY <1>1, ConcatFacts
<1>. HIDE DEF NC
<1>4. /\ NC \o D \in Seq(SUBSET Rows) /\ Len(NC \o D) = Len(NC) + Len(D)
      /\ \A k \in 1..Len(NC) : (NC \o D)[k] = NC[k]
      /\ \A k \in 1..Len(D) : (NC \o D)[Len(NC) + k] = D[k]
  BY <1>1, <1>3, ConcatFacts
<1>5. Plan(c) = NC \o D
  BY <1>2 DEF NC
<1>6. Len(N) \in Nat /\ Len(C) \in Nat /\ Len(D) \in Nat
  BY <1>1
<1>7. \A k \in 1..Len(N) : k \in 1..Len(NC)
  BY <1>3, <1>6
<1>8. \A k \in 1..Len(C) : Len(N) + k \in 1..Len(NC)
  BY <1>3, <1>6
<1>9. \A k \in 1..Len(N) : Plan(c)[k] = N[k]
  BY <1>3, <1>4, <1>5, <1>7, Zenon
<1>10. \A k \in 1..Len(C) : Plan(c)[Len(N) + k] = C[k]
  BY <1>3, <1>4, <1>5, <1>8, Zenon
<1>11. \A k \in 1..Len(D) : Plan(c)[Len(N) + Len(C) + k] = D[k]
  BY <1>3, <1>4, <1>5, Zenon
<1>12. Len(Plan(c)) = Len(N) + Len(C) + Len(D)
  BY <1>3, <1>4, <1>5, Zenon
<1>. QED
  BY <1>4, <1>5, <1>9, <1>10, <1>11, <1>12, Zenon DEF N, C, D

(* The rows the k-th chunk of a plan builds on are in earlier chunks.      *)
LEMMA ChunksBuildOnEarlierOnes ==
  ASSUME NEW c \in Calls, NEW k \in 1..Len(Plan(c)), NEW r \in Plan(c)[k],
         NEW s \in Ends[r] \cup Base[r]
  PROVE  \E j \in 1..Len(Plan(c)) : j < k /\ s \in Plan(c)[j]
<1>. DEFINE N == Nodes(c)  C == Canonical(c)  D == Derived(c)
<1>1. /\ N \in Seq(SUBSET Rows) /\ C \in Seq(SUBSET Rows) /\ D \in Seq(SUBSET Rows)
      /\ PhaseRows(c, "nodes") = UNION {N[j] : j \in 1..Len(N)}
      /\ PhaseRows(c, "canonical") = UNION {C[j] : j \in 1..Len(C)}
      /\ PhaseRows(c, "derived") = UNION {D[j] : j \in 1..Len(D)}
  <2>1. N \in Seq(SUBSET Rows) /\ C \in Seq(SUBSET Rows) /\ D \in Seq(SUBSET Rows)
    BY BatchAssumption DEF Nodes, Canonical, Derived
  <2>2. DOMAIN N = 1..Len(N) /\ DOMAIN C = 1..Len(C) /\ DOMAIN D = 1..Len(D)
    BY <2>1
  <2>3. Chunks[c]["nodes"] = N /\ Chunks[c]["canonical"] = C /\ Chunks[c]["derived"] = D
    BY DEF Nodes, Canonical, Derived
  <2>. QED
    BY <2>1, <2>2, <2>3, Zenon DEF PhaseRows
<1>2. /\ \A x \in PhaseRows(c, "nodes") : Ends[x] = {} /\ Base[x] = {}
      /\ \A x \in PhaseRows(c, "canonical") :
           Ends[x] \subseteq PhaseRows(c, "nodes") /\ Base[x] = {}
      /\ \A x \in PhaseRows(c, "derived") :
           /\ Ends[x] \subseteq PhaseRows(c, "nodes")
           /\ Base[x] \subseteq PhaseRows(c, "canonical")
  BY BatchAssumption
<1>3. /\ Len(Plan(c)) = Len(N) + Len(C) + Len(D)
      /\ \A j \in 1..Len(N) : Plan(c)[j] = N[j]
      /\ \A j \in 1..Len(C) : Plan(c)[Len(N) + j] = C[j]
      /\ \A j \in 1..Len(D) : Plan(c)[Len(N) + Len(C) + j] = D[j]
  BY PlanShape
<1>. HIDE DEF N, C, D
<1>4. Len(N) \in Nat /\ Len(C) \in Nat /\ Len(D) \in Nat /\ k \in Nat
  BY <1>1, <1>3
<1>5. ASSUME NEW x \in PhaseRows(c, "nodes")
      PROVE  \E j \in 1..Len(N) : x \in Plan(c)[j]
  BY <1>1, <1>3
<1>6. ASSUME NEW x \in PhaseRows(c, "canonical")
      PROVE  \E j \in 1..Len(C) : x \in Plan(c)[Len(N) + j]
  BY <1>1, <1>3
<1>7. CASE k <= Len(N)
  <2>1. r \in PhaseRows(c, "nodes")
    <3>1. k \in 1..Len(N) /\ r \in N[k]
      BY <1>3, <1>4, <1>7
    <3>. QED
      BY <3>1, <1>1, Zenon
  <2>. QED
    BY <2>1, <1>2
<1>8. ASSUME Len(N) < k, s \in PhaseRows(c, "nodes")
      PROVE  \E j \in 1..Len(Plan(c)) : j < k /\ s \in Plan(c)[j]
  <2>1. PICK j \in 1..Len(N) : s \in Plan(c)[j]
    BY <1>5, <1>8
  <2>2. j \in 1..Len(Plan(c)) /\ j < k
    BY <1>3, <1>4, <1>8
  <2>. QED
    BY <2>1, <2>2
<1>9. CASE Len(N) < k /\ k <= Len(N) + Len(C)
  <2>1. k - Len(N) \in 1..Len(C) /\ k = Len(N) + (k - Len(N))
    BY <1>4, <1>9
  <2>2. Plan(c)[k] = C[k - Len(N)]
    BY <2>1, <1>3
  <2>3. r \in PhaseRows(c, "canonical")
    BY <1>1, <2>1, <2>2
  <2>4. s \in PhaseRows(c, "nodes")
    BY <2>3, <1>2
  <2>. QED
    BY <2>4, <1>8, <1>9
<1>10. CASE Len(N) + Len(C) < k
  <2>1. /\ k - (Len(N) + Len(C)) \in 1..Len(D)
        /\ k = Len(N) + Len(C) + (k - (Len(N) + Len(C)))
    BY <1>3, <1>4, <1>10
  <2>2. Plan(c)[k] = D[k - (Len(N) + Len(C))]
    BY <2>1, <1>3
  <2>3. r \in PhaseRows(c, "derived")
    BY <1>1, <2>1, <2>2
  <2>4. s \in PhaseRows(c, "nodes") \/ s \in PhaseRows(c, "canonical")
    BY <2>3, <1>2
  <2>5. CASE s \in PhaseRows(c, "nodes")
    <3>1. Len(N) < k
      BY <1>4, <1>10
    <3>. QED
      BY <2>5, <3>1, <1>8
  <2>6. CASE s \in PhaseRows(c, "canonical")
    <3>1. PICK j \in 1..Len(C) : s \in Plan(c)[Len(N) + j]
      BY <2>6, <1>6
    <3>2. Len(N) + j \in 1..Len(Plan(c)) /\ Len(N) + j < k
      BY <1>3, <1>4, <1>10
    <3>. QED
      BY <3>1, <3>2
  <2>. QED
    BY <2>4, <2>5, <2>6
<1>. QED
  BY <1>4, <1>7, <1>9, <1>10

-----------------------------------------------------------------------------
(* What a pass has established.  A statement the cursor is past has put    *)
(* its rows into HydraDB with this batch's content or newer, and nothing   *)
(* takes them out again; a pass verifies and succeeds only past its plan.  *)

Covered(c) ==
  \A k \in 1..Len(Plan(c)) :
    k < next[c] => \A r \in Plan(c)[k] : store[r] >= Stamp[c]

PassInv ==
  \A c \in Calls :
    /\ Covered(c)
    /\ stage[c] \in {"verifying", "succeeded"} => Len(Plan(c)) < next[c]
    /\ call[c] = "resolved" => stage[c] = "succeeded"

(* A call that waits before a replay has one left.                         *)
ReplayInv == \A c \in Calls : call[c] = "delayed" => round[c] <= MaxPartialReplays

TypesInv == TypeOK /\ ReplayInv
RowsInv == TypesInv /\ PassInv /\ NoOrphanRows

LEMMA CommitTypes ==
  ASSUME NEW c \in Calls, TypeOK, Commit(c)
  PROVE  store' \in [Rows -> Nat] /\ left' \in [Calls -> BOOLEAN]
BY WriterAssumption DEF TypeOK, Commit, Upserted

LEMMA WriteTypes ==
  ASSUME NEW c \in Calls, TypesInv, Write(c)
  PROVE  TypesInv'
<1>. USE DEF TypesInv, ReplayInv, serviceVars, cursorVars
<1>0. /\ call' = call /\ pred' = pred /\ tail' = tail /\ round' = round
  BY DEF Write
<1>1. CASE PreflightPasses(c) \/ WritesDone(c) \/ Verified(c)
  BY <1>0, <1>1 DEF TypeOK, PreflightPasses, WritesDone, Verified
<1>2. CASE ReadPhaseFails(c)
  BY <1>0, <1>2 DEF TypeOK, ReadPhaseFails, FailPhase, FailureStatus
<1>3. CASE StatementSucceeds(c)
  <2>1. store' \in [Rows -> Nat] /\ left' \in [Calls -> BOOLEAN]
    BY <1>3, CommitTypes DEF StatementSucceeds
  <2>2. attempt' \in [Calls -> 1..MaxAttempts]
    BY <1>3, WriterAssumption DEF StatementSucceeds, TypeOK
  <2>. QED
    BY <1>0, <1>3, <2>1, <2>2 DEF TypeOK, StatementSucceeds
<1>4. ASSUME NEW retryable \in BOOLEAN, NEW committed \in BOOLEAN,
             StatementThrows(c, retryable, committed)
      PROVE  TypesInv'
  <2>1. store' \in [Rows -> Nat] /\ left' \in [Calls -> BOOLEAN]
    <3>1. CASE committed
      BY <1>4, <3>1, CommitTypes DEF StatementThrows
    <3>2. CASE ~committed
      BY <1>4, <3>2 DEF StatementThrows, TypeOK
    <3>. QED
      BY <3>1, <3>2
  <2>2. attempt' \in [Calls -> 1..MaxAttempts]
    <3>1. CASE retryable /\ attempt[c] < MaxAttempts
      <4>1. attempt' = [attempt EXCEPT ![c] = @ + 1]
        BY <1>4, <3>1 DEF StatementThrows
      <4>2. attempt[c] + 1 \in 1..MaxAttempts
        BY <3>1, WriterAssumption DEF TypeOK
      <4>. QED
        BY <4>1, <4>2 DEF TypeOK
    <3>2. CASE ~(retryable /\ attempt[c] < MaxAttempts)
      BY <1>4, <3>2 DEF StatementThrows, TypeOK
    <3>. QED
      BY <3>1, <3>2
  <2>3. stage' \in [Calls -> {"idle", "preflight", "writing", "verifying",
                              "succeeded", "partial", "failed"}]
    BY <1>4 DEF StatementThrows, TypeOK, FailPhase, FailureStatus
  <2>. QED
    BY <1>0, <1>4, <2>1, <2>2, <2>3 DEF TypeOK, StatementThrows
<1>. QED
  BY <1>1, <1>2, <1>3, <1>4 DEF Write, WriterStep

LEMMA TypesStep ==
  ASSUME TypesInv, [Next]_vars
  PROVE  TypesInv'
<1>. USE DEF TypesInv
<1>1. ASSUME NEW c \in Calls, Persist(c) PROVE TypesInv'
  BY <1>1 DEF TypeOK, ReplayInv, Persist, writerVars
<1>2. ASSUME NEW c \in Calls, Enter(c) PROVE TypesInv'
  BY <1>2, WriterAssumption DEF TypeOK, ReplayInv, Enter, StartPass
<1>3. ASSUME NEW c \in Calls, Replay(c) PROVE TypesInv'
  <2>1. round[c] <= MaxPartialReplays
    BY <1>3 DEF Replay, ReplayInv
  <2>2. round' \in [Calls -> 1..MaxPartialReplays + 1]
    BY <1>3, <2>1, ServiceAssumption DEF TypeOK, Replay
  <2>3. ReplayInv'
    BY <1>3 DEF TypeOK, ReplayInv, Replay
  <2>. QED
    BY <1>3, <2>2, <2>3, WriterAssumption DEF TypeOK, Replay, StartPass
<1>4. ASSUME NEW c \in Calls, EndPass(c) PROVE TypesInv'
  <2>1. /\ call' = [call EXCEPT ![c] = AfterPass(c)]
        /\ AfterPass(c) \in {"resolved", "delayed", "rejected"}
        /\ AfterPass(c) = "delayed" => round[c] <= MaxPartialReplays
    BY <1>4 DEF EndPass, AfterPass, CanReplay
  <2>2. call' \in [Calls -> {"new", "waiting", "writing", "delayed", "resolved",
                             "rejected", "stopped"}]
    BY <2>1 DEF TypeOK
  <2>. QED
    BY <1>4, <2>1, <2>2 DEF TypeOK, ReplayInv, EndPass, writerVars
<1>5. ASSUME Stop PROVE TypesInv'
  <2>1. store' \in [Rows -> Nat] /\ left' \in [Calls -> BOOLEAN]
    BY <1>5, CommitTypes DEF Stop, TypeOK
  <2>2. call' = [c \in Calls |-> IF InProgress(c) THEN "stopped" ELSE call[c]]
    BY <1>5 DEF Stop
  <2>. QED
    BY <1>5, <2>1, <2>2 DEF TypeOK, ReplayInv, Stop, cursorVars, InProgress
<1>6. CASE UNCHANGED vars
  BY <1>6 DEF TypeOK, ReplayInv, vars, writerVars, serviceVars
<1>. QED
  BY <1>1, <1>2, <1>3, <1>4, <1>5, <1>6, WriteTypes DEF Next, CallStep

(* What one commit does: no row loses content, the rows of the statement   *)
(* reach this batch's, and every row still has what it builds on.          *)
LEMMA CommitFacts ==
  ASSUME NEW c \in Calls, TypeOK, NoOrphanRows, Covered(c),
         next[c] <= Len(Plan(c)), Commit(c)
  PROVE  /\ store' \in [Rows -> Nat]
         /\ left' \in [Calls -> BOOLEAN]
         /\ \A r \in Rows : store'[r] >= store[r]
         /\ \A r \in Plan(c)[next[c]] : store'[r] >= Stamp[c]
         /\ \A r \in Rows : store'[r] # 0 =>
              \A s \in Ends[r] \cup Base[r] : store'[s] # 0
<1>1. /\ store \in [Rows -> Nat] /\ next[c] \in 1..Len(Plan(c))
      /\ left \in [Calls -> BOOLEAN] /\ Stamp[c] \in Nat \ {0}
      /\ Plan(c) \in Seq(SUBSET Rows) /\ Len(Plan(c)) \in Nat
      /\ \A r \in Rows : Ends[r] \subseteq Rows /\ Base[r] \subseteq Rows
  <2>1. Plan(c) \in Seq(SUBSET Rows) /\ Len(Plan(c)) \in Nat
    BY PlanShape
  <2>. QED
    BY <2>1, WriterAssumption DEF TypeOK
<1>2. /\ Plan(c)[next[c]] \subseteq Rows /\ Chunk(c) = Plan(c)[next[c]]
      /\ \A k \in 1..Len(Plan(c)) : Plan(c)[k] \subseteq Rows
  BY <1>1 DEF Chunk
<1>3. /\ \A r \in Rows : store'[r] = IF r \in Chunk(c) /\ Reaches(r) /\ Stamp[c] > store[r]
                                    THEN Stamp[c] ELSE store[r]
      /\ store' \in [Rows -> Nat]
  BY <1>1 DEF Commit, Upserted, Newer
<1>4. left' \in [Calls -> BOOLEAN]
  BY <1>1 DEF Commit
<1>5. \A r \in Rows : store[r] \in Nat /\ store'[r] \in Nat /\ store'[r] >= store[r]
  BY <1>1, <1>3
<1>6. ASSUME NEW r \in Chunk(c), NEW s \in Ends[r] \cup Base[r]
      PROVE  s \in Rows /\ store[s] # 0
  <2>1. PICK j \in 1..Len(Plan(c)) : j < next[c] /\ s \in Plan(c)[j]
    BY <1>1, <1>2, <1>6, ChunksBuildOnEarlierOnes
  <2>2. store[s] >= Stamp[c] /\ s \in Rows
    BY <1>2, <2>1 DEF Covered
  <2>. QED
    BY <1>1, <2>2
<1>7. ASSUME NEW r \in Chunk(c) PROVE store'[r] >= Stamp[c]
  <2>1. r \in Rows /\ Reaches(r)
    BY <1>2, <1>6, <1>7 DEF Reaches
  <2>. QED
    BY <1>1, <1>3, <2>1
<1>8. ASSUME NEW r \in Rows, store'[r] # 0, NEW s \in Ends[r] \cup Base[r]
      PROVE  store'[s] # 0
  <2>1. s \in Rows /\ store[s] # 0
    <3>1. CASE store[r] # 0
      BY <1>1, <1>8, <3>1 DEF NoOrphanRows
    <3>2. CASE store[r] = 0
      <4>1. r \in Chunk(c)
        BY <1>3, <1>8, <3>2
      <4>. QED
        BY <4>1, <1>6, <1>8
    <3>. QED
      BY <3>1, <3>2
  <2>. QED
    BY <1>5, <2>1
<1>. QED
  BY <1>2, <1>3, <1>4, <1>5, <1>7, <1>8

(* Rows that only gain content keep what every pass has covered.           *)
LEMMA CoveredStays ==
  ASSUME NEW c \in Calls, TypeOK, Covered(c), store' \in [Rows -> Nat],
         \A r \in Rows : store'[r] >= store[r],
         next'[c] = next[c] \/ next'[c] = 1
  PROVE  Covered(c)'
<1>1. /\ Plan(c) \in Seq(SUBSET Rows) /\ Len(Plan(c)) \in Nat
      /\ Stamp[c] \in Nat /\ store \in [Rows -> Nat]
  BY PlanShape, WriterAssumption DEF TypeOK
<1>2. ASSUME NEW k \in 1..Len(Plan(c)), k < next'[c], NEW r \in Plan(c)[k]
      PROVE  store'[r] >= Stamp[c]
  <2>1. r \in Rows /\ k < next[c]
    BY <1>1, <1>2
  <2>2. store[r] >= Stamp[c]
    BY <1>2, <2>1 DEF Covered
  <2>. QED
    BY <1>1, <2>1, <2>2
<1>. QED
  BY <1>2 DEF Covered, Plan, PhaseOrder

LEMMA OneCallMoves ==
  ASSUME RowsInv, NEW c \in Calls,
         store' \in [Rows -> Nat], \A r \in Rows : store'[r] >= store[r],
         \A d \in Calls \ {c} : /\ next'[d] = next[d] /\ stage'[d] = stage[d]
                                /\ call'[d] = call[d],
         Covered(c)',
         stage'[c] \in {"verifying", "succeeded"} => Len(Plan(c)) < next'[c],
         call'[c] = "resolved" => stage'[c] = "succeeded"
  PROVE  PassInv'
<1>1. ASSUME NEW d \in Calls, d # c PROVE Covered(d)'
  <2>1. Covered(d) /\ TypeOK /\ next'[d] = next[d]
    BY <1>1 DEF RowsInv, TypesInv, PassInv
  <2>. QED
    BY <2>1, CoveredStays
<1>2. ASSUME NEW d \in Calls, d # c
      PROVE  /\ stage'[d] \in {"verifying", "succeeded"} => Len(Plan(d)) < next'[d]
             /\ call'[d] = "resolved" => stage'[d] = "succeeded"
  BY <1>2 DEF RowsInv, TypesInv, PassInv
<1>3. \A d \in Calls : Plan(d)' = Plan(d)
  BY DEF Plan, PhaseOrder
<1>. QED
  BY <1>1, <1>2, <1>3 DEF PassInv

Keeps == RowsInv' /\ \A r \in Rows : store'[r] >= store[r]

LEMMA RowsAtRest ==
  ASSUME RowsInv, store' = store
  PROVE  /\ store' \in [Rows -> Nat] /\ NoOrphanRows'
         /\ \A r \in Rows : store'[r] >= store[r]
BY DEF RowsInv, TypesInv, TypeOK, NoOrphanRows

LEMMA PassStarts ==
  ASSUME RowsInv, NEW c \in Calls, StartPass(c), TypesInv',
         call' = [call EXCEPT ![c] = "writing"]
  PROVE  Keeps
<1>1. /\ TypeOK /\ Covered(c) /\ next'[c] = 1 /\ stage'[c] = "preflight"
      /\ call'[c] = "writing" /\ store' = store
      /\ \A d \in Calls \ {c} : /\ next'[d] = next[d] /\ stage'[d] = stage[d]
                                /\ call'[d] = call[d]
  BY DEF RowsInv, TypesInv, PassInv, TypeOK, StartPass
<1>2. Covered(c)'
  BY <1>1, RowsAtRest, CoveredStays
<1>3. PassInv'
  BY <1>1, <1>2, RowsAtRest, OneCallMoves
<1>. QED
  BY <1>1, <1>3, RowsAtRest DEF RowsInv, Keeps

(* Steps of a pass that leave the rows and the cursor alone.               *)
LEMMA PassTurns ==
  ASSUME RowsInv, NEW c \in Calls, TypesInv', store' = store, next' = next,
         \A d \in Calls \ {c} : stage'[d] = stage[d] /\ call'[d] = call[d],
         stage'[c] \in {"verifying", "succeeded"} => Len(Plan(c)) < next[c],
         call'[c] = "resolved" => stage'[c] = "succeeded"
  PROVE  Keeps
<1>1. TypeOK /\ Covered(c)
  BY DEF RowsInv, TypesInv, PassInv
<1>2. Covered(c)'
  BY <1>1, RowsAtRest, CoveredStays
<1>3. PassInv'
  BY <1>2, RowsAtRest, OneCallMoves
<1>. QED
  BY <1>3, RowsAtRest DEF RowsInv, Keeps

(* Steps that commit a statement, or may have.                             *)
LEMMA PassCommits ==
  ASSUME RowsInv, NEW c \in Calls, TypesInv', Commit(c), next[c] <= Len(Plan(c)),
         stage[c] = "writing", call[c] # "resolved",
         next'[c] = next[c] \/ next'[c] = next[c] + 1,
         stage'[c] \in {"writing", "partial", "failed"}, call'[c] # "resolved",
         \A d \in Calls \ {c} :
           /\ next'[d] = next[d] /\ stage'[d] = stage[d]
           /\ call'[d] = call[d] \/ call'[d] # "resolved"
  PROVE  Keeps
<1>1. /\ TypeOK /\ Covered(c) /\ NoOrphanRows /\ PassInv
      /\ next[c] \in Nat
  BY DEF RowsInv, TypesInv, PassInv, TypeOK
<1>2. /\ store' \in [Rows -> Nat]
      /\ \A r \in Rows : store'[r] >= store[r]
      /\ \A r \in Plan(c)[next[c]] : store'[r] >= Stamp[c]
      /\ NoOrphanRows'
  BY <1>1, CommitFacts DEF NoOrphanRows
<1>3. \A d \in Calls : Plan(d)' = Plan(d) /\ Len(Plan(d)) \in Nat
                       /\ Plan(d) \in Seq(SUBSET Rows)
  <2>1. ASSUME NEW d \in Calls
        PROVE  Plan(d) \in Seq(SUBSET Rows) /\ Len(Plan(d)) \in Nat
    BY PlanShape
  <2>2. \A d \in Calls : Plan(d)' = Plan(d)
    BY DEF Plan, PhaseOrder
  <2>. QED
    BY <2>1, <2>2
<1>4. Covered(c)'
  <2>1. ASSUME NEW k \in 1..Len(Plan(c)), k < next'[c], NEW r \in Plan(c)[k]
        PROVE  store'[r] >= Stamp[c]
    <3>1. CASE k = next[c]
      BY <1>2, <3>1
    <3>2. CASE k # next[c]
      <4>1. k < next[c] /\ r \in Rows
        BY <1>1, <1>3, <2>1, <3>2
      <4>2. store[r] >= Stamp[c]
        BY <1>1, <4>1 DEF Covered
      <4>3. store[r] \in Nat /\ store'[r] \in Nat /\ Stamp[c] \in Nat
        BY <1>1, <1>2, <4>1, WriterAssumption DEF TypeOK
      <4>. QED
        BY <1>2, <4>1, <4>2, <4>3
    <3>. QED
      BY <3>1, <3>2
  <2>. QED
    BY <1>3, <2>1 DEF Covered
<1>5. ASSUME NEW d \in Calls, d # c PROVE Covered(d)'
  BY <1>1, <1>2, <1>5, CoveredStays DEF PassInv
<1>6. ASSUME NEW d \in Calls
      PROVE  /\ stage'[d] \in {"verifying", "succeeded"} => Len(Plan(d)) < next'[d]
             /\ call'[d] = "resolved" => stage'[d] = "succeeded"
  BY <1>1 DEF PassInv
<1>7. PassInv'
  BY <1>3, <1>4, <1>5, <1>6 DEF PassInv
<1>. QED
  BY <1>2, <1>7 DEF RowsInv, Keeps

(* Every step keeps the types, what the passes covered and the rows they   *)
(* build on, and takes no content away.                                    *)
LEMMA RowsStep ==
  ASSUME RowsInv, [Next]_vars
  PROVE  Keeps
<1>0. TypesInv /\ TypesInv' /\ TypeOK /\ PassInv
  BY TypesStep DEF RowsInv, TypesInv
<1>1. ASSUME NEW c \in Calls, Persist(c) PROVE Keeps
  <2>1. /\ store' = store /\ next' = next /\ stage' = stage
        /\ call'[c] = "waiting"
        /\ \A d \in Calls \ {c} : call'[d] = call[d]
    BY <1>0, <1>1 DEF TypeOK, Persist, writerVars
  <2>2. stage'[c] \in {"verifying", "succeeded"} => Len(Plan(c)) < next[c]
    BY <1>0, <2>1 DEF PassInv
  <2>. QED
    BY <1>0, <2>1, <2>2, PassTurns
<1>2. ASSUME NEW c \in Calls, Enter(c) \/ Replay(c) PROVE Keeps
  <2>1. StartPass(c) /\ call' = [call EXCEPT ![c] = "writing"]
    BY <1>2 DEF Enter, Replay
  <2>. QED
    BY <1>0, <2>1, PassStarts
<1>3. ASSUME NEW c \in Calls, EndPass(c) PROVE Keeps
  <2>1. /\ store' = store /\ next' = next /\ stage' = stage
        /\ call'[c] = AfterPass(c)
        /\ \A d \in Calls \ {c} : call'[d] = call[d]
    BY <1>0, <1>3 DEF TypeOK, EndPass, writerVars, cursorVars
  <2>2. stage'[c] \in {"verifying", "succeeded"} => Len(Plan(c)) < next[c]
    BY <1>0, <2>1 DEF PassInv
  <2>3. call'[c] = "resolved" => stage'[c] = "succeeded"
    BY <2>1 DEF AfterPass
  <2>. QED
    BY <1>0, <2>1, <2>2, <2>3, PassTurns
<1>4. ASSUME NEW c \in Calls, Write(c) PROVE Keeps
  <2>. USE DEF cursorVars, serviceVars
  <2>0. /\ call[c] = "writing" /\ call' = call
        /\ \A n \in Nat : Len(Plan(c)) < n \/ n <= Len(Plan(c))
    <3>1. Len(Plan(c)) \in Nat
      BY PlanShape
    <3>. QED
      BY <1>4, <3>1 DEF Write
  <2>1. CASE PreflightPasses(c) \/ WritesDone(c) \/ Verified(c) \/ ReadPhaseFails(c)
    <3>1. /\ store' = store /\ next' = next
          /\ \A d \in Calls \ {c} : stage'[d] = stage[d]
      BY <1>0, <2>1 DEF TypeOK, PreflightPasses, WritesDone, Verified,
         ReadPhaseFails, FailPhase
    <3>2. stage'[c] \in {"verifying", "succeeded"} => Len(Plan(c)) < next[c]
      <4>1. CASE WritesDone(c)
        BY <1>0, <2>0, <4>1 DEF WritesDone, TypeOK
      <4>2. CASE Verified(c)
        BY <1>0, <4>2 DEF Verified, PassInv
      <4>3. CASE PreflightPasses(c) \/ ReadPhaseFails(c)
        BY <1>0, <4>3 DEF PreflightPasses, ReadPhaseFails, FailPhase,
           FailureStatus, TypeOK
      <4>. QED
        BY <2>1, <4>1, <4>2, <4>3
    <3>. QED
      BY <1>0, <2>0, <3>1, <3>2, PassTurns
  <2>2. CASE StatementSucceeds(c)
    <3>1. /\ Commit(c) /\ next[c] <= Len(Plan(c)) /\ stage[c] = "writing"
          /\ stage' = stage /\ next'[c] = next[c] + 1
          /\ \A d \in Calls \ {c} : next'[d] = next[d]
      BY <1>0, <2>2 DEF StatementSucceeds, TypeOK
    <3>. QED
      BY <1>0, <2>0, <3>1, PassCommits
  <2>3. ASSUME NEW retryable \in BOOLEAN, NEW committed \in BOOLEAN,
               StatementThrows(c, retryable, committed)
        PROVE  Keeps
    <3>1. /\ next[c] <= Len(Plan(c)) /\ stage[c] = "writing" /\ next' = next
          /\ stage'[c] \in {"writing", "partial", "failed"}
          /\ \A d \in Calls \ {c} : stage'[d] = stage[d]
      BY <1>0, <2>3 DEF StatementThrows, TypeOK, FailPhase, FailureStatus
    <3>2. CASE committed
      <4>1. Commit(c)
        BY <2>3, <3>2 DEF StatementThrows
      <4>. QED
        BY <1>0, <2>0, <3>1, <4>1, PassCommits
    <3>3. CASE ~committed
      <4>1. store' = store
        BY <2>3, <3>3 DEF StatementThrows
      <4>. QED
        BY <1>0, <2>0, <3>1, <4>1, PassTurns
    <3>. QED
      BY <3>2, <3>3
  <2>. QED
    BY <1>4, <2>1, <2>2, <2>3 DEF Write, WriterStep
<1>5. ASSUME Stop PROVE Keeps
  <2>1. /\ next' = next /\ stage' = stage
        /\ \A d \in Calls : call'[d] = call[d] \/ call'[d] = "stopped"
    BY <1>0, <1>5 DEF Stop, TypeOK, cursorVars
  <2>2. CASE UNCHANGED <<store, left>>
    <3>1. ASSUME NEW c \in Calls PROVE Covered(c)'
      BY <1>0, <2>1, <2>2, RowsAtRest, CoveredStays DEF PassInv
    <3>2. \A c \in Calls : Plan(c)' = Plan(c)
      BY DEF Plan, PhaseOrder
    <3>3. PassInv'
      BY <1>0, <2>1, <3>1, <3>2 DEF PassInv
    <3>. QED
      BY <1>0, <2>2, <3>3, RowsAtRest DEF RowsInv, Keeps
  <2>3. ASSUME NEW c \in Calls, call[c] = "writing", stage[c] = "writing",
               next[c] <= Len(Plan(c)), Commit(c)
        PROVE  Keeps
    <3>1. call'[c] = "stopped"
      BY <1>0, <1>5, <2>3 DEF Stop, InProgress
    <3>. QED
      BY <1>0, <2>1, <2>3, <3>1, PassCommits
  <2>. QED
    BY <1>5, <2>2, <2>3 DEF Stop
<1>6. CASE UNCHANGED vars
  <2>1. /\ store' = store /\ next' = next /\ stage' = stage /\ call' = call
    BY <1>6 DEF vars, writerVars, serviceVars
  <2>2. ASSUME NEW c \in Calls PROVE Covered(c)'
    BY <1>0, <2>1, RowsAtRest, CoveredStays DEF PassInv
  <2>3. \A c \in Calls : Plan(c)' = Plan(c)
    BY DEF Plan, PhaseOrder
  <2>4. PassInv'
    BY <1>0, <2>1, <2>2, <2>3 DEF PassInv
  <2>. QED
    BY <1>0, <2>1, <2>4, RowsAtRest DEF RowsInv, Keeps
<1>. QED
  BY <1>1, <1>2, <1>3, <1>4, <1>5, <1>6 DEF Next, CallStep

-----------------------------------------------------------------------------
(* The chain.  The calls in progress form a queue: each waits on the one   *)
(* before it, the first on a call that has settled, and the tail is last.  *)
(* OneWriter is not inductive without it: that a caller chained to the     *)
(* tail finds it unsettled or the queue empty is a fact about all of them. *)

Distinct(q) == \A m, n \in 1..Len(q) : q[m] = q[n] => m = n
Members(q) == {q[n] : n \in 1..Len(q)}
Free(p) == p = NoCall \/ (p \in Calls /\ Settled(p))

Chain(q) ==
  /\ Distinct(q)
  /\ Members(q) = {c \in Calls : InProgress(c)}
  /\ \A n \in 2..Len(q) : pred[q[n]] = q[n - 1] /\ call[q[n]] = "waiting"
  /\ Len(q) > 0 => Free(pred[q[1]]) /\ tail = q[Len(q)]
  /\ Len(q) = 0 => Free(tail)

ChainInv == \E q \in Seq(Calls) : Chain(q)

LEMMA WritersComeFirst ==
  ASSUME TypeOK, NEW q \in Seq(Calls), Chain(q), NEW c \in Calls, Writing(c)
  PROVE  Len(q) > 0 /\ c = q[1]
<1>1. PICK n \in 1..Len(q) : c = q[n]
  BY DEF Chain, Members, Writing, InProgress
<1>2. n = 1
  BY <1>1 DEF Chain, Writing
<1>. QED
  BY <1>1, <1>2

LEMMA ChainIsExclusive ==
  ASSUME TypeOK, ChainInv
  PROVE  OneWriter
BY WritersComeFirst DEF ChainInv, OneWriter

LEMMA ChainPersist ==
  ASSUME TypeOK, NEW q \in Seq(Calls), Chain(q), NEW c \in Calls, Persist(c)
  PROVE  ChainInv'
<1>. DEFINE p == Append(q, c)
<1>1. /\ p \in Seq(Calls) /\ Len(p) = Len(q) + 1 /\ Len(q) \in Nat
      /\ \A n \in 1..Len(q) : p[n] = q[n] /\ q[n] \in Calls
      /\ p[Len(q) + 1] = c
  OBVIOUS
<1>. HIDE DEF p
<1>2. /\ call[c] = "new" /\ call'[c] = "waiting" /\ pred'[c] = tail /\ tail' = c
      /\ \A d \in Calls \ {c} : call'[d] = call[d] /\ pred'[d] = pred[d]
  BY DEF Persist, TypeOK
<1>3. \A n \in 1..Len(q) : q[n] # c
  BY <1>2 DEF Chain, Members, InProgress
<1>4. Distinct(p)
  BY <1>1, <1>3 DEF Chain, Distinct
<1>5. Members(p) = {d \in Calls : InProgress(d)'}
  <2>1. Members(p) = Members(q) \cup {c}
    BY <1>1 DEF Members
  <2>2. {d \in Calls : InProgress(d)'} = {d \in Calls : InProgress(d)} \cup {c}
    BY <1>2 DEF InProgress
  <2>. QED
    BY <2>1, <2>2 DEF Chain
<1>6. ASSUME NEW x, Free(x) PROVE Free(x)'
  BY <1>2, <1>6 DEF Free, Settled
<1>7. ASSUME NEW n \in 2..Len(p)
      PROVE  pred'[p[n]] = p[n - 1] /\ call'[p[n]] = "waiting"
  <2>1. CASE n = Len(p)
    <3>1. p[n] = c /\ n - 1 = Len(q) /\ Len(q) > 0
      BY <1>1, <1>7, <2>1
    <3>2. tail = p[n - 1]
      BY <1>1, <3>1 DEF Chain
    <3>. QED
      BY <1>2, <3>1, <3>2
  <2>2. CASE n # Len(p)
    <3>1. n \in 2..Len(q) /\ n \in 1..Len(q) /\ n - 1 \in 1..Len(q)
      BY <1>1, <1>7, <2>2
    <3>. QED
      BY <1>1, <1>2, <1>3, <3>1 DEF Chain
  <2>. QED
    BY <2>1, <2>2
<1>8. Free(pred[p[1]])' /\ tail' = p[Len(p)]
  <2>1. CASE Len(q) = 0
    <3>1. p[1] = c /\ Free(tail)
      BY <1>1, <2>1 DEF Chain
    <3>. QED
      BY <1>1, <1>2, <1>6, <3>1
  <2>2. CASE Len(q) > 0
    <3>1. p[1] = q[1] /\ q[1] \in Calls /\ q[1] # c /\ Free(pred[q[1]])
      BY <1>1, <1>3, <2>2 DEF Chain
    <3>. QED
      BY <1>1, <1>2, <1>6, <3>1
  <2>. QED
    BY <1>1, <2>1, <2>2
<1>. QED
  BY <1>1, <1>4, <1>5, <1>7, <1>8 DEF ChainInv, Chain

(* Only the first caller finds its predecessor settled.                    *)
LEMMA FreeComesFirst ==
  ASSUME TypeOK, NEW q \in Seq(Calls), Chain(q), NEW c \in Calls,
         InProgress(c), Free(pred[c])
  PROVE  Len(q) > 0 /\ c = q[1]
<1>1. PICK n \in 1..Len(q) : c = q[n]
  BY DEF Chain, Members
<1>2. CASE n # 1
  <2>1. n \in 2..Len(q) /\ n - 1 \in 1..Len(q)
    BY <1>1, <1>2
  <2>2. pred[c] = q[n - 1] /\ q[n - 1] \in Calls /\ InProgress(q[n - 1])
    BY <1>1, <2>1 DEF Chain, Members
  <2>. QED
    BY <2>2, ServiceAssumption DEF Free, Settled, InProgress
<1>. QED
  BY <1>1, <1>2

(* A step of the first caller that leaves it in progress.                  *)
LEMMA ChainHeadMoves ==
  ASSUME TypeOK, NEW q \in Seq(Calls), Chain(q), Len(q) > 0, NEW c \in Calls,
         c = q[1], pred' = pred, tail' = tail, InProgress(c)',
         \A d \in Calls \ {c} : call'[d] = call[d]
  PROVE  Chain(q)'
<1>1. InProgress(c)
  BY DEF Chain, Members
<1>2. ASSUME NEW x, Free(x) PROVE Free(x)'
  BY <1>1, <1>2 DEF Free, Settled, InProgress
<1>3. {d \in Calls : InProgress(d)'} = {d \in Calls : InProgress(d)}
  BY <1>1 DEF InProgress
<1>4. ASSUME NEW n \in 2..Len(q) PROVE call'[q[n]] = "waiting"
  <2>1. q[n] # c /\ q[n] \in Calls
    BY DEF Chain, Distinct
  <2>. QED
    BY <2>1 DEF Chain
<1>5. q[1] \in Calls /\ Len(q) \in Nat
  OBVIOUS
<1>6. Free(pred[q[1]])'
  BY <1>2 DEF Chain
<1>. QED
  BY <1>3, <1>4, <1>5, <1>6 DEF Chain

(* The first caller settles and the next one comes first.                  *)
LEMMA ChainHeadSettles ==
  ASSUME TypeOK, NEW q \in Seq(Calls), Chain(q), Len(q) > 0, NEW c \in Calls,
         c = q[1], pred' = pred, tail' = tail, Settled(c)',
         \A d \in Calls \ {c} : call'[d] = call[d]
  PROVE  ChainInv'
<1>. DEFINE p == Tail(q)
<1>1. /\ p \in Seq(Calls) /\ Len(p) = Len(q) - 1 /\ Len(q) \in Nat
      /\ \A n \in 1..Len(p) : p[n] = q[n + 1] /\ n + 1 \in 1..Len(q)
      /\ \A n \in 1..Len(q) : q[n] \in Calls
  OBVIOUS
<1>. HIDE DEF p
<1>2. \A n \in 2..Len(q) : q[n] # c
  BY <1>1 DEF Chain, Distinct
<1>3. InProgress(c) /\ ~InProgress(c)'
  BY <1>1 DEF Chain, Members, Settled, InProgress
<1>4. Distinct(p)
  <2>1. ASSUME NEW m \in 1..Len(p), NEW n \in 1..Len(p), p[m] = p[n]
        PROVE  m = n
    <3>1. /\ m + 1 \in 1..Len(q) /\ n + 1 \in 1..Len(q)
          /\ q[m + 1] = q[n + 1]
      BY <1>1, <2>1
    <3>2. m + 1 = n + 1
      BY <3>1 DEF Chain, Distinct
    <3>. QED
      BY <3>2
  <2>. QED
    BY <2>1 DEF Distinct
<1>5. Members(p) = {d \in Calls : InProgress(d)'}
  <2>1. Members(p) = Members(q) \ {c}
    <3>1. ASSUME NEW d \in Members(q), d # c PROVE d \in Members(p)
      <4>1. PICK n \in 1..Len(q) : d = q[n]
        BY <3>1 DEF Members
      <4>2. n - 1 \in 1..Len(p) /\ p[n - 1] = q[n]
        BY <1>1, <3>1, <4>1
      <4>. QED
        BY <4>1, <4>2 DEF Members
    <3>2. ASSUME NEW n \in 1..Len(p) PROVE p[n] \in Members(q) /\ p[n] # c
      <4>1. n + 1 \in 2..Len(q) /\ p[n] = q[n + 1]
        BY <1>1
      <4>. QED
        BY <1>1, <1>2, <4>1 DEF Members
    <3>3. Members(p) \subseteq Members(q) \ {c}
      BY <3>2 DEF Members
    <3>. QED
      BY <3>1, <3>3
  <2>2. {d \in Calls : InProgress(d)'} = {d \in Calls : InProgress(d)} \ {c}
    BY <1>3 DEF InProgress
  <2>. QED
    BY <2>1, <2>2 DEF Chain
<1>6. ASSUME NEW n \in 2..Len(p)
      PROVE  pred'[p[n]] = p[n - 1] /\ call'[p[n]] = "waiting"
  <2>1. /\ n \in 1..Len(p) /\ n - 1 \in 1..Len(p) /\ n + 1 \in 2..Len(q)
        /\ (n - 1) + 1 = n /\ (n + 1) - 1 = n
    BY <1>1
  <2>2. p[n] = q[n + 1] /\ p[n - 1] = q[n] /\ q[n + 1] \in Calls /\ q[n + 1] # c
    BY <1>1, <1>2, <2>1
  <2>. QED
    BY <2>1, <2>2 DEF Chain
<1>7. Free(c)'
  BY DEF Free, Settled
<1>8. ASSUME Len(p) > 0 PROVE Free(pred[p[1]])' /\ tail' = p[Len(p)]
  <2>1. 2 \in 2..Len(q) /\ 1 \in 1..Len(p) /\ Len(p) \in 1..Len(p)
    BY <1>1, <1>8
  <2>2. p[1] = q[2] /\ pred[q[2]] = c /\ p[Len(p)] = q[Len(q)]
    BY <1>1, <2>1 DEF Chain
  <2>3. Free(pred[p[1]])'
    BY <1>7, <2>2
  <2>. QED
    BY <2>2, <2>3 DEF Chain
<1>9. ASSUME Len(p) = 0 PROVE Free(tail)'
  <2>1. Len(q) = 1
    BY <1>1, <1>9
  <2>2. tail = c
    BY <2>1 DEF Chain
  <2>. QED
    BY <1>7, <2>2
<1>. QED
  BY <1>1, <1>4, <1>5, <1>6, <1>8, <1>9 DEF ChainInv, Chain

LEMMA EmptyChain ==
  Free(tail) /\ (\A c \in Calls : ~InProgress(c)) => ChainInv
<1>. SUFFICES ASSUME \A c \in Calls : ~InProgress(c), Free(tail) PROVE ChainInv
  OBVIOUS
<1>. DEFINE p == << >>
<1>1. p \in Seq(Calls) /\ Len(p) = 0
  OBVIOUS
<1>. HIDE DEF p
<1>2. 1..Len(p) = {} /\ 2..Len(p) = {}
  BY <1>1
<1>3. Distinct(p) /\ Members(p) = {c \in Calls : InProgress(c)}
  BY <1>2 DEF Distinct, Members
<1>4. Chain(p)
  BY <1>1, <1>2, <1>3 DEF Chain
<1>. QED
  BY <1>1, <1>4 DEF ChainInv

LEMMA ChainStops ==
  ASSUME TypeOK, Stop
  PROVE  ChainInv'
<1>1. Free(tail)' /\ \A c \in Calls : ~InProgress(c)'
  BY DEF Stop, TypeOK, InProgress, Free
<1>2. (Free(tail) /\ (\A c \in Calls : ~InProgress(c)) => ChainInv)'
  BY EmptyChain, PTL
<1>. QED
  BY <1>1, <1>2

LEMMA ChainStep ==
  ASSUME TypeOK, ChainInv, [Next]_vars
  PROVE  ChainInv'
<1>0. PICK q \in Seq(Calls) : Chain(q)
  BY DEF ChainInv
<1>1. ASSUME NEW c \in Calls, Persist(c) PROVE ChainInv'
  BY <1>0, <1>1, ChainPersist
<1>2. ASSUME NEW c \in Calls, Enter(c) PROVE ChainInv'
  <2>1. InProgress(c) /\ Free(pred[c]) /\ call' = [call EXCEPT ![c] = "writing"]
        /\ pred' = pred /\ tail' = tail
    BY <1>2 DEF Enter, MyTurn, Free, InProgress
  <2>2. InProgress(c)' /\ \A d \in Calls \ {c} : call'[d] = call[d]
    BY <2>1 DEF InProgress, TypeOK
  <2>. QED
    BY <1>0, <2>1, <2>2, FreeComesFirst, ChainHeadMoves DEF ChainInv
<1>3. ASSUME NEW c \in Calls, Replay(c) PROVE ChainInv'
  <2>1. Writing(c) /\ call' = [call EXCEPT ![c] = "writing"]
        /\ pred' = pred /\ tail' = tail
    BY <1>3 DEF Replay, Writing
  <2>2. InProgress(c)' /\ \A d \in Calls \ {c} : call'[d] = call[d]
    BY <2>1 DEF InProgress, TypeOK
  <2>. QED
    BY <1>0, <2>1, <2>2, WritersComeFirst, ChainHeadMoves DEF ChainInv
<1>4. ASSUME NEW c \in Calls, EndPass(c) PROVE ChainInv'
  <2>1. Writing(c) /\ call' = [call EXCEPT ![c] = AfterPass(c)]
        /\ pred' = pred /\ tail' = tail
    BY <1>4 DEF EndPass, Writing
  <2>2. \A d \in Calls \ {c} : call'[d] = call[d]
    BY <2>1 DEF TypeOK
  <2>3. InProgress(c)' \/ Settled(c)'
    BY <2>1 DEF InProgress, Settled, AfterPass, TypeOK
  <2>. QED
    BY <1>0, <2>1, <2>2, <2>3, WritersComeFirst, ChainHeadMoves, ChainHeadSettles
       DEF ChainInv
<1>5. ASSUME UNCHANGED serviceVars PROVE ChainInv'
  <2>1. call' = call /\ pred' = pred /\ tail' = tail
    BY <1>5 DEF serviceVars
  <2>. QED
    BY <1>0, <2>1 DEF ChainInv, Chain, Free, Settled, InProgress
<1>6. ASSUME NEW c \in Calls, Write(c) PROVE ChainInv'
  BY <1>5, <1>6 DEF Write
<1>7. CASE UNCHANGED vars
  BY <1>5, <1>7 DEF vars
<1>. QED
  BY <1>1, <1>2, <1>3, <1>4, <1>6, <1>7, ChainStops DEF Next, CallStep

-----------------------------------------------------------------------------
(* The theorems.                                                           *)

IInv == RowsInv /\ ChainInv

LEMMA IInvHolds == Spec => []IInv
<1>1. Init => IInv
  <2>. SUFFICES ASSUME Init PROVE IInv
    OBVIOUS
  <2>. USE DEF Init, WriterInit
  <2>1. TypeOK
    BY WriterAssumption, ServiceAssumption DEF TypeOK
  <2>2. ReplayInv
    BY DEF ReplayInv
  <2>3. PassInv
    <3>1. ASSUME NEW c \in Calls PROVE Covered(c)
      BY PlanShape DEF Covered
    <3>. QED
      BY <3>1 DEF PassInv
  <2>4. NoOrphanRows
    BY DEF NoOrphanRows
  <2>5. ChainInv
    <3>1. Free(tail) /\ \A c \in Calls : ~InProgress(c)
      BY DEF InProgress, Free
    <3>. QED
      BY <3>1, EmptyChain
  <2>. QED
    BY <2>1, <2>2, <2>3, <2>4, <2>5 DEF IInv, RowsInv, TypesInv
<1>2. IInv /\ [Next]_vars => IInv'
  BY RowsStep, ChainStep DEF IInv, RowsInv, TypesInv, Keeps
<1>. QED
  BY <1>1, <1>2, PTL DEF Spec

(* Types of the store, the passes and the chain.                           *)
THEOREM ServiceTypes == Spec => []TypeOK
<1>1. IInv => TypeOK
  BY DEF IInv, RowsInv, TypesInv
<1>. QED
  BY <1>1, IInvHolds, PTL

(* One writer at a time, whatever callers, replays and stops there are.    *)
THEOREM WritersExclude == Spec => []OneWriter
<1>1. IInv => OneWriter
  BY ChainIsExclusive DEF IInv, RowsInv, TypesInv
<1>. QED
  BY <1>1, IInvHolds, PTL

(* A resolved persist() is durable: a row of its batch is never missing    *)
(* and never older than the batch.                                         *)
THEOREM ResolvedStaysDurable == Spec => []ResolvedIsDurable
<1>1. IInv => ResolvedIsDurable
  <2>. SUFFICES ASSUME IInv, NEW c \in Calls, call[c] = "resolved",
                       NEW r \in Batch(c)
                PROVE  store[r] >= Stamp[c]
    BY DEF ResolvedIsDurable
  <2>1. Plan(c) \in Seq(SUBSET Rows) /\ next[c] \in Nat /\ Len(Plan(c)) \in Nat
    BY PlanShape DEF IInv, RowsInv, TypesInv, TypeOK
  <2>2. Len(Plan(c)) < next[c] /\ Covered(c)
    BY DEF IInv, RowsInv, PassInv
  <2>3. PICK k \in 1..Len(Plan(c)) : r \in Plan(c)[k]
    BY <2>1 DEF Batch
  <2>. QED
    BY <2>1, <2>2, <2>3 DEF Covered
<1>. QED
  BY <1>1, IInvHolds, PTL

(* No failure, replay or stop leaves a relationship without its endpoints  *)
(* or an index row without its canonical edge.                             *)
THEOREM NoOrphans == Spec => []NoOrphanRows
<1>1. IInv => NoOrphanRows
  BY DEF IInv, RowsInv
<1>. QED
  BY <1>1, IInvHolds, PTL

(* No step puts older content over newer.                                  *)
THEOREM NeverRegresses == Spec => ContentNeverRegresses
<1>1. IInv /\ [Next]_vars => [\A r \in Rows : store'[r] >= store[r]]_vars
  BY RowsStep DEF IInv, Keeps
<1>. QED
  BY <1>1, IInvHolds, PTL DEF Spec, ContentNeverRegresses

=============================================================================
