------------------------- MODULE ReleaseInfluenceStore -------------------------
(***************************************************************************)
(* HydraReleaseInfluenceStore (analysis/release-trust/                     *)
(* hydra-release-influence-store.ts): one snapshot of release influence,   *)
(* written by whoever claims its id first, in five statements without a    *)
(* transaction, and read by the route                                      *)
(* /release-influence/snapshots/:snapshotId/firewall in three, which       *)
(* evaluates what it read (persisted-release-firewall.ts,                  *)
(* api/routes/analysis.ts).                                                *)
(*                                                                         *)
(* A statement is atomic.  A writer that gets no answer to one cannot know *)
(* whether it was executed: it may have been, may still be, or may never   *)
(* be.  A writer may also stop.  Statements name their snapshot, so that   *)
(* one id stands for all.                                                  *)
(***************************************************************************)
EXTENDS ReleaseFirewall

CONSTANTS
  Writers,             \* persistSnapshot calls; a writer is its write token
  Nobody,
  Cases,               \* [input, options, nullRow]: what each writer brings,
                       \* what the reader evaluates with, and whether a MATCH
                       \* that binds nothing is answered with a row of nulls
  MaxNodes, MaxEdges   \* of a store

(* readPositiveSafeInteger.                                                *)
ASSUME StoreAssumption ==
  /\ Nobody \notin Writers
  /\ \A c \in Cases : \A limit \in {"depth", "states", "incoming", "paths", "findings"} :
       c.options[limit] \in Nat \ {0}
  /\ \A c \in Cases : \A w \in DOMAIN c.input :
       /\ w \in Writers /\ IsFiniteSet(c.input[w].nodes) /\ IsFiniteSet(c.input[w].edges)
       /\ c.input[w].releases \in Seq(Nat)

VARIABLES
  case,      \* one of Cases
  snapshot,  \* [state, token, nodes, edges, releases]: state "absent" or stored
  entities,  \* rows <<token, node>>; the token only keeps copies apart
  edges,     \* rows <<token, edge>>
  writer,    \* writer[w]: [at, outcome], `at` the statement that is next
  late,      \* statements whose answer was lost and that were not executed yet
  reader     \* [at, state, counts, nodes, edges, reply]

storeVars == <<case, snapshot, entities, edges, writer, late, reader>>

Input(w) == case.input[w]
Rows(w, things) == {<<w, x>> : x \in things}
Contents(rows) == {row[2] : row \in rows}

Statements == {"claim", "nodes", "edges", "finalize", "fail"}

-----------------------------------------------------------------------------
(* What a statement does.  Only the holder of the token writes nodes, and  *)
(* only while the snapshot is being written; edges join entities that are  *)
(* stored and ask for no token.                                            *)
Owns(w) == snapshot.state = "writing" /\ snapshot.token = w

(* A fault, used only to see that a property notices it: a claim takes a   *)
(* snapshot over.                                                          *)
ClaimAnew(w) ==
  snapshot' = [state |-> "writing", token |-> w, nodes |-> Cardinality(Input(w).nodes),
               edges |-> Cardinality(Input(w).edges), releases |-> Input(w).releases]

(* MERGE ... ON CREATE SET.                                                *)
Claim(w) ==
  snapshot' = IF snapshot.state # "absent" THEN snapshot
              ELSE [state |-> "writing", token |-> w, nodes |-> Cardinality(Input(w).nodes),
                    edges |-> Cardinality(Input(w).edges), releases |-> Input(w).releases]

Joined(w) == {e \in Input(w).edges : {e.source, e.target} \subseteq Ids(Contents(entities))}

WriteNodes(w) == entities' = IF Owns(w) THEN entities \cup Rows(w, Input(w).nodes) ELSE entities
WriteEdges(w) == edges' = edges \cup Rows(w, Joined(w))
Become(w, state) == snapshot' = IF Owns(w) THEN [snapshot EXCEPT !.state = state] ELSE snapshot

Execute(w, statement) ==
  \/ statement = "claim" /\ Claim(w) /\ UNCHANGED <<entities, edges>>
  \/ statement = "nodes" /\ WriteNodes(w) /\ UNCHANGED <<snapshot, edges>>
  \/ statement = "edges" /\ WriteEdges(w) /\ UNCHANGED <<snapshot, entities>>
  \/ statement = "finalize" /\ Become(w, "ready") /\ UNCHANGED <<entities, edges>>
  \/ statement = "fail" /\ Become(w, "failed") /\ UNCHANGED <<entities, edges>>

-----------------------------------------------------------------------------
Goes(w, next) == writer' = [writer EXCEPT ![w].at = next]
Ends(w, outcome) == writer' = [writer EXCEPT ![w] = [at |-> "ended", outcome |-> outcome]]

(* The catch of persistSnapshot: a writer that has claimed says that it    *)
(* failed, and nothing more comes of that.                                 *)
WriteFails(w, outcome) ==
  CASE writer[w].at = "claim" -> Ends(w, outcome)
    [] writer[w].at = "fail" -> Ends(w, writer[w].outcome)
    [] OTHER -> writer' = [writer EXCEPT ![w] = [at |-> "fail", outcome |-> outcome]]

(* Input is validated, and its size, before anything is stored.            *)
Validate(w) ==
  /\ writer[w].at = "begin"
  /\ IF /\ Valid(Input(w)) /\ Cardinality(Input(w).nodes) <= MaxNodes
        /\ Cardinality(Input(w).edges) <= MaxEdges
     THEN Goes(w, "claim") ELSE Ends(w, "refused")
  /\ UNCHANGED <<case, snapshot, entities, edges, late, reader>>

(* The claim is this writer's when its own token comes back.               *)
Claimed(w) == snapshot'.token = w /\ snapshot'.state = "writing"

AfterNodes(w) == IF Input(w).edges = {} THEN "finalize" ELSE "edges"

(* An answered statement: what it says decides what is next.               *)
Acknowledged(w) ==
  /\ writer[w].at \in Statements
  /\ Execute(w, writer[w].at)
  /\ \/ writer[w].at = "claim" /\ IF Claimed(w) THEN Goes(w, "nodes") ELSE Ends(w, "SNAPSHOT_EXISTS")
     \/ writer[w].at = "nodes" /\ IF Owns(w) THEN Goes(w, AfterNodes(w))
                                  ELSE WriteFails(w, "DATABASE_RESULT_INVALID")
     \/ writer[w].at = "edges" /\ IF Joined(w) = Input(w).edges THEN Goes(w, "finalize")
                                  ELSE WriteFails(w, "DATABASE_RESULT_INVALID")
     \/ writer[w].at = "finalize" /\ IF Owns(w) THEN Ends(w, "ready")
                                     ELSE WriteFails(w, "DATABASE_RESULT_INVALID")
     \/ writer[w].at = "fail" /\ Ends(w, writer[w].outcome)
  /\ UNCHANGED <<case, late, reader>>

Unanswered(w) ==
  /\ writer[w].at \in Statements
  /\ late' = late \cup {<<w, writer[w].at>>}
  /\ WriteFails(w, "DATABASE_QUERY_FAILED")
  /\ UNCHANGED <<case, snapshot, entities, edges, reader>>

Lands ==
  /\ \E l \in late : Execute(l[1], l[2]) /\ late' = late \ {l}
  /\ UNCHANGED <<case, writer, reader>>

Stops(w) ==
  /\ writer[w].at \notin {"idle", "ended"}
  /\ Ends(w, "stopped")
  /\ UNCHANGED <<case, snapshot, entities, edges, late, reader>>

-----------------------------------------------------------------------------
(* mapKnownReleaseFirewallError.                                           *)
ReadCode(cause) ==
  CASE cause = "SNAPSHOT_NOT_FOUND" -> 404 [] cause = "SNAPSHOT_NOT_READY" -> 409 [] OTHER -> 503

Replies(reply) == reader' = [reader EXCEPT !.at = "answered", !.reply = reply]
ReadEnds(cause) == Replies([code |-> ReadCode(cause), cause |-> cause])

(* The metadata: only a snapshot that is ready is read on.  A row of nulls *)
(* has no state.                                                           *)
ReadSnapshot ==
  /\ reader.at = "snapshot"
  /\ LET ends(cause) ==
           reader' = [reader EXCEPT !.at = "answered", !.state = snapshot.state,
                        !.reply = [code |-> ReadCode(cause), cause |-> cause]]
     IN  IF snapshot.state = "absent"
         THEN ends(IF case.nullRow THEN "SNAPSHOT_CORRUPT" ELSE "SNAPSHOT_NOT_FOUND")
         ELSE IF snapshot.state # "ready" THEN ends("SNAPSHOT_NOT_READY")
         ELSE IF snapshot.nodes > MaxNodes \/ snapshot.edges > MaxEdges
         THEN ends("SNAPSHOT_LIMIT_EXCEEDED")
         ELSE reader' = [reader EXCEPT !.at = "rows", !.state = "ready",
                           !.counts = [nodes |-> snapshot.nodes, edges |-> snapshot.edges,
                                       releases |-> snapshot.releases]]
  /\ UNCHANGED <<case, snapshot, entities, edges, writer, late>>

(* Nodes and edges are read side by side, in either order.  Nodes are      *)
(* those of a snapshot that is ready.                                      *)
ReadNodes ==
  /\ reader.at = "rows" /\ "nodes" \in reader.left
  /\ reader' = [reader EXCEPT !.left = @ \ {"nodes"},
                  !.nodes = IF snapshot.state = "ready" THEN entities ELSE {}]
  /\ UNCHANGED <<case, snapshot, entities, edges, writer, late>>

ReadEdges ==
  /\ reader.at = "rows" /\ "edges" \in reader.left
  /\ reader' = [reader EXCEPT !.left = @ \ {"edges"}, !.edges = edges]
  /\ UNCHANGED <<case, snapshot, entities, edges, writer, late>>

ReadFails ==
  /\ reader.at \in {"snapshot", "rows"} /\ reader.left # {}
  /\ ReadEnds("DATABASE_QUERY_FAILED")
  /\ UNCHANGED <<case, snapshot, entities, edges, writer, late>>

Assembled == [nodes |-> Contents(reader.nodes), edges |-> Contents(reader.edges),
              releases |-> reader.counts.releases]

NullRow(rows) == case.nullRow /\ rows = {}

(* Counted and validated again, a row of nulls among them.  The decisions  *)
(* of the answer are a function of what was read.                          *)
Evaluate ==
  /\ reader.at = "rows" /\ reader.left = {}
  /\ IF \/ NullRow(reader.nodes) \/ NullRow(reader.edges)
        \/ Cardinality(reader.nodes) # reader.counts.nodes
        \/ Cardinality(reader.edges) # reader.counts.edges \/ ~Valid(Assembled)
     THEN ReadEnds("SNAPSHOT_CORRUPT")
     ELSE Replies([code |-> 200, cause |-> "none", input |-> Assembled])
  /\ UNCHANGED <<case, snapshot, entities, edges, writer, late>>

Decisions == Firewall(case.options, reader.reply.input)

-----------------------------------------------------------------------------
NoSnapshot == [state |-> "absent", token |-> Nobody, nodes |-> 0, edges |-> 0, releases |-> <<>>]
NewReader == [at |-> "snapshot", left |-> {"nodes", "edges"}, state |-> "none",
              counts |-> [nodes |-> 0, edges |-> 0, releases |-> <<>>],
              nodes |-> {}, edges |-> {}, reply |-> [code |-> 0, cause |-> "none"]]

StoreInit ==
  /\ case \in Cases
  /\ snapshot = NoSnapshot
  /\ entities = {} /\ edges = {} /\ late = {}
  /\ writer = [w \in Writers |-> [at |-> IF w \in DOMAIN case.input THEN "begin" ELSE "idle",
                                  outcome |-> "none"]]
  /\ reader = NewReader

WriterStep == \E w \in Writers : Validate(w) \/ Acknowledged(w)
WriterTrouble == \/ \E w \in Writers : Unanswered(w) \/ Stops(w)
                 \/ Lands
ReaderStep == ReadSnapshot \/ ReadNodes \/ ReadEdges \/ Evaluate

StoreNext == WriterStep \/ WriterTrouble \/ ReaderStep \/ ReadFails

(* A statement has a timeout: it is answered or fails.                     *)
StoreFairness == WF_storeVars(WriterStep) /\ WF_storeVars(ReaderStep)

StoreSpec == StoreInit /\ [][StoreNext]_storeVars /\ StoreFairness

-----------------------------------------------------------------------------
StoreTypeOK ==
  /\ case \in Cases
  /\ snapshot.state \in {"absent", "writing", "ready", "failed"}
  /\ snapshot.token \in Writers \cup {Nobody}
  /\ entities \subseteq UNION {Rows(w, Input(w).nodes) : w \in DOMAIN case.input}
  /\ edges \subseteq UNION {Rows(w, Input(w).edges) : w \in DOMAIN case.input}
  /\ late \subseteq Writers \X Statements
  /\ \A w \in Writers : writer[w].at \in Statements \cup {"idle", "begin", "ended"}
  /\ reader.at \in {"snapshot", "rows", "answered"}

(* Whatever was lost, late or stopped: a snapshot that is ready has every  *)
(* node and every edge of the one call that claimed it, once, and no other;*)
(* a call that was told "ready" is that call.                              *)
SnapshotIsWhole ==
  /\ snapshot.state = "ready" =>
       /\ entities = Rows(snapshot.token, Input(snapshot.token).nodes)
       /\ edges = Rows(snapshot.token, Input(snapshot.token).edges)
       /\ snapshot.releases = Input(snapshot.token).releases
  /\ \A w \in Writers : writer[w].outcome = "ready" =>
       snapshot.state = "ready" /\ snapshot.token = w

(* The three reads of an evaluation are of one call's input, never of a    *)
(* snapshot in the making.  No interleaving is taken for corruption: that  *)
(* is said of a row of nulls only, where no snapshot was found or where    *)
(* the one that is ready was brought without an edge.                      *)
ReadIsOnePersist ==
  /\ reader.reply.cause = "SNAPSHOT_CORRUPT" =>
       /\ case.nullRow
       /\ \/ reader.state = "absent"
          \/ /\ reader.state = "ready" /\ snapshot.state = "ready"
             /\ Input(snapshot.token).edges = {}
  /\ reader.reply.code = 200 =>
       LET input == Input(snapshot.token)
       IN  reader.reply.input = [nodes |-> input.nodes, edges |-> input.edges, releases |-> input.releases]

(* The verdict is the one the ways to the release call for.                *)
VerdictIsSound ==
  reader.reply.code = 200 =>
    \A r \in ToSet(reader.reply.input.releases) :
      \E all \in {Concerns(case.options, reader.reply.input, r)},
         decision \in {Decision(case.options, reader.reply.input, r)} : Sound(all, decision)

(* "Every inspected release influence was trusted and evidence-backed",    *)
(* the reason given with "allow".                                          *)
AllowedIsTrusted ==
  reader.reply.code = 200 =>
    \A r \in DOMAIN Decisions : Decisions[r].verdict = "allow" =>
      \A e \in reader.reply.input.edges :
        e.id \in Decisions[r].inspected => e.trust = "trusted" /\ e.evidence

(* What is stored as ready and what an evaluation reads is one call's      *)
(* input, whole.                                                           *)
ReadsAreWhole == SnapshotIsWhole /\ ReadIsOnePersist

=============================================================================
