--------------------------- MODULE TyposquatReview ---------------------------
(***************************************************************************)
(* One typosquatting finding: lockfile scans that detect it and analysts   *)
(* who dismiss or promote it (typosquatting/service.ts,                    *)
(* typosquatting/graph-fragment.ts, api/routes/typosquatting.ts).          *)
(*                                                                         *)
(* A review is four separate writes: the review's evidence, a              *)
(* compare-and-set of the finding, and the nodes and edges of its graph.   *)
(* The process may stop and each statement fail between any two of them;   *)
(* reviews of a process wait for each other, scans wait for nobody.        *)
(***************************************************************************)
EXTENDS Naturals, Sequences, FiniteSets

CONSTANTS
  Calls,      \* requests that may reach POST .../dismiss and .../promote
  Keys,       \* idempotency keys
  Key,        \* Key[c]: the key of call c
  Action,     \* Action[c]: "dismiss" or "promote"
  Request,    \* Request[c]: its fingerprint, over reason and reviewer too
  NoRequest,
  ScanTimes,  \* observedAt of the scans of the lockfile, as clients give it
  Times,      \* when reviews may arrive, on the clock of the API
  MaxLane     \* bound on the reviews waiting or in progress

ASSUME ReviewAssumption ==
  /\ Key \in [Calls -> Keys]
  /\ Action \in [Calls -> {"dismiss", "promote"}]
  /\ \A c, d \in Calls : Request[c] = Request[d] => Action[c] = Action[d]
  /\ NoRequest \notin {Request[c] : c \in Calls}
  /\ "AFFECTS" \notin Keys
  /\ ScanTimes \subseteq Nat \ {0} /\ Times \subseteq Nat \ {0}
  /\ MaxLane \in Nat \ {0}

VARIABLES
  finding,   \* the Finding row
  review,    \* review[k]: the analyst-review Evidence row of key k
  incident,  \* the Incident row
  links,     \* the edges: SUPPORTS from reviews to the finding, and AFFECTS
  pc,        \* pc[c]: the await call c is suspended at
  decidedAt, \* decidedAt[c]: when it arrived
  held,      \* held[c]: what its continuation holds
  lane       \* operationTail: the calls waiting or in progress

rows == <<finding, review, incident, links>>
process == <<pc, decidedAt, held, lane>>
vars == <<rows, process>>

Affects == "AFFECTS"

NotFound == [status |-> "open", observed |-> 0, detected |-> 0, decided |-> 0,
             reason |-> NoRequest, by |-> {}]
Detected(t) == [NotFound EXCEPT !.observed = t, !.detected = t]
NoReview == [request |-> NoRequest, action |-> "none", at |-> 0]
NoIncident == [observed |-> 0, by |-> {}]

Decided(row) == row.status # "open"

(* __hydradb_update_if_newer_by                                            *)
Newer(at, row) == at > row.observed
Later(s, t) == IF s > t THEN s ELSE t

(* reviewStatus                                                            *)
ReviewStatus(c) == IF Action[c] = "dismiss" THEN "dismissed" ELSE "confirmed"

Working == {"identifying", "recording", "deciding", "rereading", "confirming",
            "linking", "connecting"}
Waiting == {"queued"} \cup Working

Goto(c, where) == pc' = [pc EXCEPT ![c] = where]
Holds(c, changed) == held' = [held EXCEPT ![c] = changed]

(* `source` is the review the graph is drawn from, its own by default.     *)
Nothing(c) == [row |-> NotFound, at |-> 0, source |-> Key[c]]

(* Faults, used only to see that a property notices them: a rejected call  *)
(* that blocks the lane, decisions with another date, a compare-and-set of *)
(* the status alone, and a confirmed finding taken for a complete graph.   *)
SettlesBlocking(c, how) ==
  /\ Goto(c, how)
  /\ lane' = IF how = "answered" THEN Tail(lane) ELSE lane
  /\ Holds(c, Nothing(c))
ReviewedOnArrival(c) ==
  [held[c].row EXCEPT !.status = ReviewStatus(c),
                      !.observed = Later(@, held[c].at), !.decided = decidedAt[c],
                      !.reason = Request[c], !.by = @ \cup {Key[c]}]
StatusUnchanged(c) == finding.status = held[c].row.status

(* The call settles, and the next one in the lane may begin.               *)
Settles(c, how) ==
  /\ Goto(c, how)
  /\ lane' = Tail(lane)
  /\ Holds(c, Nothing(c))

At(c, where) == lane # <<>> /\ c = Head(lane) /\ pc[c] = where

-----------------------------------------------------------------------------
(* scanLockfile: a verified batch with the finding as detected.            *)
Scan(t) ==
  /\ Newer(t, finding)
  /\ finding' = Detected(t)
  /\ UNCHANGED <<review, incident, links, process>>

(* Reviews arrive in the order of their times and wait in that order.      *)
Arrive(c) ==
  /\ pc[c] = "new" /\ Len(lane) < MaxLane
  /\ Goto(c, "queued")
  /\ \E t \in Times :
       /\ \A d \in Calls : t >= decidedAt[d]
       /\ decidedAt' = [decidedAt EXCEPT ![c] = t]
  /\ lane' = Append(lane, c)
  /\ UNCHANGED <<rows, held>>

(* requireFinding; a review cannot precede the detection.                  *)
Read(c) ==
  /\ At(c, "queued")
  /\ IF finding = NotFound \/ decidedAt[c] < finding.detected
     THEN Settles(c, "rejected")
     ELSE /\ Goto(c, "identifying")
          /\ Holds(c, [held[c] EXCEPT !.row = finding])
          /\ UNCHANGED lane
  /\ UNCHANGED <<rows, decidedAt>>

(* The stored review of this key, if any, is of this request.              *)
SameReview(c) ==
  review[Key[c]].request = Request[c] /\ review[Key[c]].action = Action[c]

(* Where a review goes once it knows the finding and its own evidence.     *)
Continuation(c, row, replayed) ==
  IF Decided(row) /\ (row.status = "dismissed" \/ Action[c] = "dismiss")
  THEN IF replayed /\ row.status = ReviewStatus(c) /\ Key[c] \in row.by
       THEN "linking" ELSE "refused"
  ELSE IF ~replayed THEN "recording"
  ELSE IF Decided(row) THEN "confirming" ELSE "deciding"

Identify(c) ==
  /\ At(c, "identifying")
  /\ LET replayed == review[Key[c]] # NoReview
         next == Continuation(c, held[c].row, replayed)
     IN  IF (replayed /\ ~SameReview(c)) \/ next = "refused"
         THEN Settles(c, "rejected")
         ELSE /\ Goto(c, next)
              /\ Holds(c, [held[c] EXCEPT
                   !.at = IF replayed THEN review[Key[c]].at ELSE decidedAt[c]])
              /\ UNCHANGED lane
  /\ UNCHANGED <<rows, decidedAt>>

(* persistReviewEvidence                                                   *)
Recorded(c) ==
  review' = [review EXCEPT ![Key[c]] =
    [request |-> Request[c], action |-> Action[c], at |-> held[c].at]]

Record(c) ==
  /\ At(c, "recording")
  /\ Recorded(c)
  /\ Goto(c, IF Decided(held[c].row) THEN "confirming" ELSE "deciding")
  /\ UNCHANGED <<finding, incident, links, decidedAt, held, lane>>

(* compareAndSetFinding: equal status and payload hash, that is, the row   *)
(* that was read.                                                          *)
Unchanged(c) == finding = held[c].row

Reviewed(c) ==
  [held[c].row EXCEPT !.status = ReviewStatus(c),
                      !.observed = Later(@, held[c].at), !.decided = held[c].at,
                      !.reason = Request[c], !.by = @ \cup {Key[c]}]

Decide(c) ==
  /\ At(c, "deciding")
  /\ Unchanged(c)
  /\ Newer(Reviewed(c).observed, finding)
  /\ finding' = Reviewed(c)
  /\ Goto(c, "linking")
  /\ Holds(c, [held[c] EXCEPT !.row = Reviewed(c), !.at = decidedAt[c]])
  /\ UNCHANGED <<review, incident, links, decidedAt, lane>>

(* No row matched; or the newer-than guard kept the old row, and "HydraDB  *)
(* did not materialize the reviewed Finding payload".                      *)
DecisionLost(c) ==
  /\ At(c, "deciding")
  /\ IF Unchanged(c) THEN /\ ~Newer(Reviewed(c).observed, finding)
                          /\ Settles(c, "rejected")
                     ELSE Goto(c, "rereading") /\ UNCHANGED <<held, lane>>
  /\ UNCHANGED <<rows, decidedAt>>

Reread(c) ==
  /\ At(c, "rereading")
  /\ IF finding.status = ReviewStatus(c) /\ Key[c] \in finding.by
     THEN /\ Goto(c, "linking")
          /\ Holds(c, [held[c] EXCEPT !.row = finding, !.at = decidedAt[c]])
          /\ UNCHANGED lane
     ELSE Settles(c, "rejected")
  /\ UNCHANGED <<rows, decidedAt>>

(* getConfirmationReview: the promotion that confirmed the finding, which  *)
(* a repair takes its provenance and time from.                            *)
Confirmations(row) == {k \in row.by : review[k].action = "promote"}

Confirms(k, row) == review[k].at = row.decided /\ review[k].request = row.reason

ConfirmWithoutRepair(c) ==
  /\ At(c, "confirming")
  /\ Settles(c, "answered")
  /\ UNCHANGED <<rows, decidedAt>>

Confirm(c) ==
  /\ At(c, "confirming")
  /\ LET row == held[c].row
     IN  IF Cardinality(Confirmations(row)) = 1
            /\ \A k \in Confirmations(row) : Confirms(k, row)
         THEN /\ \E k \in Confirmations(row) :
                   Holds(c, [held[c] EXCEPT !.source = k, !.at = review[k].at])
              /\ Goto(c, "linking") /\ UNCHANGED lane
         ELSE Settles(c, "rejected")
  /\ UNCHANGED <<rows, decidedAt>>

(* persistLifecycleGraph: nodes before edges, each row only if it is newer *)
(* than the stored one.  The packages and the exact versions it reads may  *)
(* no longer qualify: that is one way for the call to fail.                *)
Link(c) ==
  /\ At(c, "linking")
  /\ finding' = IF Newer(held[c].row.observed, finding) THEN held[c].row ELSE finding
  /\ incident' = IF Action[c] = "promote" /\ Newer(held[c].at, incident)
                 THEN [observed |-> held[c].at, by |-> {held[c].source}]
                 ELSE incident
  /\ Goto(c, "connecting")
  /\ UNCHANGED <<review, links, decidedAt, held, lane>>

Drawn(c) ==
  {held[c].source} \cup (IF Action[c] = "promote" THEN {Affects} ELSE {})

Connect(c) ==
  /\ At(c, "connecting")
  /\ links' = links \cup Drawn(c)
  /\ Settles(c, "answered")
  /\ UNCHANGED <<finding, review, incident, decidedAt>>

(* Any of the awaits rejects, a write before it reached HydraDB or after   *)
(* it committed; assertPromotable is among them.                           *)
Fails(c) ==
  /\ lane # <<>> /\ c = Head(lane) /\ pc[c] \in Waiting
  /\ Settles(c, "rejected")
  /\ \/ UNCHANGED rows
     \/ pc[c] = "recording" /\ Recorded(c) /\ UNCHANGED <<finding, incident, links>>
     \/ /\ pc[c] = "deciding" /\ Unchanged(c)
        /\ Newer(Reviewed(c).observed, finding)
        /\ finding' = Reviewed(c) /\ UNCHANGED <<review, incident, links>>
     \/ /\ pc[c] = "connecting"
        /\ \E part \in SUBSET Drawn(c) : links' = links \cup part
        /\ UNCHANGED <<finding, review, incident>>
  /\ UNCHANGED decidedAt

(* The process stops; the rows stay, and a compare-and-set that was sent   *)
(* may still reach HydraDB.                                                *)
Stop ==
  /\ lane # <<>>
  /\ lane' = <<>>
  /\ pc' = [c \in Calls |-> IF pc[c] \notin Waiting THEN pc[c]
                            ELSE IF pc[c] = "deciding" THEN "sent" ELSE "rejected"]
  /\ held' = [c \in Calls |->
       IF pc[c] \in {"deciding", "sent"} THEN held[c] ELSE Nothing(c)]
  /\ UNCHANGED <<rows, decidedAt>>

Lands(c) ==
  /\ pc[c] = "sent"
  /\ Unchanged(c) /\ Newer(Reviewed(c).observed, finding)
  /\ finding' = Reviewed(c)
  /\ Goto(c, "rejected")
  /\ Holds(c, Nothing(c))
  /\ UNCHANGED <<review, incident, links, decidedAt, lane>>

Init ==
  /\ finding = NotFound
  /\ review = [k \in Keys |-> NoReview]
  /\ incident = NoIncident
  /\ links = {}
  /\ pc = [c \in Calls |-> "new"]
  /\ decidedAt = [c \in Calls |-> 0]
  /\ held = [c \in Calls |-> Nothing(c)]
  /\ lane = <<>>

Settle(c) ==
  \/ Read(c) \/ Identify(c) \/ Record(c) \/ Decide(c) \/ DecisionLost(c)
  \/ Reread(c) \/ Confirm(c) \/ Link(c) \/ Connect(c) \/ Fails(c)

Next ==
  \/ \E t \in ScanTimes : Scan(t)
  \/ \E c \in Calls : Arrive(c) \/ Settle(c) \/ Lands(c)
  \/ Stop

(* Awaits settle: every statement has a timeout.                           *)
Spec == Init /\ [][Next]_vars /\ \A c \in Calls : WF_vars(Settle(c))

-----------------------------------------------------------------------------
Row == [status : {"open", "confirmed", "dismissed"}, observed : Nat,
        detected : Nat, decided : Nat,
        reason : {Request[c] : c \in Calls} \cup {NoRequest}, by : SUBSET Keys]

(* Types; a finding carries a decision's fields exactly when it is decided,*)
(* as serializer and validator demand.                                     *)
ReviewTypeOK ==
  /\ finding \in Row
  /\ Decided(finding) = (finding.decided # 0)
  /\ Decided(finding) = (finding.reason # NoRequest)
  /\ \A k \in Keys : (review[k] = NoReview) = (review[k].at = 0)
  /\ incident.observed \in Nat /\ incident.by \subseteq Keys
  /\ links \subseteq Keys \cup {Affects}
  /\ pc \in [Calls -> Waiting \cup
               {"new", "answered", "rejected", "sent"}]
  /\ \A c \in Calls : held[c].row \in Row /\ held[c].source \in Keys
  /\ lane \in Seq(Calls)

(* A decision is always backed by exactly one stored review, of the same   *)
(* action, reason and time -- whatever failed on the way -- so that a      *)
(* confirmed finding can always be repaired from its evidence.             *)
DecisionIsBacked ==
  Decided(finding) =>
    \E k \in Keys :
      /\ finding.by = {k}
      /\ Confirms(k, finding)
      /\ (review[k].action = "promote") = (finding.status = "confirmed")

(* Nobody decides on what he has not seen: a decision leaves the detection *)
(* it is about as it was, also when a scan came in while it was under way. *)
DecidesWhatWasRead ==
  [][~Decided(finding) /\ Decided(finding') =>
       finding'.detected = finding.detected]_vars

(* An idempotency key stands for one review: no two different requests     *)
(* under one key are both carried out.                                     *)
OneReviewPerKey ==
  \A c, d \in Calls :
    pc[c] = "answered" /\ pc[d] = "answered" /\ Key[c] = Key[d]
      => Request[c] = Request[d]

(* What an analyst was told is in the graph: a review's edge to the        *)
(* finding, and for a promotion the incident, which comes from a stored    *)
(* promotion, with the versions it affects.                                *)
AnswerIsInGraph ==
  \A c \in Calls : pc[c] = "answered" =>
    IF Action[c] = "dismiss" THEN Key[c] \in links
    ELSE /\ Affects \in links /\ incident # NoIncident
         /\ \A k \in incident.by : review[k].action = "promote"
         /\ \E k \in links \ {Affects} : review[k].action = "promote"

(* Every review is answered, or its process stopped: one that rejects does *)
(* not block those behind it.                                              *)
EveryReviewSettles ==
  \A c \in Calls : pc[c] \in Waiting ~> pc[c] \notin Waiting

(* The stored reviews account for the decision and for every answer: each  *)
(* key stands for one review, and the decision for one of them.            *)
ReviewsAreBacked == DecisionIsBacked /\ OneReviewPerKey

=============================================================================
