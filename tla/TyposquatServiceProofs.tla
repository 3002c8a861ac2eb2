------------------------- MODULE TyposquatServiceProofs -------------------------
(***************************************************************************)
(* What the typosquatting service promises.  Of the reviews                *)
(* (TyposquatReview), for every set of calls, keys, times and scans: a     *)
(* decision is backed by one stored review, a key stands for one review,   *)
(* nobody decides on what he has not seen, and what an analyst was told is *)
(* in the graph.  Of a detection (TyposquatDetector), for every corpus,    *)
(* lockfile, list and budget: what AlarmsAreExact says.                    *)
(***************************************************************************)
EXTENDS TyposquatService, FiniteSetTheorems, SequenceTheorems, WellFoundedInduction, TLAPS

Requests == {Request[c] : c \in Calls}

-----------------------------------------------------------------------------
(* The inductive invariant.  The lane holds every call in progress once,   *)
(* and only the first one has begun: nobody else stores a review between   *)
(* a call's look at its key and its own review.                            *)
LaneInv ==
  /\ \A m, n \in DOMAIN lane : lane[m] = lane[n] => m = n
  /\ \A c \in Calls : pc[c] \in Waiting <=> \E n \in DOMAIN lane : lane[n] = c
  /\ \A n \in DOMAIN lane : n > 1 => pc[lane[n]] = "queued"

ReviewRow(r) ==
  \/ r = NoReview
  \/ /\ r.request \in Requests /\ r.action \in {"dismiss", "promote"}
     /\ r.at \in Nat \ {0}

(* A finding row, stored or held: open and empty, or decided by exactly    *)
(* one of the stored reviews, of the same action, reason and time.         *)
Backed(row, reviews) ==
  /\ row \in Row
  /\ Decided(row) = (row.decided # 0)
  /\ Decided(row) = (row.reason # NoRequest)
  /\ ~Decided(row) => row.by = {}
  /\ Decided(row) => \E k \in Keys :
       /\ row.by = {k}
       /\ reviews[k].at = row.decided /\ reviews[k].request = row.reason
       /\ (reviews[k].action = "promote") = (row.status = "confirmed")

StoredInv ==
  /\ DOMAIN review = Keys /\ \A k \in Keys : ReviewRow(review[k])
  /\ Backed(finding, review)
  /\ incident.observed \in Nat /\ incident.by \subseteq Keys
  /\ \A k \in incident.by : review[k].action = "promote"
  /\ links \subseteq Keys \cup {Affects}

(* Once its review is stored, the key of a call is the call's.             *)
Reviewing == {"deciding", "sent", "rereading", "confirming", "linking",
              "connecting", "answered"}

InGraph(c) ==
  IF Action[c] = "dismiss" THEN Key[c] \in links
  ELSE /\ incident.observed > 0 /\ Affects \in links
       /\ \E k \in links \ {Affects} : review[k].action = "promote"

(* What a call suspended at each await holds, has stored and was told.     *)
CallInv(c) ==
  /\ Backed(held[c].row, review)
  /\ held[c].row.observed <= finding.observed
  /\ held[c].at \in Nat /\ held[c].source \in Keys
  /\ pc[c] \notin {"linking", "connecting"} => held[c].source = Key[c]
  /\ decidedAt[c] \in Nat /\ (pc[c] # "new" => decidedAt[c] > 0)
  /\ pc[c] = "recording" =>
       /\ review[Key[c]] = NoReview
       /\ held[c].at = decidedAt[c]
       /\ Decided(held[c].row) => Action[c] = "promote"
  /\ pc[c] \in Reviewing => SameReview(c)
  /\ pc[c] \in {"deciding", "sent"} =>
       ~Decided(held[c].row) /\ held[c].at = review[Key[c]].at
  /\ pc[c] = "confirming" => Action[c] = "promote"
  /\ pc[c] \in {"linking", "connecting"} =>
       /\ held[c].at > 0
       /\ review[held[c].source].action = Action[c]
       /\ Action[c] = "dismiss" => held[c].source = Key[c]
  /\ pc[c] = "connecting" /\ Action[c] = "promote" => incident.observed > 0
  /\ pc[c] = "answered" => InGraph(c)

Holding == [row : Row, at : Nat, source : Keys]

LaneTypeOK ==
  /\ pc \in [Calls -> Waiting \cup {"new", "answered", "rejected", "sent"}]
  /\ held \in [Calls -> Holding] /\ DOMAIN decidedAt = Calls
  /\ lane \in Seq(Calls)

ReviewInv ==
  /\ LaneTypeOK
  /\ LaneInv
  /\ StoredInv
  /\ \A c \in Calls : CallInv(c)

-----------------------------------------------------------------------------
(* The lane.                                                               *)

(* Only the first call of the lane has begun.                              *)
LEMMA FirstAlone ==
  ASSUME LaneTypeOK, LaneInv, lane # <<>>,
         NEW d \in Calls, d # Head(lane)
  PROVE  pc[d] \notin Working
<1>1. ASSUME pc[d] \in Working PROVE FALSE
  <2>1. PICK n \in DOMAIN lane : lane[n] = d
    BY <1>1 DEF LaneInv, Waiting
  <2>2. n > 1
    BY <2>1 DEF LaneTypeOK
  <2>3. pc[d] = "queued"
    BY <2>1, <2>2 DEF LaneInv
  <2> QED BY <1>1, <2>3 DEF Working
<1> QED BY <1>1

LEMMA FirstIsWaiting ==
  ASSUME LaneTypeOK, LaneInv, lane # <<>>
  PROVE  Head(lane) \in Calls /\ pc[Head(lane)] \in Waiting
<1>1. Head(lane) \in Calls /\ 1 \in DOMAIN lane /\ lane[1] = Head(lane)
  BY DEF LaneTypeOK
<1> QED BY <1>1 DEF LaneInv

(* When the first call settles, the next one may begin.                    *)
LEMMA LaneAdvances ==
  ASSUME LaneTypeOK, LaneInv, lane # <<>>,
         NEW c \in Calls, c = Head(lane),
         NEW how \in {"answered", "rejected"}, Settles(c, how)
  PROVE  LaneInv'
<1>1. /\ lane \in Seq(Calls) /\ lane' = Tail(lane) /\ Len(lane) \in Nat \ {0}
      /\ Len(lane') = Len(lane) - 1
      /\ \A n \in DOMAIN lane' : lane'[n] = lane[n + 1] /\ n + 1 \in DOMAIN lane
  BY DEF LaneTypeOK, Settles
<1>2. pc' = [pc EXCEPT ![c] = how] /\ pc'[c] = how
  BY DEF Settles, Goto, LaneTypeOK
<1>3. \A m, n \in DOMAIN lane' : lane'[m] = lane'[n] => m = n
  BY <1>1 DEF LaneInv
<1>4. \A n \in DOMAIN lane' : lane'[n] # c
  BY <1>1 DEF LaneInv
<1>5. \A n \in DOMAIN lane : n = 1 \/ n - 1 \in DOMAIN lane'
  BY <1>1
<1>6. \A d \in Calls : pc'[d] \in Waiting <=> \E n \in DOMAIN lane' : lane'[n] = d
  <2> TAKE d \in Calls
  <2>1. CASE d = c
    BY <2>1, <1>2, <1>4 DEF Waiting, Working
  <2>2. CASE d # c
    <3>1. pc'[d] = pc[d]
      BY <2>2, <1>2 DEF LaneTypeOK
    <3>2. (\E n \in DOMAIN lane : lane[n] = d) => \E n \in DOMAIN lane' : lane'[n] = d
      <4>1. ASSUME NEW n \in DOMAIN lane, lane[n] = d
            PROVE  n - 1 \in DOMAIN lane' /\ lane'[n - 1] = d
        BY <4>1, <1>1, <1>5, <2>2
      <4> QED BY <4>1
    <3>3. (\E n \in DOMAIN lane' : lane'[n] = d) => \E n \in DOMAIN lane : lane[n] = d
      BY <1>1
    <3> QED BY <3>1, <3>2, <3>3 DEF LaneInv
  <2> QED BY <2>1, <2>2
<1>7. \A n \in DOMAIN lane' : n > 1 => pc'[lane'[n]] = "queued"
  <2> TAKE n \in DOMAIN lane'
  <2>1. lane'[n] \in Calls /\ lane'[n] # c
    BY <1>1, <1>4
  <2>2. pc[lane[n + 1]] = "queued"
    BY <1>1 DEF LaneInv
  <2> QED BY <1>1, <1>2, <2>1, <2>2 DEF LaneTypeOK
<1> QED BY <1>3, <1>6, <1>7 DEF LaneInv

(* The first call goes on to its next await.                               *)
LEMMA LaneStays ==
  ASSUME LaneTypeOK, LaneInv, lane # <<>>,
         NEW c \in Calls, c = Head(lane), pc[c] \in Waiting,
         NEW where \in Working, Goto(c, where), lane' = lane
  PROVE  LaneInv'
<1>1. \A d \in Calls : pc'[d] = IF d = c THEN where ELSE pc[d]
  BY DEF Goto, LaneTypeOK
<1>2. \A d \in Calls : pc'[d] \in Waiting <=> pc[d] \in Waiting
  BY <1>1 DEF Waiting
<1>3. \A n \in DOMAIN lane : n > 1 => lane[n] \in Calls /\ lane[n] # c
  BY DEF LaneInv, LaneTypeOK
<1> QED BY <1>1, <1>2, <1>3 DEF LaneInv

(* A call that arrives waits at the end.                                   *)
LEMMA LaneGrows ==
  ASSUME LaneTypeOK, LaneInv, NEW c \in Calls, Arrive(c)
  PROVE  LaneInv'
<1>1. /\ lane \in Seq(Calls) /\ lane' = Append(lane, c)
      /\ Len(lane) \in Nat /\ Len(lane') = Len(lane) + 1
      /\ lane'[Len(lane) + 1] = c
      /\ \A n \in DOMAIN lane : lane'[n] = lane[n] /\ n \in DOMAIN lane'
      /\ \A n \in DOMAIN lane' : n \in DOMAIN lane \/ n = Len(lane) + 1
      /\ Len(lane) + 1 \in DOMAIN lane'
  BY DEF LaneTypeOK, Arrive
<1>2. pc[c] = "new" /\ pc' = [pc EXCEPT ![c] = "queued"] /\ pc'[c] = "queued"
  BY DEF Arrive, Goto, LaneTypeOK
<1>3. \A n \in DOMAIN lane : lane[n] \in Calls /\ lane[n] # c
  BY <1>1, <1>2 DEF LaneInv, Waiting, Working
<1>4. \A m, n \in DOMAIN lane' : lane'[m] = lane'[n] => m = n
  BY <1>1, <1>3 DEF LaneInv
<1>5. \A d \in Calls : pc'[d] \in Waiting <=> \E n \in DOMAIN lane' : lane'[n] = d
  <2> TAKE d \in Calls
  <2>1. CASE d = c
    BY <2>1, <1>1, <1>2 DEF Waiting
  <2>2. CASE d # c
    <3>1. pc'[d] = pc[d]
      BY <2>2, <1>2 DEF LaneTypeOK
    <3>2. (\E n \in DOMAIN lane' : lane'[n] = d) <=> \E n \in DOMAIN lane : lane[n] = d
      BY <2>2, <1>1
    <3> QED BY <3>1, <3>2 DEF LaneInv
  <2> QED BY <2>1, <2>2
<1>6. \A n \in DOMAIN lane' : n > 1 => pc'[lane'[n]] = "queued"
  BY <1>1, <1>2, <1>3 DEF LaneInv, LaneTypeOK
<1> QED BY <1>4, <1>5, <1>6 DEF LaneInv

(* A process that stops leaves nobody waiting.                             *)
LEMMA LaneEmpties ==
  ASSUME LaneTypeOK, Stop
  PROVE  LaneInv'
<1>1. lane' = <<>> /\ \A c \in Calls : pc'[c] \notin Waiting
  BY DEF Stop, Waiting, Working
<1>2. DOMAIN lane' = {}
  BY <1>1
<1> QED BY <1>1, <1>2 DEF LaneInv

-----------------------------------------------------------------------------
(* The rows.                                                               *)

(* What no step takes back: a stored review is never replaced, and the     *)
(* finding and the incident only grow newer.                               *)
Grows ==
  /\ \A k \in Keys : review[k] = NoReview \/ review'[k] = review[k]
  /\ finding.observed <= finding'.observed
  /\ incident.observed <= incident'.observed
  /\ links \subseteq links'

LEMMA CallsHaveTypes ==
  ASSUME NEW c \in Calls
  PROVE  /\ Key[c] \in Keys /\ Action[c] \in {"dismiss", "promote"}
         /\ Request[c] \in Requests /\ Request[c] # NoRequest
BY ReviewAssumption DEF Requests

LEMMA NotFoundIsBacked ==
  ASSUME NEW reviews
  PROVE  Backed(NotFound, reviews) /\ NotFound.observed = 0 /\ ~Decided(NotFound)
BY DEF Backed, NotFound, Row, Decided

(* The review behind a decision stays stored.                              *)
LEMMA BackedStays ==
  ASSUME NEW row, NEW old, NEW new, Backed(row, old),
         \A k \in Keys : old[k] = NoReview \/ new[k] = old[k]
  PROVE  Backed(row, new)
BY DEF Backed, Decided, NoReview

LEMMA StoredReview ==
  ASSUME NEW r, ReviewRow(r), r # NoReview
  PROVE  r.request \in Requests /\ r.action \in {"dismiss", "promote"} /\ r.at \in Nat \ {0}
BY DEF ReviewRow

LEMMA SameReviewIsStored ==
  ASSUME NEW c \in Calls, SameReview(c)
  PROVE  review[Key[c]] # NoReview
BY CallsHaveTypes DEF SameReview, NoReview

(* A step that leaves a call where it is, and takes nothing back.          *)
LEMMA CallStays ==
  ASSUME NEW c \in Calls, CallInv(c), StoredInv, StoredInv', Grows,
         pc[c] # "recording" \/ review' = review,
         pc'[c] = pc[c], held'[c] = held[c], decidedAt'[c] = decidedAt[c]
  PROVE  CallInv(c)'
<1>1. /\ Backed(held[c].row, review)
      /\ held[c].row.observed <= finding.observed
      /\ held[c].row \in Row
  BY DEF CallInv, Backed
<1>2. Backed(held'[c].row, review')
  BY <1>1, BackedStays DEF Grows
<1>3. held'[c].row.observed <= finding'.observed
  BY <1>1 DEF Grows, StoredInv, Backed, Row
<1>4. SameReview(c) => review'[Key[c]] = review[Key[c]]
  BY SameReviewIsStored, CallsHaveTypes DEF Grows
<1>5. \A k \in Keys : review[k].action \in {"dismiss", "promote"} => review'[k] = review[k]
  BY DEF Grows, NoReview
<1>6. InGraph(c) => InGraph(c)'
  <2>1. \A k \in links \ {Affects} :
          review[k].action = "promote" => review'[k].action = "promote"
    BY <1>5 DEF StoredInv
  <2>2. incident.observed \in Nat /\ incident'.observed \in Nat
    BY DEF StoredInv
  <2> QED BY <2>1, <2>2 DEF InGraph, Grows
<1>7. pc[c] \in {"linking", "connecting"} =>
        review'[held[c].source].action = Action[c]
  BY <1>5, CallsHaveTypes DEF CallInv
<1> QED BY <1>2, <1>3, <1>4, <1>6, <1>7
     DEF CallInv, SameReview, Reviewing, Grows, StoredInv

LEMMA RowsStay ==
  ASSUME StoredInv, UNCHANGED rows
  PROVE  StoredInv' /\ Grows
<1>1. finding.observed \in Nat /\ incident.observed \in Nat
  BY DEF StoredInv, Backed, Row
<1> QED BY <1>1 DEF rows, StoredInv, Grows

LEMMA ScanEffect ==
  ASSUME StoredInv, NEW t \in ScanTimes, Scan(t)
  PROVE  StoredInv' /\ Grows
<1>1. /\ finding.observed \in Nat /\ incident.observed \in Nat
      /\ t \in Nat /\ t > finding.observed /\ finding' = Detected(t)
      /\ review' = review /\ incident' = incident /\ links' = links
  BY ReviewAssumption DEF StoredInv, Backed, Row, Scan, Newer
<1>2. Backed(Detected(t), review) /\ Detected(t).observed = t
  BY <1>1 DEF Backed, Detected, NotFound, Row, Decided
<1> QED BY <1>1, <1>2 DEF StoredInv, Grows

(* A review is stored under a key that nothing was stored under.           *)
LEMMA RecordedEffect ==
  ASSUME StoredInv, NEW c \in Calls, CallInv(c), pc[c] = "recording",
         Recorded(c), UNCHANGED <<finding, incident, links>>
  PROVE  /\ StoredInv' /\ Grows /\ SameReview(c)'
         /\ review'[Key[c]].at = held[c].at
<1> DEFINE stored == [request |-> Request[c], action |-> Action[c], at |-> held[c].at]
<1>1. /\ review[Key[c]] = NoReview /\ held[c].at \in Nat \ {0}
      /\ Key[c] \in Keys /\ Action[c] \in {"dismiss", "promote"}
      /\ Request[c] \in Requests
      /\ DOMAIN review = Keys /\ \A k \in Keys : ReviewRow(review[k])
  BY CallsHaveTypes DEF CallInv, StoredInv
<1>2. /\ DOMAIN review' = Keys
      /\ \A k \in Keys : review'[k] = IF k = Key[c] THEN stored ELSE review[k]
  BY <1>1 DEF Recorded
<1>3. ReviewRow(stored)
  BY <1>1 DEF ReviewRow
<1> HIDE DEF stored
<1>4. \A k \in Keys : ReviewRow(review'[k])
  BY <1>1, <1>2, <1>3
<1>5. \A k \in Keys : review[k] = NoReview \/ review'[k] = review[k]
  BY <1>1, <1>2
<1>6. Backed(finding', review')
  BY <1>5, BackedStays DEF StoredInv
<1>7. Grows
  BY <1>5 DEF Grows, StoredInv, Backed, Row
<1>8. \A k \in incident'.by : review'[k].action = "promote"
  BY <1>5 DEF StoredInv, NoReview
<1>9. stored.request = Request[c] /\ stored.action = Action[c] /\ stored.at = held[c].at
  BY DEF stored
<1> QED BY <1>1, <1>2, <1>4, <1>6, <1>7, <1>8, <1>9 DEF StoredInv, SameReview

(* A decision is one of the open row that was read, and has the time,      *)
(* action and reason of the call's own review.                             *)
LEMMA ReviewedIsBacked ==
  ASSUME StoredInv, NEW c \in Calls, CallInv(c), pc[c] \in {"deciding", "sent"}
  PROVE  /\ Backed(Reviewed(c), review) /\ Decided(Reviewed(c))
         /\ Reviewed(c).detected = held[c].row.detected
<1> DEFINE row == held[c].row
           new == Reviewed(c)
<1>1. /\ row \in Row /\ ~Decided(row) /\ row.by = {} /\ SameReview(c)
      /\ held[c].at = review[Key[c]].at /\ held[c].at \in Nat
  BY DEF CallInv, Backed, Reviewing
<1>2. /\ Key[c] \in Keys /\ Action[c] \in {"dismiss", "promote"}
      /\ Request[c] \in Requests /\ Request[c] # NoRequest
  BY CallsHaveTypes
<1>3. review[Key[c]].at # 0
  BY <1>1, <1>2, SameReviewIsStored DEF StoredInv, ReviewRow
<1>4. new = [row EXCEPT !.status = ReviewStatus(c),
                        !.observed = Later(@, held[c].at), !.decided = held[c].at,
                        !.reason = Request[c], !.by = @ \cup {Key[c]}]
  BY DEF Reviewed
<1>5. Later(row.observed, held[c].at) \in Nat
  BY <1>1 DEF Later, Row
<1>6. /\ ReviewStatus(c) \in {"dismissed", "confirmed"}
      /\ (Action[c] = "promote") = (ReviewStatus(c) = "confirmed")
  BY <1>2 DEF ReviewStatus
<1>7. /\ new.status = ReviewStatus(c) /\ new.decided = held[c].at
      /\ new.reason = Request[c] /\ new.by = {Key[c]}
      /\ new.detected = row.detected
  BY <1>1, <1>4 DEF Row
<1>8. new \in Row
  <2>1. new = [status |-> ReviewStatus(c), observed |-> Later(row.observed, held[c].at),
               detected |-> row.detected, decided |-> held[c].at,
               reason |-> Request[c], by |-> row.by \cup {Key[c]}]
    BY <1>1, <1>4 DEF Row
  <2>2. row.detected \in Nat /\ row.by \cup {Key[c]} \in SUBSET Keys
    BY <1>1, <1>2 DEF Row
  <2> HIDE DEF new
  <2> QED BY <1>1, <1>2, <1>5, <1>6, <2>1, <2>2 DEF Row, Requests
<1> HIDE DEF new, row
<1>9. Decided(new)
  BY <1>6, <1>7 DEF Decided
<1>10. /\ new.by = {Key[c]} /\ review[Key[c]].at = new.decided
       /\ review[Key[c]].request = new.reason
       /\ (review[Key[c]].action = "promote") = (new.status = "confirmed")
  BY <1>1, <1>6, <1>7 DEF SameReview
<1>11. Backed(new, review)
  BY <1>1, <1>2, <1>3, <1>7, <1>8, <1>9, <1>10 DEF Backed
<1> QED BY <1>7, <1>9, <1>11 DEF new, row

LEMMA DecidedEffect ==
  ASSUME StoredInv, NEW c \in Calls, CallInv(c), pc[c] \in {"deciding", "sent"},
         Newer(Reviewed(c).observed, finding), finding' = Reviewed(c),
         UNCHANGED <<review, incident, links>>
  PROVE  StoredInv' /\ Grows
<1>1. Backed(Reviewed(c), review)
  BY ReviewedIsBacked
<1>2. Reviewed(c).observed \in Nat /\ finding.observed \in Nat /\ incident.observed \in Nat
  BY <1>1 DEF Backed, Row, StoredInv
<1> QED BY <1>1, <1>2 DEF StoredInv, Grows, Newer

(* The graph of a review writes the finding a second time.  That is never  *)
(* newer than the one stored: it was read from it, or written to it.       *)
LEMMA LinkEffect ==
  ASSUME StoredInv, NEW c \in Calls, CallInv(c), Link(c)
  PROVE  /\ finding' = finding /\ StoredInv' /\ Grows
         /\ Action[c] = "promote" => incident'.observed > 0
<1>1. /\ pc[c] = "linking" /\ held[c].row.observed <= finding.observed
      /\ finding.observed \in Nat /\ held[c].row.observed \in Nat
      /\ incident.observed \in Nat /\ held[c].at \in Nat \ {0}
      /\ held[c].source \in Keys /\ review[held[c].source].action = Action[c]
      /\ review' = review /\ links' = links
  BY DEF CallInv, StoredInv, Backed, Row, Link, At
<1>2. finding' = finding
  BY <1>1 DEF Link, Newer
<1>3. CASE Action[c] = "promote" /\ Newer(held[c].at, incident)
  <2>1. incident' = [observed |-> held[c].at, by |-> {held[c].source}]
    BY <1>3 DEF Link
  <2>2. incident'.observed = held[c].at /\ incident'.by = {held[c].source}
    BY <2>1
  <2> QED BY <1>1, <1>2, <1>3, <2>2 DEF StoredInv, Grows, Newer
<1>4. CASE ~(Action[c] = "promote" /\ Newer(held[c].at, incident))
  <2>1. incident' = incident
    BY <1>4 DEF Link
  <2> QED BY <1>1, <1>2, <1>4, <2>1 DEF StoredInv, Grows, Newer
<1> QED BY <1>2, <1>3, <1>4

LEMMA ConnectEffect ==
  ASSUME StoredInv, NEW c \in Calls, CallInv(c), pc[c] = "connecting",
         NEW part \in SUBSET Drawn(c), links' = links \cup part,
         UNCHANGED <<finding, review, incident>>
  PROVE  /\ StoredInv' /\ Grows
         /\ part = Drawn(c) => InGraph(c)'
<1>1. /\ held[c].source \in Keys /\ held[c].source # Affects
      /\ review[held[c].source].action = Action[c]
      /\ Action[c] = "dismiss" => held[c].source = Key[c]
      /\ Action[c] = "promote" => incident.observed > 0
      /\ Action[c] \in {"dismiss", "promote"}
  BY ReviewAssumption, CallsHaveTypes DEF CallInv, Affects
<1>2. finding.observed \in Nat /\ incident.observed \in Nat
  BY DEF StoredInv, Backed, Row
<1>3. Drawn(c) \subseteq Keys \cup {Affects}
  BY <1>1 DEF Drawn
<1>4. StoredInv' /\ Grows
  BY <1>2, <1>3 DEF StoredInv, Grows
<1>5. ASSUME part = Drawn(c) PROVE InGraph(c)'
  <2>1. CASE Action[c] = "dismiss"
    BY <1>1, <1>5, <2>1 DEF InGraph, Drawn
  <2>2. CASE Action[c] = "promote"
    <3>1. Affects \in links' /\ held[c].source \in links' \ {Affects}
      BY <1>1, <1>5, <2>2 DEF Drawn
    <3> QED BY <1>1, <2>2, <3>1 DEF InGraph
  <2> QED BY <1>1, <2>1, <2>2
<1> QED BY <1>4, <1>5

-----------------------------------------------------------------------------
(* The steps.                                                              *)

LEMMA EmptyHanded ==
  ASSUME NEW c \in Calls, NEW reviews
  PROVE  /\ Backed(Nothing(c).row, reviews) /\ Nothing(c).row.observed = 0
         /\ Nothing(c).at = 0 /\ Nothing(c).source = Key[c]
         /\ Nothing(c) \in Holding
BY NotFoundIsBacked, CallsHaveTypes DEF Nothing, Holding, Backed

LEMMA InitHolds == Init => ReviewInv
<1> SUFFICES ASSUME Init PROVE ReviewInv
  OBVIOUS
<1>1. LaneTypeOK /\ LaneInv
  BY EmptyHanded DEF Init, LaneTypeOK, LaneInv, Waiting, Working
<1>2. StoredInv
  BY NotFoundIsBacked DEF Init, StoredInv, ReviewRow, NoIncident
<1>3. ASSUME NEW c \in Calls PROVE CallInv(c)
  <2>1. /\ held[c] = Nothing(c) /\ pc[c] = "new" /\ decidedAt[c] = 0
        /\ finding.observed \in Nat
    BY <1>2 DEF Init, StoredInv, Backed, Row
  <2> QED BY <2>1, EmptyHanded, CallsHaveTypes DEF CallInv, Reviewing
<1> QED BY <1>1, <1>2, <1>3 DEF ReviewInv

(* A step of the first call that settles it, whatever it stored.           *)
LEMMA SettleHolds ==
  ASSUME ReviewInv, lane # <<>>, NEW c \in Calls, c = Head(lane),
         NEW how \in {"answered", "rejected"}, Settles(c, how),
         decidedAt' = decidedAt, StoredInv', Grows,
         how = "answered" => SameReview(c)' /\ InGraph(c)'
  PROVE  ReviewInv'
<1>1. LaneTypeOK /\ LaneInv /\ StoredInv
  BY DEF ReviewInv
<1>2. LaneInv'
  BY <1>1, LaneAdvances
<1>3. /\ \A d \in Calls : pc'[d] = IF d = c THEN how ELSE pc[d]
      /\ \A d \in Calls : held'[d] = IF d = c THEN Nothing(c) ELSE held[d]
  BY <1>1 DEF LaneTypeOK, Settles, Goto, Holds
<1>4. LaneTypeOK'
  BY <1>1, EmptyHanded DEF LaneTypeOK, Settles, Goto, Holds
<1>5. CallInv(c)'
  <2>1. pc'[c] = how /\ held'[c] = Nothing(c)
    BY <1>3
  <2>2. finding'.observed \in Nat
    BY DEF StoredInv, Backed, Row
  <2>3. decidedAt'[c] \in Nat /\ decidedAt'[c] > 0
    <3>1. pc[c] # "new"
      BY <1>1, FirstIsWaiting DEF Waiting, Working
    <3> QED BY <3>1 DEF ReviewInv, CallInv
  <2>4. /\ Backed(held'[c].row, review')
        /\ held'[c].row.observed <= finding'.observed
        /\ held'[c].at \in Nat /\ held'[c].source = Key[c] /\ Key[c] \in Keys
    <3>1. /\ Backed(Nothing(c).row, review') /\ Nothing(c).row.observed = 0
          /\ Nothing(c).at = 0 /\ Nothing(c).source = Key[c]
      BY EmptyHanded
    <3> QED BY <2>1, <2>2, <3>1, CallsHaveTypes
  <2> QED BY <2>1, <2>3, <2>4 DEF CallInv, Reviewing
<1>6. ASSUME NEW d \in Calls, d # c PROVE CallInv(d)'
  <2>1. CallInv(d) /\ pc[d] # "recording"
    BY <1>1, <1>6, FirstAlone DEF ReviewInv, Working
  <2> QED BY <1>1, <1>3, <1>6, <2>1, CallStays
<1> QED BY <1>2, <1>4, <1>5, <1>6 DEF ReviewInv

(* A step of the first call that takes it to its next await.               *)
LEMMA GoOnHolds ==
  ASSUME ReviewInv, lane # <<>>, NEW c \in Calls, c = Head(lane),
         pc[c] \in Waiting, NEW where \in Working, Goto(c, where),
         NEW changed \in Holding, Holds(c, changed),
         lane' = lane, decidedAt' = decidedAt, StoredInv', Grows,
         CallInv(c)'
  PROVE  ReviewInv'
<1>1. LaneTypeOK /\ LaneInv /\ StoredInv
  BY DEF ReviewInv
<1>2. LaneInv'
  BY <1>1, LaneStays
<1>3. /\ \A d \in Calls : pc'[d] = IF d = c THEN where ELSE pc[d]
      /\ \A d \in Calls : held'[d] = IF d = c THEN changed ELSE held[d]
  BY <1>1 DEF LaneTypeOK, Goto, Holds
<1>4. LaneTypeOK'
  BY <1>1 DEF LaneTypeOK, Goto, Holds, Waiting
<1>5. ASSUME NEW d \in Calls, d # c PROVE CallInv(d)'
  <2>1. CallInv(d) /\ pc[d] # "recording"
    BY <1>1, <1>5, FirstAlone DEF ReviewInv, Working
  <2> QED BY <1>1, <1>3, <1>5, <2>1, CallStays
<1> QED BY <1>2, <1>4, <1>5 DEF ReviewInv

LEMMA ScanHolds ==
  ASSUME ReviewInv, NEW t \in ScanTimes, Scan(t)
  PROVE  ReviewInv'
<1>1. StoredInv /\ StoredInv' /\ Grows
  BY ScanEffect DEF ReviewInv
<1>2. UNCHANGED <<review, pc, decidedAt, held, lane>>
  BY DEF Scan, process
<1>3. LaneTypeOK' /\ LaneInv'
  BY <1>2 DEF ReviewInv, LaneTypeOK, LaneInv
<1>4. ASSUME NEW c \in Calls PROVE CallInv(c)'
  BY <1>1, <1>2, CallStays DEF ReviewInv
<1> QED BY <1>1, <1>3, <1>4 DEF ReviewInv

LEMMA ArriveHolds ==
  ASSUME ReviewInv, NEW c \in Calls, Arrive(c)
  PROVE  ReviewInv'
<1>1. /\ LaneTypeOK /\ LaneInv /\ StoredInv /\ CallInv(c)
      /\ UNCHANGED <<rows, held>> /\ lane' = Append(lane, c)
      /\ pc[c] = "new" /\ pc' = [pc EXCEPT ![c] = "queued"]
  BY DEF ReviewInv, Arrive, Goto
<1>2. PICK t \in Times : decidedAt' = [decidedAt EXCEPT ![c] = t]
  BY DEF Arrive
<1>3. LaneTypeOK'
  BY <1>1, <1>2 DEF LaneTypeOK, Waiting
<1>4. LaneInv'
  BY <1>1, LaneGrows
<1>5. StoredInv' /\ Grows
  BY <1>1, RowsStay
<1>6. CallInv(c)'
  <2>1. pc'[c] = "queued" /\ decidedAt'[c] = t /\ t \in Nat /\ t > 0
    BY <1>1, <1>2, ReviewAssumption DEF LaneTypeOK
  <2> QED BY <1>1, <2>1 DEF CallInv, Reviewing, rows
<1>7. ASSUME NEW d \in Calls, d # c PROVE CallInv(d)'
  <2>1. pc'[d] = pc[d] /\ decidedAt'[d] = decidedAt[d] /\ CallInv(d)
    BY <1>1, <1>2, <1>7 DEF LaneTypeOK, ReviewInv
  <2> QED BY <1>1, <1>5, <2>1, CallStays DEF rows
<1> QED BY <1>3, <1>4, <1>5, <1>6, <1>7 DEF ReviewInv

LEMMA ReadHolds ==
  ASSUME ReviewInv, NEW c \in Calls, Read(c)
  PROVE  ReviewInv'
<1> DEFINE changed == [held[c] EXCEPT !.row = finding]
<1>1. /\ lane # <<>> /\ c = Head(lane) /\ pc[c] = "queued"
      /\ LaneTypeOK /\ StoredInv /\ CallInv(c)
      /\ UNCHANGED rows /\ decidedAt' = decidedAt
  BY DEF Read, At, ReviewInv
<1>2. StoredInv' /\ Grows
  BY <1>1, RowsStay
<1>3. CASE finding = NotFound \/ decidedAt[c] < finding.detected
  BY <1>1, <1>2, <1>3, SettleHolds DEF Read
<1>4. CASE ~(finding = NotFound \/ decidedAt[c] < finding.detected)
  <2>1. Goto(c, "identifying") /\ Holds(c, changed) /\ lane' = lane
    BY <1>4 DEF Read
  <2>2. pc'[c] = "identifying" /\ held'[c] = changed
    BY <1>1, <2>1 DEF Goto, Holds, LaneTypeOK
  <2>3. /\ changed \in Holding /\ changed.row = finding
        /\ changed.at = held[c].at /\ changed.source = held[c].source
    BY <1>1 DEF LaneTypeOK, Holding, StoredInv, Backed
  <2>4. CallInv(c)'
    BY <1>1, <2>2, <2>3 DEF CallInv, StoredInv, Backed, Row, Reviewing, rows
  <2> QED BY <1>1, <1>2, <2>1, <2>3, <2>4, GoOnHolds DEF Waiting, Working
<1> QED BY <1>3, <1>4

(* What follows the look at a call's key: its own review is there, or no   *)
(* review is and it is about to store one.                                 *)
LEMMA IdentifyHolds ==
  ASSUME ReviewInv, NEW c \in Calls, Identify(c)
  PROVE  ReviewInv'
<1> DEFINE replayed == review[Key[c]] # NoReview
           next == Continuation(c, held[c].row, replayed)
           at == IF replayed THEN review[Key[c]].at ELSE decidedAt[c]
           changed == [held[c] EXCEPT !.at = at]
<1>1. /\ lane # <<>> /\ c = Head(lane) /\ pc[c] = "identifying"
      /\ LaneTypeOK /\ StoredInv /\ CallInv(c)
      /\ UNCHANGED rows /\ decidedAt' = decidedAt
  BY DEF Identify, At, ReviewInv
<1>2. StoredInv' /\ Grows
  BY <1>1, RowsStay
<1>3. CASE (replayed /\ ~SameReview(c)) \/ next = "refused"
  BY <1>1, <1>2, <1>3, SettleHolds DEF Identify
<1>4. CASE ~((replayed /\ ~SameReview(c)) \/ next = "refused")
  <2>1. Goto(c, next) /\ Holds(c, changed) /\ lane' = lane
    BY <1>4 DEF Identify
  <2>2. /\ Action[c] \in {"dismiss", "promote"} /\ Key[c] \in Keys
        /\ ReviewRow(review[Key[c]])
        /\ decidedAt[c] \in Nat \ {0} /\ held[c].source = Key[c]
    BY <1>1, CallsHaveTypes DEF CallInv, StoredInv
  <2>3. at \in Nat \ {0}
    BY <2>2 DEF ReviewRow
  <2>4. /\ next \in {"linking", "recording", "confirming", "deciding"}
        /\ next = "recording" => ~replayed /\ (Decided(held[c].row) => Action[c] = "promote")
        /\ next # "recording" => replayed /\ SameReview(c)
        /\ next = "confirming" => Action[c] = "promote"
        /\ next = "deciding" => ~Decided(held[c].row)
    <3> DEFINE closed == held[c].row.status = "dismissed" \/ Action[c] = "dismiss"
    <3>1. CASE Decided(held[c].row) /\ closed
      <4>1. next = IF replayed /\ held[c].row.status = ReviewStatus(c)
                      /\ Key[c] \in held[c].row.by
                   THEN "linking" ELSE "refused"
        BY <3>1 DEF Continuation
      <4> QED BY <1>4, <4>1
    <3>2. CASE ~(Decided(held[c].row) /\ closed) /\ ~replayed
      <4>1. next = "recording"
        BY <3>2 DEF Continuation
      <4> QED BY <2>2, <3>2, <4>1
    <3>3. CASE ~(Decided(held[c].row) /\ closed) /\ replayed
      <4>1. next = IF Decided(held[c].row) THEN "confirming" ELSE "deciding"
        BY <3>3 DEF Continuation
      <4> QED BY <1>4, <2>2, <3>3, <4>1
    <3> QED BY <3>1, <3>2, <3>3
  <2> HIDE DEF next, at
  <2>5. /\ changed \in Holding /\ changed.row = held[c].row
        /\ changed.at = at /\ changed.source = held[c].source
    BY <1>1, <2>3 DEF LaneTypeOK, Holding
  <2> HIDE DEF changed
  <2>6. pc'[c] = next /\ held'[c] = changed
    BY <1>1, <2>1 DEF Goto, Holds, LaneTypeOK
  <2>7. SameReview(c) => review[Key[c]].action = Action[c]
    BY DEF SameReview
  <2>8. next = "deciding" => at = review[Key[c]].at
    BY <2>4 DEF at
  <2>9. next = "recording" => at = decidedAt[c]
    BY <2>4 DEF at
  <2>10. CallInv(c)'
    BY <1>1, <2>2, <2>3, <2>4, <2>5, <2>6, <2>7, <2>8, <2>9
       DEF CallInv, Reviewing, SameReview, rows
  <2> QED BY <1>1, <1>2, <2>1, <2>4, <2>5, <2>10, GoOnHolds DEF Waiting, Working
<1> QED BY <1>3, <1>4

LEMMA RecordHolds ==
  ASSUME ReviewInv, NEW c \in Calls, Record(c)
  PROVE  ReviewInv'
<1> DEFINE where == IF Decided(held[c].row) THEN "confirming" ELSE "deciding"
<1>1. /\ lane # <<>> /\ c = Head(lane) /\ pc[c] = "recording"
      /\ LaneTypeOK /\ StoredInv /\ CallInv(c)
      /\ Recorded(c) /\ Goto(c, where)
      /\ UNCHANGED <<finding, incident, links, decidedAt, held, lane>>
  BY DEF Record, At, ReviewInv
<1>2. StoredInv' /\ Grows /\ SameReview(c)' /\ review'[Key[c]].at = held[c].at
  BY <1>1, RecordedEffect
<1>3. Holds(c, held[c]) /\ held[c] \in Holding
  BY <1>1 DEF Holds, LaneTypeOK
<1>4. pc'[c] = where
  BY <1>1 DEF Goto, LaneTypeOK
<1>5. Backed(held[c].row, review')
  BY <1>1, <1>2, BackedStays DEF CallInv, Grows
<1>6. CallInv(c)'
  BY <1>1, <1>2, <1>4, <1>5 DEF CallInv, Reviewing
<1> QED BY <1>1, <1>2, <1>3, <1>6, GoOnHolds DEF Waiting, Working

LEMMA DecideHolds ==
  ASSUME ReviewInv, NEW c \in Calls, Decide(c)
  PROVE  ReviewInv'
<1> DEFINE changed == [held[c] EXCEPT !.row = Reviewed(c), !.at = decidedAt[c]]
<1>1. /\ lane # <<>> /\ c = Head(lane) /\ pc[c] = "deciding"
      /\ LaneTypeOK /\ StoredInv /\ CallInv(c)
      /\ Newer(Reviewed(c).observed, finding) /\ finding' = Reviewed(c)
      /\ Goto(c, "linking") /\ Holds(c, changed)
      /\ UNCHANGED <<review, incident, links, decidedAt, lane>>
  BY DEF Decide, At, ReviewInv
<1>2. StoredInv' /\ Grows
  BY <1>1, DecidedEffect
<1>3. Backed(Reviewed(c), review) /\ Reviewed(c) \in Row /\ Reviewed(c).observed \in Nat
  BY <1>1, ReviewedIsBacked DEF Backed, Row
<1>4. /\ changed \in Holding /\ changed.row = Reviewed(c)
      /\ changed.at = decidedAt[c] /\ changed.source = held[c].source
  <2>1. held[c] \in Holding /\ decidedAt[c] \in Nat
    BY <1>1 DEF LaneTypeOK, CallInv
  <2> QED BY <1>3, <2>1 DEF Holding
<1> HIDE DEF changed
<1>5. pc'[c] = "linking" /\ held'[c] = changed
  BY <1>1 DEF Goto, Holds, LaneTypeOK
<1>6. /\ SameReview(c) /\ held[c].source = Key[c] /\ Key[c] \in Keys
      /\ decidedAt[c] \in Nat /\ decidedAt[c] > 0
  BY <1>1, CallsHaveTypes DEF CallInv, Reviewing
<1>7. CallInv(c)'
  BY <1>1, <1>3, <1>4, <1>5, <1>6 DEF CallInv, Reviewing, SameReview
<1> QED BY <1>1, <1>2, <1>4, <1>7, GoOnHolds DEF Waiting, Working

LEMMA DecisionLostHolds ==
  ASSUME ReviewInv, NEW c \in Calls, DecisionLost(c)
  PROVE  ReviewInv'
<1>1. /\ lane # <<>> /\ c = Head(lane) /\ pc[c] = "deciding"
      /\ LaneTypeOK /\ StoredInv /\ CallInv(c)
      /\ UNCHANGED rows /\ decidedAt' = decidedAt
  BY DEF DecisionLost, At, ReviewInv
<1>2. StoredInv' /\ Grows
  BY <1>1, RowsStay
<1>3. CASE Unchanged(c)
  BY <1>1, <1>2, <1>3, SettleHolds DEF DecisionLost
<1>4. CASE ~Unchanged(c)
  <2>1. Goto(c, "rereading") /\ held' = held /\ lane' = lane
    BY <1>4 DEF DecisionLost
  <2>2. pc'[c] = "rereading" /\ Holds(c, held[c]) /\ held[c] \in Holding
    BY <1>1, <2>1 DEF Goto, Holds, LaneTypeOK
  <2>3. CallInv(c)'
    BY <1>1, <2>1, <2>2 DEF CallInv, Reviewing, SameReview, rows
  <2> QED BY <1>1, <1>2, <2>1, <2>2, <2>3, GoOnHolds DEF Waiting, Working
<1> QED BY <1>3, <1>4

LEMMA RereadHolds ==
  ASSUME ReviewInv, NEW c \in Calls, Reread(c)
  PROVE  ReviewInv'
<1> DEFINE changed == [held[c] EXCEPT !.row = finding, !.at = decidedAt[c]]
<1>1. /\ lane # <<>> /\ c = Head(lane) /\ pc[c] = "rereading"
      /\ LaneTypeOK /\ StoredInv /\ CallInv(c)
      /\ UNCHANGED rows /\ decidedAt' = decidedAt
  BY DEF Reread, At, ReviewInv
<1>2. StoredInv' /\ Grows
  BY <1>1, RowsStay
<1>3. CASE finding.status = ReviewStatus(c) /\ Key[c] \in finding.by
  <2>1. Goto(c, "linking") /\ Holds(c, changed) /\ lane' = lane
    BY <1>3 DEF Reread
  <2>2. /\ changed \in Holding /\ changed.row = finding
        /\ changed.at = decidedAt[c] /\ changed.source = held[c].source
    <3>1. held[c] \in Holding /\ decidedAt[c] \in Nat /\ finding \in Row
      BY <1>1 DEF LaneTypeOK, CallInv, StoredInv, Backed
    <3> QED BY <3>1 DEF Holding
  <2> HIDE DEF changed
  <2>3. pc'[c] = "linking" /\ held'[c] = changed
    BY <1>1, <2>1 DEF Goto, Holds, LaneTypeOK
  <2>4. /\ SameReview(c) /\ held[c].source = Key[c] /\ Key[c] \in Keys
        /\ decidedAt[c] \in Nat /\ decidedAt[c] > 0
        /\ Backed(finding, review) /\ finding.observed \in Nat
    BY <1>1, CallsHaveTypes DEF CallInv, Reviewing, StoredInv, Backed, Row
  <2>5. CallInv(c)'
    BY <1>1, <2>2, <2>3, <2>4 DEF CallInv, Reviewing, SameReview, rows
  <2> QED BY <1>1, <1>2, <2>1, <2>2, <2>5, GoOnHolds DEF Waiting, Working
<1>4. CASE ~(finding.status = ReviewStatus(c) /\ Key[c] \in finding.by)
  BY <1>1, <1>2, <1>4, SettleHolds DEF Reread
<1> QED BY <1>3, <1>4

(* A repair takes the provenance and the time of a stored promotion.       *)
LEMMA ConfirmHolds ==
  ASSUME ReviewInv, NEW c \in Calls, Confirm(c)
  PROVE  ReviewInv'
<1> DEFINE row == held[c].row
<1>1. /\ lane # <<>> /\ c = Head(lane) /\ pc[c] = "confirming"
      /\ LaneTypeOK /\ StoredInv /\ CallInv(c)
      /\ UNCHANGED rows /\ decidedAt' = decidedAt
  BY DEF Confirm, At, ReviewInv
<1>2. StoredInv' /\ Grows
  BY <1>1, RowsStay
<1>3. CASE Cardinality(Confirmations(row)) = 1
           /\ \A k \in Confirmations(row) : Confirms(k, row)
  <2>1. PICK k \in Confirmations(row) :
          Holds(c, [held[c] EXCEPT !.source = k, !.at = review[k].at])
    BY <1>3 DEF Confirm
  <2>2. Goto(c, "linking") /\ lane' = lane
    BY <1>3 DEF Confirm
  <2> DEFINE changed == [held[c] EXCEPT !.source = k, !.at = review[k].at]
  <2>3. k \in Keys /\ review[k].action = "promote"
    BY <1>1 DEF Confirmations, CallInv, Backed, Row
  <2>4. review[k].at \in Nat \ {0}
    BY <1>1, <2>3 DEF StoredInv, ReviewRow, NoReview
  <2>5. /\ changed \in Holding /\ changed.row = row
        /\ changed.at = review[k].at /\ changed.source = k
    BY <1>1, <2>3, <2>4 DEF LaneTypeOK, Holding
  <2> HIDE DEF changed
  <2>6. pc'[c] = "linking" /\ held'[c] = changed
    BY <1>1, <2>1, <2>2 DEF Goto, Holds, LaneTypeOK, changed
  <2>7. Action[c] = "promote" /\ SameReview(c)
    BY <1>1 DEF CallInv, Reviewing
  <2>8. CallInv(c)'
    BY <1>1, <2>3, <2>4, <2>5, <2>6, <2>7 DEF CallInv, Reviewing, SameReview, rows
  <2>9. Holds(c, changed)
    BY <2>1 DEF changed
  <2> QED BY <1>1, <1>2, <2>2, <2>5, <2>8, <2>9, GoOnHolds DEF Waiting, Working
<1>4. CASE ~(Cardinality(Confirmations(row)) = 1
             /\ \A k \in Confirmations(row) : Confirms(k, row))
  BY <1>1, <1>2, <1>4, SettleHolds DEF Confirm
<1> QED BY <1>3, <1>4

LEMMA LinkHolds ==
  ASSUME ReviewInv, NEW c \in Calls, Link(c)
  PROVE  ReviewInv'
<1>1. /\ lane # <<>> /\ c = Head(lane) /\ pc[c] = "linking"
      /\ LaneTypeOK /\ StoredInv /\ CallInv(c)
      /\ Goto(c, "connecting")
      /\ UNCHANGED <<review, links, decidedAt, held, lane>>
  BY DEF Link, At, ReviewInv
<1>2. /\ finding' = finding /\ StoredInv' /\ Grows
      /\ Action[c] = "promote" => incident'.observed > 0
  BY <1>1, LinkEffect
<1>3. pc'[c] = "connecting" /\ Holds(c, held[c]) /\ held[c] \in Holding
  BY <1>1 DEF Goto, Holds, LaneTypeOK
<1>4. CallInv(c)'
  BY <1>1, <1>2, <1>3 DEF CallInv, Reviewing, SameReview
<1> QED BY <1>1, <1>2, <1>3, <1>4, GoOnHolds DEF Waiting, Working

LEMMA ConnectHolds ==
  ASSUME ReviewInv, NEW c \in Calls, Connect(c)
  PROVE  ReviewInv'
<1>1. /\ lane # <<>> /\ c = Head(lane) /\ pc[c] = "connecting"
      /\ StoredInv /\ CallInv(c)
      /\ links' = links \cup Drawn(c) /\ Settles(c, "answered")
      /\ UNCHANGED <<finding, review, incident, decidedAt>>
  BY DEF Connect, At, ReviewInv
<1>2. StoredInv' /\ Grows /\ InGraph(c)'
  BY <1>1, ConnectEffect
<1>3. SameReview(c)'
  BY <1>1 DEF CallInv, Reviewing, SameReview
<1> QED BY <1>1, <1>2, <1>3, SettleHolds

(* An await that rejects, whether or not its write committed.              *)
LEMMA FailsHolds ==
  ASSUME ReviewInv, NEW c \in Calls, Fails(c)
  PROVE  ReviewInv'
<1>1. /\ lane # <<>> /\ c = Head(lane) /\ StoredInv /\ CallInv(c)
      /\ Settles(c, "rejected") /\ decidedAt' = decidedAt
  BY DEF Fails, ReviewInv
<1>2. StoredInv' /\ Grows
  <2>1. CASE UNCHANGED rows
    BY <1>1, <2>1, RowsStay
  <2>2. CASE pc[c] = "recording" /\ Recorded(c) /\ UNCHANGED <<finding, incident, links>>
    BY <1>1, <2>2, RecordedEffect
  <2>3. CASE /\ pc[c] = "deciding" /\ Unchanged(c)
             /\ Newer(Reviewed(c).observed, finding)
             /\ finding' = Reviewed(c) /\ UNCHANGED <<review, incident, links>>
    BY <1>1, <2>3, DecidedEffect
  <2>4. CASE /\ pc[c] = "connecting"
             /\ \E part \in SUBSET Drawn(c) : links' = links \cup part
             /\ UNCHANGED <<finding, review, incident>>
    BY <1>1, <2>4, ConnectEffect
  <2> QED BY <2>1, <2>2, <2>3, <2>4 DEF Fails
<1> QED BY <1>1, <1>2, SettleHolds

(* A decision that was sent keeps what it was about over a restart.        *)
LEMMA StopHolds ==
  ASSUME ReviewInv, Stop
  PROVE  ReviewInv'
<1>1. /\ LaneTypeOK /\ LaneInv /\ StoredInv
      /\ lane' = <<>> /\ UNCHANGED rows /\ decidedAt' = decidedAt
      /\ pc' = [c \in Calls |->
           IF pc[c] \notin Waiting THEN pc[c]
           ELSE IF pc[c] = "deciding" THEN "sent" ELSE "rejected"]
      /\ held' = [c \in Calls |->
           IF pc[c] \in {"deciding", "sent"} THEN held[c] ELSE Nothing(c)]
  BY DEF Stop, ReviewInv
<1>2. StoredInv' /\ Grows
  BY <1>1, RowsStay
<1>3. LaneTypeOK'
  <2>1. held' \in [Calls -> Holding]
    BY <1>1, EmptyHanded DEF LaneTypeOK
  <2>2. pc' \in [Calls -> Waiting \cup {"new", "answered", "rejected", "sent"}]
    BY <1>1 DEF LaneTypeOK
  <2> QED BY <1>1, <2>1, <2>2 DEF LaneTypeOK
<1>4. LaneInv'
  BY LaneEmpties DEF ReviewInv
<1>5. ASSUME NEW c \in Calls PROVE CallInv(c)'
  <2>1. CallInv(c)
    BY DEF ReviewInv
  <2>2. CASE pc[c] \in {"deciding", "sent"}
    <3>1. held'[c] = held[c] /\ pc'[c] = "sent"
      BY <1>1, <2>2 DEF Waiting, Working
    <3> QED BY <1>1, <2>1, <2>2, <3>1 DEF CallInv, Reviewing, SameReview, rows
  <2>3. CASE pc[c] \notin {"deciding", "sent"}
    <3>1. /\ held'[c] = Nothing(c)
          /\ pc'[c] = IF pc[c] \in Waiting THEN "rejected" ELSE pc[c]
      BY <1>1, <2>3
    <3>2. pc'[c] \in {"new", "answered", "rejected"}
          /\ (pc'[c] = "new" <=> pc[c] = "new") /\ (pc'[c] = "answered" => pc[c] = "answered")
      BY <1>1, <2>3, <3>1 DEF LaneTypeOK, Waiting, Working
    <3>3. finding'.observed \in Nat
      BY <1>2 DEF StoredInv, Backed, Row
    <3>4. /\ Backed(Nothing(c).row, review') /\ Nothing(c).row.observed = 0
          /\ Nothing(c).at = 0 /\ Nothing(c).source = Key[c] /\ Key[c] \in Keys
      BY EmptyHanded, CallsHaveTypes
    <3>5. InGraph(c) => InGraph(c)'
      BY <1>1 DEF InGraph, rows
    <3>6. /\ Backed(held'[c].row, review')
          /\ held'[c].row.observed <= finding'.observed
          /\ held'[c].at \in Nat /\ held'[c].source = Key[c] /\ Key[c] \in Keys
      BY <3>1, <3>3, <3>4
    <3> QED BY <1>1, <2>1, <3>2, <3>5, <3>6 DEF CallInv, Reviewing, SameReview, rows
  <2> QED BY <2>2, <2>3
<1> QED BY <1>2, <1>3, <1>4, <1>5 DEF ReviewInv

LEMMA LandsHolds ==
  ASSUME ReviewInv, NEW c \in Calls, Lands(c)
  PROVE  ReviewInv'
<1>1. /\ LaneTypeOK /\ LaneInv /\ StoredInv /\ CallInv(c) /\ pc[c] = "sent"
      /\ Newer(Reviewed(c).observed, finding) /\ finding' = Reviewed(c)
      /\ pc' = [pc EXCEPT ![c] = "rejected"]
      /\ held' = [held EXCEPT ![c] = Nothing(c)]
      /\ UNCHANGED <<review, incident, links, decidedAt, lane>>
  BY DEF Lands, ReviewInv, Goto, Holds
<1>2. StoredInv' /\ Grows
  BY <1>1, DecidedEffect
<1>3. LaneTypeOK'
  <2>1. held' \in [Calls -> Holding]
    BY <1>1, EmptyHanded DEF LaneTypeOK
  <2>2. pc' \in [Calls -> Waiting \cup {"new", "answered", "rejected", "sent"}]
    BY <1>1 DEF LaneTypeOK
  <2> QED BY <1>1, <2>1, <2>2 DEF LaneTypeOK
<1>4. LaneInv'
  <2>1. \A d \in Calls : pc'[d] = IF d = c THEN "rejected" ELSE pc[d]
    BY <1>1 DEF LaneTypeOK
  <2>2. \A d \in Calls : pc'[d] \in Waiting <=> pc[d] \in Waiting
    BY <1>1, <2>1 DEF Waiting, Working
  <2>3. \A n \in DOMAIN lane : lane[n] \in Calls
    BY <1>1 DEF LaneTypeOK
  <2>4. \A n \in DOMAIN lane : n > 1 => pc'[lane[n]] = "queued"
    BY <1>1, <2>1, <2>3 DEF LaneInv
  <2> QED BY <1>1, <2>2, <2>4 DEF LaneInv
<1>5. CallInv(c)'
  <2>1. /\ Backed(Nothing(c).row, review') /\ Nothing(c).row.observed = 0
        /\ Nothing(c).at = 0 /\ Nothing(c).source = Key[c] /\ Key[c] \in Keys
    BY EmptyHanded, CallsHaveTypes
  <2>2. pc'[c] = "rejected" /\ held'[c] = Nothing(c) /\ finding'.observed \in Nat
    BY <1>1, <1>2 DEF LaneTypeOK, StoredInv, Backed, Row
  <2>3. /\ Backed(held'[c].row, review')
        /\ held'[c].row.observed <= finding'.observed
        /\ held'[c].at \in Nat /\ held'[c].source = Key[c] /\ Key[c] \in Keys
    BY <2>1, <2>2
  <2> QED BY <1>1, <2>2, <2>3 DEF CallInv, Reviewing
<1>6. ASSUME NEW d \in Calls, d # c PROVE CallInv(d)'
  <2>1. CallInv(d) /\ pc'[d] = pc[d] /\ held'[d] = held[d]
    BY <1>1, <1>6 DEF ReviewInv, LaneTypeOK
  <2> QED BY <1>1, <1>2, <2>1, CallStays
<1> QED BY <1>2, <1>3, <1>4, <1>5, <1>6 DEF ReviewInv

LEMMA StepHolds ==
  ASSUME ReviewInv, [Next]_vars
  PROVE  ReviewInv'
<1>1. ASSUME NEW t \in ScanTimes, Scan(t) PROVE ReviewInv'
  BY <1>1, ScanHolds
<1>2. ASSUME NEW c \in Calls, Arrive(c) PROVE ReviewInv'
  BY <1>2, ArriveHolds
<1>3. ASSUME NEW c \in Calls, Settle(c) PROVE ReviewInv'
  BY <1>3, ReadHolds, IdentifyHolds, RecordHolds, DecideHolds, DecisionLostHolds,
     RereadHolds, ConfirmHolds, LinkHolds, ConnectHolds, FailsHolds DEF Settle
<1>4. ASSUME NEW c \in Calls, Lands(c) PROVE ReviewInv'
  BY <1>4, LandsHolds
<1>5. CASE Stop
  BY <1>5, StopHolds
<1>6. CASE UNCHANGED vars
  <2>1. StoredInv' /\ Grows
    BY <1>6, RowsStay DEF ReviewInv, vars
  <2>2. LaneTypeOK' /\ LaneInv'
    BY <1>6 DEF ReviewInv, LaneTypeOK, LaneInv, vars, process
  <2>3. \A c \in Calls : CallInv(c)'
    BY <1>6, <2>1, CallStays DEF ReviewInv, vars, process, rows
  <2> QED BY <2>1, <2>2, <2>3 DEF ReviewInv
<1> QED BY <1>1, <1>2, <1>3, <1>4, <1>5, <1>6 DEF Next

(* The invariant of dismissFinding and promoteFinding.                     *)
THEOREM ReviewInvariant == Spec => []ReviewInv
<1>1. ReviewInv /\ [Next]_vars => ReviewInv'
  BY StepHolds
<1> QED BY InitHolds, <1>1, PTL DEF Spec

(* The types, with what serializer and validator demand of a finding.      *)
LEMMA ReviewsTyped ==
  ASSUME ReviewInv
  PROVE  ReviewTypeOK
<1>1. \A k \in Keys : (review[k] = NoReview) = (review[k].at = 0)
  BY DEF ReviewInv, StoredInv, ReviewRow, NoReview
<1>2. /\ finding \in Row /\ Decided(finding) = (finding.decided # 0)
      /\ Decided(finding) = (finding.reason # NoRequest)
  BY DEF ReviewInv, StoredInv, Backed
<1>3. \A c \in Calls : held[c].row \in Row /\ held[c].source \in Keys
  BY DEF ReviewInv, CallInv, Backed
<1> QED BY <1>1, <1>2, <1>3 DEF ReviewInv, LaneTypeOK, StoredInv, ReviewTypeOK

LEMMA DecisionsBacked ==
  ASSUME ReviewInv
  PROVE  ReviewsAreBacked
<1>1. DecisionIsBacked
  BY DEF ReviewInv, StoredInv, Backed, DecisionIsBacked, Confirms
<1>2. OneReviewPerKey
  <2>1. \A c \in Calls : pc[c] = "answered" => review[Key[c]].request = Request[c]
    BY DEF ReviewInv, CallInv, Reviewing, SameReview
  <2> QED BY <2>1 DEF OneReviewPerKey
<1> QED BY <1>1, <1>2 DEF ReviewsAreBacked

LEMMA AnswersInGraph ==
  ASSUME ReviewInv
  PROVE  AnswerIsInGraph
<1> SUFFICES ASSUME NEW c \in Calls, pc[c] = "answered"
             PROVE  IF Action[c] = "dismiss" THEN Key[c] \in links
                    ELSE /\ Affects \in links /\ incident # NoIncident
                         /\ \A k \in incident.by : review[k].action = "promote"
                         /\ \E k \in links \ {Affects} : review[k].action = "promote"
  BY DEF AnswerIsInGraph
<1>1. InGraph(c) /\ \A k \in incident.by : review[k].action = "promote"
  BY DEF ReviewInv, CallInv, StoredInv
<1>2. incident.observed > 0 => incident # NoIncident
  BY DEF NoIncident
<1> QED BY <1>1, <1>2 DEF InGraph

(* A decided finding names exactly one stored review, of the same action,  *)
(* reason and time; and all that was answered under a key is one request.  *)
THEOREM ReviewsAreBackedHolds == Spec => []ReviewsAreBacked
<1> QED BY ReviewInvariant, DecisionsBacked, PTL

(* What an analyst was told is in the graph, whatever failed on the way.   *)
THEOREM AnswerIsInGraphHolds == Spec => []AnswerIsInGraph
<1> QED BY ReviewInvariant, AnswersInGraph, PTL

(* Only the compare-and-set decides, over the row that was read: a scan    *)
(* that came in meanwhile makes it fail, and the second write of the       *)
(* finding, with the graph of its review, never gets past a newer one.     *)
LEMMA DecisionStep ==
  ASSUME ReviewInv, [Next]_vars, ~Decided(finding), Decided(finding')
  PROVE  finding'.detected = finding.detected
<1>1. ASSUME NEW c \in Calls, pc[c] \in {"deciding", "sent"}, Unchanged(c),
             finding' = Reviewed(c)
      PROVE  finding'.detected = finding.detected
  BY <1>1, ReviewedIsBacked DEF ReviewInv, Unchanged
<1>2. finding' # finding
  OBVIOUS
<1>3. ~\E t \in ScanTimes : Scan(t)
  BY DEF Scan, Detected, NotFound, Decided
<1>4. ASSUME NEW c \in Calls, Settle(c) PROVE finding'.detected = finding.detected
  <2>1. CASE Decide(c)
    BY <1>1, <2>1 DEF Decide, At
  <2>2. CASE Fails(c)
    BY <1>1, <1>2, <2>2 DEF Fails, rows
  <2>3. ~Link(c)
    BY <1>2, LinkEffect DEF ReviewInv
  <2>4. ~(Read(c) \/ Identify(c) \/ Record(c) \/ DecisionLost(c) \/ Reread(c)
            \/ Confirm(c) \/ Connect(c))
    BY <1>2 DEF Read, Identify, Record, DecisionLost, Reread, Confirm, Connect, rows
  <2> QED BY <1>4, <2>1, <2>2, <2>3, <2>4 DEF Settle
<1>5. ASSUME NEW c \in Calls, Lands(c) PROVE finding'.detected = finding.detected
  BY <1>1, <1>5 DEF Lands
<1>6. ~(\E c \in Calls : Arrive(c)) /\ ~Stop /\ ~UNCHANGED vars
  BY <1>2 DEF Arrive, Stop, vars, rows
<1> QED BY <1>3, <1>4, <1>5, <1>6 DEF Next

(* In whatever order a scan, a review and their retries reach HydraDB.     *)
THEOREM DecidesWhatWasReadHolds == Spec => DecidesWhatWasRead
<1>1. ReviewInv /\ [Next]_vars =>
        [~Decided(finding) /\ Decided(finding') =>
           finding'.detected = finding.detected]_vars
  BY DecisionStep
<1> QED BY ReviewInvariant, <1>1, PTL DEF Spec, DecidesWhatWasRead

-----------------------------------------------------------------------------
(* The detector.  First: numbers, rankings, and what is computed step by   *)
(* step.                                                                   *)
LEMMA LeastNumber ==
  ASSUME NEW T, T \subseteq Nat, T # {}
  PROVE  \E x \in T : \A y \in T : x <= y
<1>1. IsWellFoundedOn(OpToRel(<, Nat), Nat)
  BY NatLessThanWellFounded
<1>2. PICK x \in T : \A y \in T : ~(<<y, x>> \in OpToRel(<, Nat))
  BY <1>1, WFMin
<1>3. \A y \in T : ~(y < x)
  BY <1>2 DEF OpToRel
<1> QED
  BY <1>3

(* What holds of 0 and passes from each number to the next holds of all up *)
(* to a bound.                                                             *)
LEMMA UpTo ==
  ASSUME NEW n \in Nat, NEW G, 0 \in G, \A k \in 0..n : k \in G /\ k < n => k + 1 \in G
  PROVE  0..n \subseteq G
<1> DEFINE Bad == {k \in 0..n : k \notin G}
<1>1. Bad = {}
  <2> SUFFICES ASSUME Bad # {} PROVE FALSE
    OBVIOUS
  <2>0. Bad \subseteq Nat
    OBVIOUS
  <2>1. PICK x \in Bad : \A y \in Bad : x <= y
    <3> HIDE DEF Bad
    <3> QED
      BY <2>0, LeastNumber
  <2>2. x # 0 /\ x \in 0..n
    BY <2>1
  <2>3. x - 1 \in 0..n /\ x - 1 < n /\ x - 1 \notin Bad
    BY <2>1, <2>2
  <2>4. x - 1 + 1 \in G
    BY <2>3
  <2> QED
    BY <2>1, <2>2, <2>4
<1> QED
  BY <1>1

LEMMA SequenceRange ==
  ASSUME NEW S, NEW q \in Seq(S)
  PROVE  /\ Range(q) \subseteq S
         /\ \A T : Range(q) \subseteq T => q \in Seq(T)
<1>1. Len(q) \in Nat /\ DOMAIN q = 1..Len(q) /\ q = [i \in 1..Len(q) |-> q[i]]
      /\ \A i \in 1..Len(q) : q[i] \in S
  OBVIOUS
<1>2. Range(q) \subseteq S
  BY <1>1 DEF Range
<1>3. ASSUME NEW T, Range(q) \subseteq T PROVE q \in Seq(T)
  <2>1. \A i \in 1..Len(q) : q[i] \in T
    BY <1>1, <1>3 DEF Range
  <2>2. q \in [1..Len(q) -> T]
    BY <1>1, <2>1
  <2> QED
    BY <1>1, <2>2
<1> QED
  BY <1>2, <1>3

(* A subset is no larger, and smaller when something is missing.           *)
LEMMA SubsetSize ==
  ASSUME NEW S, IsFiniteSet(S), NEW T, T \subseteq S
  PROVE  /\ IsFiniteSet(T) /\ Cardinality(T) \in Nat /\ Cardinality(S) \in Nat
         /\ Cardinality(T) <= Cardinality(S)
         /\ T # S => Cardinality(T) < Cardinality(S)
<1>1. T \in SUBSET S
  OBVIOUS
<1>2. /\ IsFiniteSet(T) /\ Cardinality(T) <= Cardinality(S)
      /\ Cardinality(S) = Cardinality(T) => S = T
  BY <1>1, FS_Subset
<1>3. Cardinality(T) \in Nat /\ Cardinality(S) \in Nat
  BY <1>2, FS_CardinalityType
<1> QED
  BY <1>2, <1>3

(* A strict order of a finite set lists it, each of its members once.      *)
OnceOnly(q) == \A i, j \in DOMAIN q : q[i] = q[j] => i = j
StrictOrder(B, S) ==
  /\ \A n \in S : <<n, n>> \notin B
  /\ \A m, n \in S : m # n => <<m, n>> \in B \/ <<n, m>> \in B
  /\ \A k, m, n \in S : <<k, m>> \in B /\ <<m, n>> \in B => <<k, n>> \in B
BelowIn(B, S, n) == {m \in S : <<m, n>> \in B}
RankedBy(B, S, q) ==
  /\ q = [i \in 1..Cardinality(S) |-> q[i]]
  /\ \A i \in 1..Cardinality(S) : (\E n \in S : Cardinality(BelowIn(B, S, n)) = i - 1)
        => q[i] \in S /\ Cardinality(BelowIn(B, S, q[i])) = i - 1

LEMMA RankFacts ==
  ASSUME NEW S, IsFiniteSet(S), NEW B, StrictOrder(B, S), NEW q, RankedBy(B, S, q)
  PROVE  q \in Seq(S) /\ Range(q) = S /\ Len(q) = Cardinality(S) /\ OnceOnly(q)
<1> DEFINE Below(n) == BelowIn(B, S, n)
           rank == [n \in S |-> Cardinality(Below(n))]
           size == Cardinality(S)
<1>1. \A n \in S : IsFiniteSet(Below(n)) /\ rank[n] \in Nat /\ rank[n] < size
  <2> TAKE n \in S
  <2>1. Below(n) \subseteq S /\ Below(n) # S
    BY DEF StrictOrder, BelowIn
  <2> HIDE DEF Below
  <2> QED
    BY <2>1, SubsetSize
<1>2. \A m, n \in S : <<m, n>> \in B => rank[m] < rank[n]
  <2> SUFFICES ASSUME NEW m \in S, NEW n \in S, <<m, n>> \in B PROVE rank[m] < rank[n]
    OBVIOUS
  <2>1. Below(m) \subseteq Below(n) /\ m \in Below(n) /\ m \notin Below(m)
    BY DEF StrictOrder, BelowIn
  <2>2. IsFiniteSet(Below(n)) /\ Below(m) # Below(n)
    BY <1>1, <2>1
  <2> HIDE DEF Below
  <2> QED
    BY <2>1, <2>2, SubsetSize
<1>3. \A m, n \in S : rank[m] = rank[n] => m = n
  <2> SUFFICES ASSUME NEW m \in S, NEW n \in S, rank[m] = rank[n], m # n PROVE FALSE
    OBVIOUS
  <2>1. <<m, n>> \in B \/ <<n, m>> \in B
    BY DEF StrictOrder
  <2>2. rank[m] \in Nat /\ rank[n] \in Nat
    BY <1>1
  <2>3. rank[m] < rank[n] \/ rank[n] < rank[m]
    BY <1>2, <2>1
  <2> HIDE DEF rank
  <2> QED
    BY <2>2, <2>3
<1>4. size \in Nat
  BY FS_CardinalityType
<1> DEFINE Ranks == 0..(size - 1)
<1>5. rank \in [S -> Ranks]
  BY <1>1, <1>4
<1>6. IsFiniteSet(Ranks) /\ Cardinality(Ranks) = size
  <2> HIDE DEF size
  <2> QED
    BY <1>4, FS_Interval
<1>7. rank \in Injection(S, Ranks)
  <2> HIDE DEF rank, Ranks
  <2> QED
    BY <1>3, <1>5 DEF Injection, IsInjective
<1>8. rank \in Surjection(S, Ranks)
  <2> HIDE DEF rank, Ranks
  <2> QED
    BY <1>6, <1>7, FS_Injection
<1>9. \A k \in Ranks : \E n \in S : rank[n] = k
  <2> HIDE DEF rank, Ranks
  <2> QED
    BY <1>8 DEF Surjection
<1>10. /\ q = [i \in 1..size |-> q[i]]
       /\ \A i \in 1..size : (\E n \in S : rank[n] = i - 1) => q[i] \in S /\ rank[q[i]] = i - 1
  BY DEF RankedBy
<1>11. \A i \in 1..size : q[i] \in S /\ rank[q[i]] = i - 1
  <2> TAKE i \in 1..size
  <2>1. i - 1 \in Ranks
    BY <1>4
  <2>2. \E n \in S : rank[n] = i - 1
    BY <1>9, <2>1
  <2> HIDE DEF rank, size
  <2> QED
    BY <1>10, <2>2
<1>12. q \in [1..size -> S]
  <2> HIDE DEF Below, size, rank
  <2> QED
    BY <1>10, <1>11
<1>13. q \in Seq(S) /\ DOMAIN q = 1..size /\ Len(q) = size
  <2> HIDE DEF size
  <2> QED
    BY <1>4, <1>12
<1>14. S \subseteq Range(q)
  <2> SUFFICES ASSUME NEW n \in S PROVE \E i \in 1..size : q[i] = n
    BY <1>13 DEF Range
  <2>1. rank[n] + 1 \in 1..size /\ (rank[n] + 1) - 1 = rank[n]
    <3>1. rank[n] \in Nat /\ rank[n] < size
      BY <1>1
    <3> HIDE DEF rank, size
    <3> QED
      BY <1>4, <3>1
  <2>2. q[rank[n] + 1] = n
    <3> HIDE DEF rank, size
    <3> QED
      BY <1>3, <1>11, <2>1
  <2> HIDE DEF rank, size
  <2> QED
    BY <2>1, <2>2
<1>15. OnceOnly(q)
  <2> SUFFICES ASSUME NEW i \in 1..size, NEW j \in 1..size, q[i] = q[j] PROVE i = j
    BY <1>13 DEF OnceOnly
  <2>1. i - 1 = j - 1
    BY <1>11
  <2> HIDE DEF size
  <2> QED
    BY <1>4, <2>1
<1> QED
  BY <1>13, <1>14, <1>15, SequenceRange

-----------------------------------------------------------------------------
(* The recursive functions of the detector are of one form, a step that is *)
(* done again and again; `how` says which.                                 *)
Redone(how, i, s) ==
  CASE how.of = "compact" -> KeepUnless(s, how.base[i])
    [] how.of = "row" -> Further(how.s, how.t, how.i, how.before, s, i)
    [] how.of = "rows" -> NextRows(how.s, how.t, i, s)
    [] how.of = "assign" -> Deeper(how.categories, s)
    [] how.of = "count" -> Counted(how.categories, s, how.list[i])

Redoes(f, N, B, how) == f = [i \in 0..N |-> IF i = 0 THEN B ELSE Redone(how, i, f[i - 1])]
Unwinds(f, N, B, how) == f[0] = B /\ \A i \in 1..N : f[i] = Redone(how, i, f[i - 1])

LEMMA RedoneAgain ==
  ASSUME NEW N \in Nat, NEW B, NEW how
  PROVE  \E f : Redoes(f, N, B, how)
<1> DEFINE F(f, n) == [i \in 0..n |-> IF i = 0 THEN B ELSE Redone(how, i, f[i - 1])]
           G == {n \in 0..N : \E f : f = F(f, n)}
<1>1. 0 \in G
  <2> DEFINE f == [i \in 0..0 |-> B]
  <2>0. \A i \in 0..0 : i = 0
    OBVIOUS
  <2>1. f = F(f, 0)
    BY <2>0
  <2>2. 0 \in 0..N
    OBVIOUS
  <2> QED
    BY <2>1, <2>2
<1>2. ASSUME NEW n \in 0..N, n \in G, n < N PROVE n + 1 \in G
  <2>1. PICK f : f = F(f, n)
    BY <1>2
  <2> DEFINE h == [i \in 0..(n + 1) |-> IF i <= n THEN f[i] ELSE Redone(how, n + 1, f[n])]
  <2>2. \A i \in 0..n : f[i] = IF i = 0 THEN B ELSE Redone(how, i, f[i - 1])
    <3> TAKE i \in 0..n
    <3>1. F(f, n)[i] = IF i = 0 THEN B ELSE Redone(how, i, f[i - 1])
      OBVIOUS
    <3> QED
      BY <2>1, <3>1
  <2>3. \A i \in 0..(n + 1) : h[i] = IF i = 0 THEN B ELSE Redone(how, i, h[i - 1])
    <3> TAKE i \in 0..(n + 1)
    <3>1. CASE i = 0
      <4>1. 0 \in 0..n /\ 0 \in 0..(n + 1) /\ 0 <= n
        OBVIOUS
      <4>2. f[0] = B
        BY <4>1, <2>2
      <4>3. h[0] = f[0]
        BY <4>1
      <4> QED
        BY <3>1, <4>2, <4>3
    <3>2. CASE i # 0 /\ i <= n
      <4>1. i \in 0..n /\ i - 1 \in 0..(n + 1) /\ i - 1 <= n
        BY <3>2
      <4>2. h[i] = f[i] /\ h[i - 1] = f[i - 1]
        BY <3>2, <4>1
      <4> QED
        BY <3>2, <4>1, <4>2, <2>2
    <3>3. CASE i = n + 1
      <4>1. ~(i <= n) /\ i - 1 = n /\ n \in 0..(n + 1) /\ i # 0 /\ n <= n
        BY <3>3
      <4>2. h[i] = Redone(how, n + 1, f[n]) /\ h[i - 1] = f[n]
        BY <4>1
      <4> QED
        BY <3>3, <4>1, <4>2
    <3> QED
      BY <3>1, <3>2, <3>3
  <2>4. h = F(h, n + 1)
    <3> HIDE DEF h
    <3>1. h = [i \in 0..(n + 1) |-> h[i]]
      BY DEF h
    <3> QED
      BY <2>3, <3>1
  <2>5. n + 1 \in 0..N
    BY <1>2
  <2> QED
    BY <2>4, <2>5
<1>3. N \in G
  <2> HIDE DEF G
  <2>1. 0..N \subseteq G
    BY <1>1, <1>2, UpTo
  <2> QED
    BY <2>1
<1> QED
  BY <1>3 DEF Redoes

LEMMA RedoesUnwinds ==
  ASSUME NEW N \in Nat, NEW B, NEW how, NEW f, Redoes(f, N, B, how)
  PROVE  Unwinds(f, N, B, how)
<1> DEFINE F == [i \in 0..N |-> IF i = 0 THEN B ELSE Redone(how, i, f[i - 1])]
<1>1. f = F
  BY DEF Redoes
<1>2. F[0] = B
  OBVIOUS
<1>3. \A i \in 1..N : F[i] = Redone(how, i, f[i - 1])
  <2> TAKE i \in 1..N
  <2>1. i \in 0..N /\ i # 0
    OBVIOUS
  <2> QED
    BY <2>1
<1> HIDE DEF F
<1> QED
  BY <1>1, <1>2, <1>3 DEF Unwinds

CompactHow(base) == [of |-> "compact", base |-> base]
RowHow(s, t, i, before) == [of |-> "row", s |-> s, t |-> t, i |-> i, before |-> before]
RowsHow(s, t) == [of |-> "rows", s |-> s, t |-> t]
AssignHow(categories) == [of |-> "assign", categories |-> categories]
CountHow(categories, list) == [of |-> "count", categories |-> categories, list |-> list]

LEMMA HowsRedo ==
  /\ \A base, i, k : Redone(CompactHow(base), i, k) = KeepUnless(k, base[i])
  /\ \A s, t, i, before, j, row : Redone(RowHow(s, t, i, before), j, row) = Further(s, t, i, before, row, j)
  /\ \A s, t, i, before : Redone(RowsHow(s, t), i, before) = NextRows(s, t, i, before)
  /\ \A categories, n, A : Redone(AssignHow(categories), n, A) = Deeper(categories, A)
  /\ \A categories, list, i, s : Redone(CountHow(categories, list), i, s) = Counted(categories, s, list[i])
BY DEF Redone, CompactHow, RowHow, RowsHow, AssignHow, CountHow

LEMMA CompactRuns ==
  ASSUME NEW name, Len(name.base) \in Nat
  PROVE  \E f : /\ Unwinds(f, Len(name.base), <<>>, CompactHow(name.base))
                /\ Compact(name) = f[Len(name.base)]
<1> DEFINE N == Len(name.base)
           how == CompactHow(name.base)
           F(f) == [i \in 0..N |-> IF i = 0 THEN <<>> ELSE KeepUnless(f[i - 1], name.base[i])]
           kept == CHOOSE f : f = F(f)
<1>1. Compact(name) = kept[N]
  BY DEF Compact
<1> HIDE DEF N, how
<1>2. \A f : f = F(f) <=> Redoes(f, N, <<>>, how)
  BY HowsRedo DEF Redoes, how
<1>3. \E f : f = F(f)
  BY <1>2, RedoneAgain DEF N
<1>4. kept = F(kept)
  BY <1>3
<1>5. Redoes(kept, N, <<>>, how)
  BY <1>2, <1>4
<1> HIDE DEF kept
<1>6. Unwinds(kept, N, <<>>, how)
  BY <1>5, RedoesUnwinds DEF N
<1> QED
  BY <1>1, <1>6 DEF N, how

First100(t) == [j \in 1..(Len(t) + 1) |-> 100 * (j - 1)]

Deletions(i) == <<100 * i>>

LEMMA NextRowsRuns ==
  ASSUME NEW s, NEW t, NEW i, NEW before, Len(t) \in Nat
  PROVE  \E f : /\ Unwinds(f, Len(t), Deletions(i), RowHow(s, t, i, before))
                /\ NextRows(s, t, i, before) = <<before[2], f[Len(t)]>>
<1> DEFINE N == Len(t)
           how == RowHow(s, t, i, before)
           B == Deletions(i)
           F(f) == [j \in 0..N |-> IF j = 0 THEN B ELSE Further(s, t, i, before, f[j - 1], j)]
           row == CHOOSE f : f = F(f)
<1>1. NextRows(s, t, i, before) = <<before[2], row[N]>>
  BY DEF NextRows, Deletions
<1> HIDE DEF N, how, B
<1>2. \A f : f = F(f) <=> Redoes(f, N, B, how)
  BY HowsRedo DEF Redoes, how
<1>3. \E f : f = F(f)
  BY <1>2, RedoneAgain DEF N
<1>4. row = F(row)
  BY <1>3
<1>5. Redoes(row, N, B, how)
  BY <1>2, <1>4
<1> HIDE DEF row
<1>6. Unwinds(row, N, B, how)
  BY <1>5, RedoesUnwinds DEF N
<1> QED
  BY <1>1, <1>6 DEF N, how, B

LEMMA CostRuns ==
  ASSUME NEW s, NEW t, Len(s) \in Nat
  PROVE  \E f : /\ Unwinds(f, Len(s), <<First100(t), First100(t)>>, RowsHow(s, t))
                /\ Cost(s, t) = f[Len(s)][2][Len(t) + 1]
<1> DEFINE N == Len(s)
           how == RowsHow(s, t)
           B == <<First100(t), First100(t)>>
           F(f) == [i \in 0..N |-> IF i = 0 THEN B ELSE NextRows(s, t, i, f[i - 1])]
           before == CHOOSE f : f = F(f)
<1>1. Cost(s, t) = before[N][2][Len(t) + 1]
  BY DEF Cost, First100
<1> HIDE DEF N, how, B
<1>2. \A f : f = F(f) <=> Redoes(f, N, B, how)
  BY HowsRedo DEF Redoes, how
<1>3. \E f : f = F(f)
  BY <1>2, RedoneAgain DEF N
<1>4. before = F(before)
  BY <1>3
<1>5. Redoes(before, N, B, how)
  BY <1>2, <1>4
<1> HIDE DEF before
<1>6. Unwinds(before, N, B, how)
  BY <1>5, RedoesUnwinds DEF N
<1> QED
  BY <1>1, <1>6 DEF N, how, B

Deepest(categories) ==
  (Cardinality(Concerned(categories)) + 1) * (Cardinality(Concerned(categories)) + 1)

LEMMA AssignRuns ==
  ASSUME NEW categories, Deepest(categories) \in Nat
  PROVE  \E f : /\ Unwinds(f, Deepest(categories), [a \in Assignments(categories) |-> a[3]],
                           AssignHow(categories))
                /\ AssignAll(categories) = f[Deepest(categories)]
<1> DEFINE N == Deepest(categories)
           how == AssignHow(categories)
           B == [a \in Assignments(categories) |-> a[3]]
           F(f) == [n \in 0..N |-> IF n = 0 THEN B ELSE Deeper(categories, f[n - 1])]
           all == CHOOSE f : f = F(f)
<1>1. AssignAll(categories) = all[N]
  BY DEF AssignAll, Deepest
<1> HIDE DEF N, how, B
<1>2. \A f : f = F(f) <=> Redoes(f, N, B, how)
  BY HowsRedo DEF Redoes, how
<1>3. \E f : f = F(f)
  BY <1>2, RedoneAgain DEF N
<1>4. all = F(all)
  BY <1>3
<1>5. Redoes(all, N, B, how)
  BY <1>2, <1>4
<1> HIDE DEF all
<1>6. Unwinds(all, N, B, how)
  BY <1>5, RedoesUnwinds DEF N
<1> QED
  BY <1>1, <1>6 DEF N, how, B

LEMMA CountRuns ==
  ASSUME NEW categories, Len(SetToSeq(DOMAIN categories)) \in Nat
  PROVE  \E f : /\ Unwinds(f, Len(SetToSeq(DOMAIN categories)), [owner |-> <<>>, count |-> 0],
                           CountHow(categories, SetToSeq(DOMAIN categories)))
                /\ IndependentCategories(categories) = f[Len(SetToSeq(DOMAIN categories))].count
<1> DEFINE list == SetToSeq(DOMAIN categories)
           N == Len(list)
           how == CountHow(categories, list)
           B == [owner |-> <<>>, count |-> 0]
           F(f) == [i \in 0..N |-> IF i = 0 THEN B ELSE Counted(categories, f[i - 1], list[i])]
           after == CHOOSE f : f = F(f)
<1>1. IndependentCategories(categories) = after[N].count
  BY DEF IndependentCategories
<1> HIDE DEF N, how, B, list
<1>2. \A f : f = F(f) <=> Redoes(f, N, B, how)
  BY HowsRedo DEF Redoes, how
<1>3. \E f : f = F(f)
  BY <1>2, RedoneAgain DEF N, list
<1>4. after = F(after)
  BY <1>3
<1>5. Redoes(after, N, B, how)
  BY <1>2, <1>4
<1> HIDE DEF after
<1>6. Unwinds(after, N, B, how)
  BY <1>5, RedoesUnwinds DEF N, list
<1> QED
  BY <1>1, <1>6 DEF N, how, B, list

-----------------------------------------------------------------------------
(* Categories that are counted as independent have evidence of their own.  *)
LEMMA ListFacts ==
  ASSUME NEW S, IsFiniteSet(S)
  PROVE  /\ SetToSeq(S) \in Seq(S) /\ Len(SetToSeq(S)) = Cardinality(S) /\ Cardinality(S) \in Nat
         /\ OnceOnly(SetToSeq(S))
<1> DEFINE n == Cardinality(S)
           list == SetToSeq(S)
<1>1. n \in Nat /\ ExistsBijection(1..n, S)
  BY FS_CardinalityType
<1> HIDE DEF n
<1>2. \E f \in [1..n -> S] : IsInjective(f)
  <2>1. PICK f : f \in Bijection(1..n, S)
    BY <1>1 DEF ExistsBijection
  <2>2. f \in [1..n -> S] /\ \A a, b \in 1..n : f[a] = f[b] => a = b
    BY <2>1 DEF Bijection, Injection, IsInjective
  <2> QED
    BY <2>2 DEF IsInjective
<1>3. list \in [1..n -> S] /\ IsInjective(list)
  BY <1>2 DEF SetToSeq, n
<1> HIDE DEF list
<1>4. list \in Seq(S) /\ Len(list) = n /\ DOMAIN list = 1..n
  BY <1>1, <1>3
<1> QED
  BY <1>1, <1>3, <1>4 DEF OnceOnly, IsInjective, n, list

Sane(categories) ==
  /\ IsFiniteSet(DOMAIN categories) /\ IsFiniteSet(Concerned(categories))

Owned(categories, owner) == \A e \in DOMAIN owner : e \in categories[owner[e]]

(* What becomes of a search that looks for evidence for c.                 *)
Assigned(categories, c, s, r) ==
  /\ r \in Searches(categories) /\ s.seen \subseteq r.seen
  /\ ~r.done => r.owner = s.owner
  /\ r.done =>
       /\ Owned(categories, s.owner) => Owned(categories, r.owner)
       /\ \E e \in DOMAIN r.owner : e \notin s.seen /\ r.owner[e] = c
       /\ \A e \in DOMAIN s.owner : e \in s.seen => e \in DOMAIN r.owner /\ r.owner[e] = s.owner[e]
       /\ Range(r.owner) = Range(s.owner) \cup {c}

LEMMA SearchFacts ==
  ASSUME NEW categories
  PROVE  \A s : s \in Searches(categories) <=>
           /\ s = [done |-> s.done, seen |-> s.seen, owner |-> s.owner]
           /\ s.done \in BOOLEAN /\ s.seen \subseteq Concerned(categories)
           /\ s.owner \in [DOMAIN s.owner -> DOMAIN categories]
           /\ DOMAIN s.owner \subseteq Concerned(categories)
<1> DEFINE C == Concerned(categories)
           D == DOMAIN categories
           O == UNION {[X -> D] : X \in SUBSET C}
<1> HIDE DEF C, D
<1>1. \A o : o \in O <=> o \in [DOMAIN o -> D] /\ DOMAIN o \subseteq C
  <2> TAKE o
  <2>1. ASSUME o \in O PROVE o \in [DOMAIN o -> D] /\ DOMAIN o \subseteq C
    <3>1. PICK X \in SUBSET C : o \in [X -> D]
      BY <2>1
    <3> QED
      BY <3>1
  <2>2. ASSUME o \in [DOMAIN o -> D], DOMAIN o \subseteq C PROVE o \in O
    BY <2>2
  <2> QED
    BY <2>1, <2>2
<1>2. Searches(categories) = [done : BOOLEAN, seen : SUBSET C, owner : O]
  BY DEF Searches, C, D
<1> HIDE DEF O
<1>3. \A s : s \in [done : BOOLEAN, seen : SUBSET C, owner : O] <=>
         /\ s = [done |-> s.done, seen |-> s.seen, owner |-> s.owner]
         /\ s.done \in BOOLEAN /\ s.seen \subseteq C /\ s.owner \in O
  OBVIOUS
<1> QED
  BY <1>1, <1>2, <1>3, Zenon DEF C, D

LEMMA TakeFacts ==
  ASSUME NEW categories, NEW s \in Searches(categories), NEW c \in DOMAIN categories,
         NEW e \in categories[c]
  PROVE  LET r == Take(s, e, c)
         IN  /\ r \in Searches(categories) /\ r.done /\ r.seen = s.seen
             /\ DOMAIN r.owner = DOMAIN s.owner \cup {e} /\ r.owner[e] = c
             /\ \A x \in DOMAIN s.owner : x # e => r.owner[x] = s.owner[x]
             /\ Owned(categories, s.owner) => Owned(categories, r.owner)
<1> DEFINE r == Take(s, e, c)
           o == [x \in DOMAIN s.owner \cup {e} |-> IF x = e THEN c ELSE s.owner[x]]
<1>1. /\ s = [done |-> s.done, seen |-> s.seen, owner |-> s.owner]
      /\ s.done \in BOOLEAN /\ s.seen \subseteq Concerned(categories)
      /\ s.owner \in [DOMAIN s.owner -> DOMAIN categories]
      /\ DOMAIN s.owner \subseteq Concerned(categories)
  BY SearchFacts
<1>2. r = [done |-> TRUE, seen |-> s.seen, owner |-> o]
  BY <1>1 DEF Take
<1>3. e \in Concerned(categories)
  BY DEF Concerned
<1>4. /\ DOMAIN o = DOMAIN s.owner \cup {e} /\ o[e] = c
      /\ \A x \in DOMAIN s.owner : x # e => o[x] = s.owner[x]
      /\ o \in [DOMAIN o -> DOMAIN categories]
  BY <1>1
<1>5. Owned(categories, s.owner) => Owned(categories, o)
  BY <1>4 DEF Owned
<1> HIDE DEF o
<1>6. r.owner = o /\ r.seen = s.seen /\ r.done = TRUE /\ r = [done |-> r.done, seen |-> r.seen, owner |-> r.owner]
  BY <1>2
<1> HIDE DEF r
<1>7. r \in Searches(categories)
  <2>1. DOMAIN r.owner \subseteq Concerned(categories)
    BY <1>1, <1>3, <1>4, <1>6
  <2>2. r.owner \in [DOMAIN r.owner -> DOMAIN categories]
    BY <1>4, <1>6
  <2>3. r.done \in BOOLEAN /\ r.seen \subseteq Concerned(categories)
    BY <1>1, <1>6
  <2> QED
    BY <1>6, <2>1, <2>2, <2>3, SearchFacts, Zenon
<1>8. r.done
  BY <1>6
<1> QED
  BY <1>4, <1>5, <1>6, <1>7, <1>8, Zenon DEF r

LEMMA TriedFacts ==
  ASSUME NEW categories, Sane(categories), NEW A,
         \A c \in DOMAIN categories, i \in Nat \ {0}, s \in Searches(categories) :
           ~s.done => Assigned(categories, c, s, A[<<c, i, s>>]),
         NEW c \in DOMAIN categories, NEW i \in Nat \ {0}, NEW s \in Searches(categories), ~s.done
  PROVE  Assigned(categories, c, s, Tried(categories, A, c, i, s))
<1> DEFINE list == SetToSeq(categories[c])
           e == list[i]
           looked == [done |-> FALSE, seen |-> s.seen \cup {e}, owner |-> s.owner]
           open == [done |-> TRUE, seen |-> s.seen \cup {e}, owner |-> s.owner]
           called == A[<<s.owner[e], 1, looked>>]
           freed == IF e \notin DOMAIN s.owner THEN open ELSE called
           r == Tried(categories, A, c, i, s)
<1>0. IsFiniteSet(categories[c])
  <2>1. categories[c] \subseteq Concerned(categories)
    BY DEF Concerned
  <2> QED
    BY <2>1, SubsetSize DEF Sane
<1>1. list \in Seq(categories[c])
  BY <1>0, ListFacts
<1>2. /\ s = [done |-> s.done, seen |-> s.seen, owner |-> s.owner]
      /\ s.done \in BOOLEAN /\ s.seen \subseteq Concerned(categories)
      /\ s.owner \in [DOMAIN s.owner -> DOMAIN categories]
      /\ DOMAIN s.owner \subseteq Concerned(categories)
  BY SearchFacts
<1>3. r = IF i > Len(list) THEN s
          ELSE IF e \in s.seen THEN A[<<c, i + 1, s>>]
          ELSE IF freed.done THEN Take(freed, e, c)
          ELSE A[<<c, i + 1, freed>>]
  BY DEF Tried
<1> HIDE DEF list, r
<1>4. CASE i > Len(list)
  <2>1. r = s
    BY <1>3, <1>4
  <2> QED
    BY <2>1 DEF Assigned, r
<1>5. CASE ~(i > Len(list)) /\ e \in s.seen
  <2>1. r = A[<<c, i + 1, s>>]
    BY <1>3, <1>5
  <2>2. i + 1 \in Nat \ {0}
    OBVIOUS
  <2> QED
    BY <2>1, <2>2 DEF r
<1>6. CASE ~(i > Len(list)) /\ e \notin s.seen
  <2>0. e \in categories[c] /\ e \in Concerned(categories)
    <3>1. e \in categories[c]
      BY <1>1, <1>6
    <3> QED
      BY <3>1 DEF Concerned
  <2> HIDE DEF e
  <2>1. /\ looked = [done |-> FALSE, seen |-> s.seen \cup {e}, owner |-> s.owner]
        /\ open = [done |-> TRUE, seen |-> s.seen \cup {e}, owner |-> s.owner]
    OBVIOUS
  <2> HIDE DEF looked, open
  <2>2. looked \in Searches(categories) /\ open \in Searches(categories)
    <3>1. /\ looked.done \in BOOLEAN /\ looked.seen = s.seen \cup {e} /\ looked.owner = s.owner
          /\ looked = [done |-> looked.done, seen |-> looked.seen, owner |-> looked.owner]
          /\ open.done \in BOOLEAN /\ open.seen = s.seen \cup {e} /\ open.owner = s.owner
          /\ open = [done |-> open.done, seen |-> open.seen, owner |-> open.owner]
      BY <2>1
    <3>2. s.seen \cup {e} \subseteq Concerned(categories)
      BY <1>2, <2>0
    <3> QED
      BY <1>2, <3>1, <3>2, SearchFacts
  <2>3. CASE e \notin DOMAIN s.owner
    <3>1. freed = open /\ open.done /\ open.owner = s.owner /\ open.seen = s.seen \cup {e}
      BY <2>1, <2>3
    <3>2. r = Take(open, e, c)
      BY <1>3, <1>6, <3>1 DEF e
    <3>3. /\ r \in Searches(categories) /\ r.done /\ r.seen = open.seen
          /\ DOMAIN r.owner = DOMAIN open.owner \cup {e} /\ r.owner[e] = c
          /\ \A x \in DOMAIN open.owner : x # e => r.owner[x] = open.owner[x]
          /\ Owned(categories, open.owner) => Owned(categories, r.owner)
      BY <2>0, <2>2, <3>2, TakeFacts
    <3>4. /\ DOMAIN r.owner = DOMAIN s.owner \cup {e} /\ r.owner[e] = c
          /\ \A x \in DOMAIN s.owner : r.owner[x] = s.owner[x]
          /\ r.seen = s.seen \cup {e}
          /\ Owned(categories, s.owner) => Owned(categories, r.owner)
      BY <2>3, <3>1, <3>3
    <3>5. Range(r.owner) = Range(s.owner) \cup {c}
      BY <3>4 DEF Range
    <3> HIDE DEF r
    <3> QED
      BY <1>6, <3>3, <3>4, <3>5 DEF Assigned, e, r
  <2>4. CASE e \in DOMAIN s.owner
    <3> DEFINE p == s.owner[e]
    <3>1. freed = called /\ p \in DOMAIN categories
      BY <1>2, <2>4
    <3>2. Assigned(categories, p, looked, called)
      <4>1. ~looked.done /\ 1 \in Nat \ {0}
        BY <2>1
      <4> HIDE DEF looked
      <4> QED
        BY <2>2, <3>1, <4>1
    <3>3. looked.owner = s.owner /\ looked.seen = s.seen \cup {e}
      BY <2>1
    <3> HIDE DEF called, freed, looked
    <3>4. CASE ~called.done
      <4>1. called \in Searches(categories) /\ s.seen \cup {e} \subseteq called.seen /\ called.owner = s.owner
        BY <3>2, <3>3, <3>4 DEF Assigned
      <4>2. r = A[<<c, i + 1, called>>] /\ i + 1 \in Nat \ {0}
        BY <1>3, <1>6, <3>1, <3>4 DEF e
      <4>3. Assigned(categories, c, called, r)
        BY <3>4, <4>1, <4>2
      <4>4. r \in Searches(categories) /\ s.seen \subseteq r.seen /\ (~r.done => r.owner = s.owner)
        BY <4>1, <4>3 DEF Assigned
      <4>5. ASSUME r.done
            PROVE  /\ Owned(categories, s.owner) => Owned(categories, r.owner)
                   /\ \E x \in DOMAIN r.owner : x \notin s.seen /\ r.owner[x] = c
                   /\ \A x \in DOMAIN s.owner : x \in s.seen => x \in DOMAIN r.owner /\ r.owner[x] = s.owner[x]
                   /\ Range(r.owner) = Range(s.owner) \cup {c}
        <5>1. /\ Owned(categories, called.owner) => Owned(categories, r.owner)
              /\ \E x \in DOMAIN r.owner : x \notin called.seen /\ r.owner[x] = c
              /\ \A x \in DOMAIN called.owner : x \in called.seen => x \in DOMAIN r.owner /\ r.owner[x] = called.owner[x]
              /\ Range(r.owner) = Range(called.owner) \cup {c}
          BY <4>3, <4>5 DEF Assigned
        <5> QED
          BY <4>1, <5>1
      <4> QED
        BY <4>4, <4>5 DEF Assigned, r
    <3>5. CASE called.done
      <4>1. /\ called \in Searches(categories) /\ s.seen \cup {e} \subseteq called.seen
            /\ Owned(categories, s.owner) => Owned(categories, called.owner)
            /\ \E x \in DOMAIN called.owner : x \notin s.seen \cup {e} /\ called.owner[x] = p
            /\ \A x \in DOMAIN s.owner : x \in s.seen \cup {e} => x \in DOMAIN called.owner /\ called.owner[x] = s.owner[x]
            /\ Range(called.owner) = Range(s.owner) \cup {p}
        BY <3>2, <3>3, <3>5 DEF Assigned
      <4>2. r = Take(called, e, c)
        BY <1>3, <1>6, <3>1, <3>5 DEF e
      <4>3. /\ r \in Searches(categories) /\ r.done /\ r.seen = called.seen
            /\ DOMAIN r.owner = DOMAIN called.owner \cup {e} /\ r.owner[e] = c
            /\ \A x \in DOMAIN called.owner : x # e => r.owner[x] = called.owner[x]
            /\ Owned(categories, called.owner) => Owned(categories, r.owner)
        BY <2>0, <4>1, <4>2, TakeFacts
      <4>4. p \in Range(s.owner)
        BY <2>4 DEF Range
      <4>5. Range(r.owner) \subseteq Range(s.owner) \cup {c}
        <5> SUFFICES ASSUME NEW x \in DOMAIN r.owner PROVE r.owner[x] \in Range(s.owner) \cup {c}
          BY DEF Range
        <5>1. CASE x = e
          BY <4>3, <5>1
        <5>2. CASE x # e
          <6>1. x \in DOMAIN called.owner /\ r.owner[x] = called.owner[x]
            BY <4>3, <5>2
          <6>2. called.owner[x] \in Range(called.owner)
            BY <6>1 DEF Range
          <6> QED
            BY <4>1, <4>4, <6>1, <6>2
        <5> QED
          BY <5>1, <5>2
      <4>6. Range(s.owner) \subseteq Range(r.owner)
        <5> SUFFICES ASSUME NEW x \in DOMAIN s.owner PROVE \E y \in DOMAIN r.owner : r.owner[y] = s.owner[x]
          BY DEF Range
        <5>1. PICK z \in DOMAIN called.owner : called.owner[z] = s.owner[x]
          <6>1. s.owner[x] \in Range(called.owner)
            BY <4>1 DEF Range
          <6> QED
            BY <6>1 DEF Range
        <5>2. PICK z2 \in DOMAIN called.owner : z2 \notin s.seen \cup {e} /\ called.owner[z2] = p
          BY <4>1
        <5>3. CASE z = e
          <6>1. called.owner[e] = p
            BY <2>4, <4>1
          <6>2. r.owner[z2] = s.owner[x]
            BY <4>3, <5>1, <5>2, <5>3, <6>1
          <6> QED
            BY <4>3, <5>2, <6>2
        <5>4. CASE z # e
          BY <4>3, <5>1, <5>4
        <5> QED
          BY <5>3, <5>4
      <4>7. c \in Range(r.owner)
        BY <4>3 DEF Range
      <4>8. \A x \in DOMAIN s.owner : x \in s.seen => x \in DOMAIN r.owner /\ r.owner[x] = s.owner[x]
        <5>1. e \notin s.seen
          BY <1>6 DEF e
        <5> QED
          BY <4>1, <4>3, <5>1
      <4>9. e \in DOMAIN r.owner /\ e \notin s.seen /\ r.owner[e] = c
        BY <1>6, <4>3 DEF e
      <4>10. s.seen \subseteq r.seen /\ (Owned(categories, s.owner) => Owned(categories, r.owner))
        BY <4>1, <4>3
      <4>11. Range(r.owner) = Range(s.owner) \cup {c}
        BY <4>5, <4>6, <4>7
      <4> QED
        BY <4>3, <4>8, <4>9, <4>10, <4>11 DEF Assigned, r
    <3> QED
      BY <3>4, <3>5
  <2> QED
    BY <2>3, <2>4
<1> QED
  BY <1>4, <1>5, <1>6

LEMMA AssignFacts ==
  ASSUME NEW categories, Sane(categories)
  PROVE  \A c \in DOMAIN categories, i \in Nat \ {0}, s \in Searches(categories) :
           ~s.done => Assigned(categories, c, s, AssignAll(categories)[<<c, i, s>>])
<1> DEFINE N == Deepest(categories)
<1>1. N \in Nat
  BY FS_CardinalityType DEF Sane, Deepest
<1>2. PICK f : /\ Unwinds(f, N, [a \in Assignments(categories) |-> a[3]], AssignHow(categories))
               /\ AssignAll(categories) = f[N]
  BY <1>1, AssignRuns
<1> DEFINE Right(A) == \A c \in DOMAIN categories, i \in Nat \ {0}, s \in Searches(categories) :
                         ~s.done => Assigned(categories, c, s, A[<<c, i, s>>])
           G == {n \in 0..N : Right(f[n])}
<1>3. \A c \in DOMAIN categories, i \in Nat \ {0}, s \in Searches(categories) :
        <<c, i, s>> \in Assignments(categories)
  BY DEF Assignments
<1>4. 0 \in G
  <2> SUFFICES ASSUME NEW c \in DOMAIN categories, NEW i \in Nat \ {0},
                      NEW s \in Searches(categories), ~s.done
               PROVE  Assigned(categories, c, s, f[0][<<c, i, s>>])
    BY <1>1
  <2>1. f[0] = [a \in Assignments(categories) |-> a[3]]
    BY <1>2 DEF Unwinds
  <2>2. f[0][<<c, i, s>>] = s
    BY <1>3, <2>1
  <2> QED
    BY <2>2 DEF Assigned
<1>5. ASSUME NEW n \in 0..N, n \in G, n < N PROVE n + 1 \in G
  <2>1. n + 1 \in 1..N /\ n + 1 \in 0..N /\ (n + 1) - 1 = n
    BY <1>1, <1>5
  <2>2. f[n + 1] = Deeper(categories, f[n])
    BY <1>2, <2>1, HowsRedo DEF Unwinds
  <2>3. Right(f[n])
    BY <1>5
  <2>4. ASSUME NEW c \in DOMAIN categories, NEW i \in Nat \ {0},
               NEW s \in Searches(categories), ~s.done
        PROVE  Assigned(categories, c, s, f[n + 1][<<c, i, s>>])
    <3>1. f[n + 1][<<c, i, s>>] = Tried(categories, f[n], c, i, s)
      BY <1>3, <2>2 DEF Deeper
    <3> QED
      BY <2>3, <2>4, <3>1, TriedFacts
  <2> QED
    BY <2>1, <2>4
<1>6. N \in G
  <2> HIDE DEF G, N
  <2>1. 0..N \subseteq G
    BY <1>1, <1>4, <1>5, UpTo
  <2> QED
    BY <1>1, <2>1
<1> HIDE DEF N
<1> QED
  BY <1>2, <1>6

(* After i categories: as many as were counted have evidence of their own, *)
(* as far as two.                                                          *)
Accounted(categories, list, i, s) ==
  /\ s.owner \in [DOMAIN s.owner -> DOMAIN categories] /\ DOMAIN s.owner \subseteq Concerned(categories)
  /\ s.count \in Nat /\ Owned(categories, s.owner)
  /\ \A c \in Range(s.owner) : \E j \in 1..i : list[j] = c
  /\ s.count >= 1 => Range(s.owner) # {}
  /\ s.count >= 2 => \E c, d \in Range(s.owner) : c # d

LEMMA CountedFacts ==
  ASSUME NEW categories, Sane(categories)
  PROVE  IndependentCategories(categories) >= 2 =>
           \E c, d \in DOMAIN categories : c # d /\
             \E e \in categories[c], f \in categories[d] : e # f
<1> DEFINE list == SetToSeq(DOMAIN categories)
           N == Len(list)
<1>1. list \in Seq(DOMAIN categories) /\ N \in Nat /\ OnceOnly(list)
  <2>1. IsFiniteSet(DOMAIN categories)
    BY DEF Sane
  <2> QED
    BY <2>1, ListFacts
<1>2. PICK f : /\ Unwinds(f, N, [owner |-> <<>>, count |-> 0], CountHow(categories, list))
               /\ IndependentCategories(categories) = f[N].count
  BY <1>1, CountRuns
<1> DEFINE G == {n \in 0..N : Accounted(categories, list, n, f[n])}
<1> HIDE DEF list, N
<1>3. 0 \in G
  <2>1. f[0] = [owner |-> <<>>, count |-> 0]
    BY <1>2 DEF Unwinds
  <2>2. f[0].owner = <<>> /\ f[0].count = 0
    BY <2>1
  <2>3. DOMAIN f[0].owner = {}
    BY <2>2
  <2>4. f[0].owner \in [DOMAIN f[0].owner -> DOMAIN categories]
    BY <2>2
  <2>5. Range(f[0].owner) = {}
    BY <2>3 DEF Range
  <2>6. \A s : s.owner \in [DOMAIN s.owner -> DOMAIN categories] /\ DOMAIN s.owner = {}
              /\ Range(s.owner) = {} /\ s.count = 0 => Accounted(categories, list, 0, s)
    BY DEF Accounted, Owned
  <2>7. Accounted(categories, list, 0, f[0])
    BY <2>2, <2>3, <2>4, <2>5, <2>6
  <2> QED
    BY <1>1, <2>7
<1>4. ASSUME NEW n \in 0..N, n \in G, n < N PROVE n + 1 \in G
  <2>1. n + 1 \in 1..N /\ n + 1 \in 0..N /\ (n + 1) - 1 = n
    BY <1>1, <1>4
  <2> DEFINE c == list[n + 1]
             s == f[n]
             begin == [done |-> FALSE, seen |-> {}, owner |-> s.owner]
             r == AssignAll(categories)[<<c, 1, begin>>]
  <2>2. f[n + 1] = Counted(categories, f[n], c)
    <3>1. f[n + 1] = Redone(CountHow(categories, list), n + 1, f[n])
      BY <1>2, <2>1 DEF Unwinds
    <3> QED
      BY <3>1, HowsRedo
  <2>3. c \in DOMAIN categories
    BY <1>1, <2>1 DEF N
  <2>4. Accounted(categories, list, n, s)
    BY <1>4
  <2> HIDE DEF c, s
  <2>5. begin \in Searches(categories) /\ ~begin.done /\ begin.owner = s.owner
    <3>1. /\ begin = [done |-> begin.done, seen |-> begin.seen, owner |-> begin.owner]
          /\ begin.done \in BOOLEAN /\ begin.seen \subseteq Concerned(categories) /\ begin.owner = s.owner
          /\ ~begin.done
      OBVIOUS
    <3> HIDE DEF begin
    <3> QED
      BY <2>4, <3>1, SearchFacts DEF Accounted
  <2>6. Assigned(categories, c, begin, r)
    <3>1. 1 \in Nat \ {0}
      OBVIOUS
    <3> HIDE DEF begin
    <3> QED
      BY <2>3, <2>5, <3>1, AssignFacts
  <2>7. f[n + 1].owner = r.owner /\ f[n + 1].count = IF r.done THEN s.count + 1 ELSE s.count
    BY <2>2 DEF Counted, s
  <2> HIDE DEF begin, r
  <2>8. CASE ~r.done
    <3>1. f[n + 1].owner = s.owner /\ f[n + 1].count = s.count
      BY <2>5, <2>6, <2>7, <2>8 DEF Assigned
    <3>2. \A x \in Range(s.owner) : \E j \in 1..(n + 1) : list[j] = x
      <4>1. \A j \in 1..n : j \in 1..(n + 1)
        OBVIOUS
      <4> QED
        BY <2>4, <4>1 DEF Accounted
    <3> QED
      BY <2>1, <2>4, <3>1, <3>2 DEF Accounted
  <2>9. CASE r.done
    <3>1. /\ r \in Searches(categories)
          /\ Owned(categories, s.owner) => Owned(categories, r.owner)
          /\ Range(r.owner) = Range(s.owner) \cup {c}
      BY <2>5, <2>6, <2>9 DEF Assigned
    <3>2. /\ r.owner \in [DOMAIN r.owner -> DOMAIN categories]
          /\ DOMAIN r.owner \subseteq Concerned(categories)
      BY <3>1, SearchFacts
    <3>3. c \notin Range(s.owner)
      <4> SUFFICES ASSUME c \in Range(s.owner) PROVE FALSE
        OBVIOUS
      <4>1. PICK j \in 1..n : list[j] = c
        BY <2>4 DEF Accounted
      <4>2. j \in DOMAIN list /\ n + 1 \in DOMAIN list /\ j # n + 1
        BY <1>1, <2>1 DEF N
      <4> QED
        BY <1>1, <4>1, <4>2 DEF OnceOnly, c
    <3>4. \A x \in Range(r.owner) : \E j \in 1..(n + 1) : list[j] = x
      <4>1. \A j \in 1..n : j \in 1..(n + 1)
        OBVIOUS
      <4>2. n + 1 \in 1..(n + 1)
        OBVIOUS
      <4> QED
        BY <2>4, <3>1, <4>1, <4>2 DEF Accounted, c
    <3>5. s.count \in Nat /\ Owned(categories, r.owner)
      BY <2>4, <3>1 DEF Accounted
    <3>6. f[n + 1].count = s.count + 1 /\ f[n + 1].owner = r.owner
      BY <2>7, <2>9
    <3>7. Range(r.owner) # {}
      BY <3>1
    <3>8. s.count + 1 >= 2 => \E x, y \in Range(r.owner) : x # y
      <4> SUFFICES ASSUME s.count + 1 >= 2 PROVE \E x, y \in Range(r.owner) : x # y
        OBVIOUS
      <4>1. s.count >= 1
        BY <3>5
      <4>2. PICK x : x \in Range(s.owner)
        BY <2>4, <4>1 DEF Accounted
      <4> QED
        BY <3>1, <3>3, <4>2
    <3>9. s.count + 1 \in Nat
      BY <3>5
    <3> QED
      BY <2>1, <3>2, <3>4, <3>5, <3>6, <3>7, <3>8, <3>9 DEF Accounted
  <2> QED
    BY <2>8, <2>9
<1>5. N \in G
  <2> HIDE DEF G
  <2>1. 0..N \subseteq G
    BY <1>1, <1>3, <1>4, UpTo
  <2> QED
    BY <1>1, <2>1
<1>6. Accounted(categories, list, N, f[N])
  BY <1>5
<1> SUFFICES ASSUME IndependentCategories(categories) >= 2
             PROVE  \E c, d \in DOMAIN categories : c # d /\
                      \E e \in categories[c], g \in categories[d] : e # g
  OBVIOUS
<1>7. PICK c \in Range(f[N].owner), d \in Range(f[N].owner) : c # d
  BY <1>2, <1>6 DEF Accounted
<1>8. PICK e \in DOMAIN f[N].owner, g \in DOMAIN f[N].owner : f[N].owner[e] = c /\ f[N].owner[g] = d
  BY <1>7 DEF Range
<1>9. c \in DOMAIN categories /\ d \in DOMAIN categories /\ e \in categories[c] /\ g \in categories[d]
  BY <1>6, <1>8 DEF Accounted, Owned
<1> QED
  BY <1>7, <1>8, <1>9

-----------------------------------------------------------------------------
(* Words, and words that are one letter shorter.                           *)
LEMMA RemoveFacts ==
  ASSUME NEW S, NEW q \in Seq(S), NEW i \in DOMAIN q
  PROVE  /\ RemoveAt(q, i) \in Seq(S) /\ Len(RemoveAt(q, i)) = Len(q) - 1
         /\ \A j \in 1..(Len(q) - 1) : RemoveAt(q, i)[j] = IF j < i THEN q[j] ELSE q[j + 1]
<1> DEFINE a == SubSeq(q, 1, i - 1)
           b == SubSeq(q, i + 1, Len(q))
<1>1. Len(q) \in Nat /\ i \in 1..Len(q) /\ \A j \in 1..Len(q) : q[j] \in S
  OBVIOUS
<1>2. a \in Seq(S) /\ Len(a) = i - 1 /\ \A j \in 1..(i - 1) : a[j] = q[j]
  <2>1. 1 \in Int /\ i - 1 \in Int /\ \A j \in 1..(i - 1) : q[j] \in S
    BY <1>1
  <2>2. /\ a \in Seq(S) /\ Len(a) = IF 1 <= i - 1 THEN (i - 1) - 1 + 1 ELSE 0
        /\ \A j \in 1..((i - 1) - 1 + 1) : a[j] = q[1 + j - 1]
    BY <2>1, SubSeqProperties
  <2>3. \A j \in 1..(i - 1) : 1 + j - 1 = j /\ j \in 1..((i - 1) - 1 + 1)
    BY <1>1
  <2> HIDE DEF a
  <2> QED
    BY <1>1, <2>2, <2>3
<1>3. b \in Seq(S) /\ Len(b) = Len(q) - i /\ \A j \in 1..(Len(q) - i) : b[j] = q[i + j]
  <2>1. i + 1 \in Int /\ Len(q) \in Int /\ \A j \in (i + 1)..Len(q) : q[j] \in S
    BY <1>1
  <2>2. /\ b \in Seq(S) /\ Len(b) = IF i + 1 <= Len(q) THEN Len(q) - (i + 1) + 1 ELSE 0
        /\ \A j \in 1..(Len(q) - (i + 1) + 1) : b[j] = q[(i + 1) + j - 1]
    BY <2>1, SubSeqProperties
  <2>3. \A j \in 1..(Len(q) - i) : (i + 1) + j - 1 = i + j /\ j \in 1..(Len(q) - (i + 1) + 1)
    BY <1>1
  <2> HIDE DEF b
  <2> QED
    BY <1>1, <2>2, <2>3
<1>4. RemoveAt(q, i) = a \o b
  BY DEF RemoveAt
<1> HIDE DEF a, b
<1>5. /\ a \o b \in Seq(S) /\ Len(a \o b) = Len(a) + Len(b)
      /\ \A j \in 1..(Len(a) + Len(b)) : (a \o b)[j] = IF j <= Len(a) THEN a[j] ELSE b[j - Len(a)]
  BY <1>2, <1>3, ConcatProperties
<1>6. ASSUME NEW j \in 1..(Len(q) - 1)
      PROVE  (a \o b)[j] = IF j < i THEN q[j] ELSE q[j + 1]
  <2>0. j \in 1..(Len(a) + Len(b)) /\ Len(a) = i - 1
    BY <1>1, <1>2, <1>3
  <2>1. CASE j < i
    BY <1>1, <1>2, <1>5, <2>0, <2>1
  <2>2. CASE ~(j < i)
    <3>1. j - (i - 1) \in 1..(Len(q) - i) /\ i + (j - (i - 1)) = j + 1 /\ ~(j <= i - 1)
      BY <1>1, <2>2
    <3>2. b[j - (i - 1)] = q[j + 1]
      BY <1>3, <3>1
    <3>3. (a \o b)[j] = b[j - (i - 1)]
      BY <1>5, <2>0, <3>1
    <3> QED
      BY <2>2, <3>2, <3>3
  <2> QED
    BY <2>1, <2>2
<1> QED
  BY <1>1, <1>2, <1>3, <1>4, <1>5, <1>6

LEMMA InsertFacts ==
  ASSUME NEW S, NEW q \in Seq(S), NEW i \in 1..(Len(q) + 1), NEW c \in S
  PROVE  /\ InsertAt(q, i, c) \in Seq(S) /\ Len(InsertAt(q, i, c)) = Len(q) + 1
         /\ \A j \in 1..(Len(q) + 1) :
              InsertAt(q, i, c)[j] = IF j < i THEN q[j] ELSE IF j = i THEN c ELSE q[j - 1]
<1> DEFINE a == SubSeq(q, 1, i - 1)
           b == SubSeq(q, i, Len(q))
<1>1. Len(q) \in Nat /\ \A j \in 1..Len(q) : q[j] \in S
  OBVIOUS
<1>2. a \in Seq(S) /\ Len(a) = i - 1 /\ \A j \in 1..(i - 1) : a[j] = q[j]
  <2>1. 1 \in Int /\ i - 1 \in Int /\ \A j \in 1..(i - 1) : q[j] \in S
    BY <1>1
  <2>2. /\ a \in Seq(S) /\ Len(a) = IF 1 <= i - 1 THEN (i - 1) - 1 + 1 ELSE 0
        /\ \A j \in 1..((i - 1) - 1 + 1) : a[j] = q[1 + j - 1]
    BY <2>1, SubSeqProperties
  <2>3. \A j \in 1..(i - 1) : 1 + j - 1 = j /\ j \in 1..((i - 1) - 1 + 1)
    BY <1>1
  <2> HIDE DEF a
  <2> QED
    BY <1>1, <2>2, <2>3
<1>3. b \in Seq(S) /\ Len(b) = Len(q) - i + 1 /\ \A j \in 1..(Len(q) - i + 1) : b[j] = q[i + j - 1]
  <2>1. i \in Int /\ Len(q) \in Int /\ \A j \in i..Len(q) : q[j] \in S
    BY <1>1
  <2>2. /\ b \in Seq(S) /\ Len(b) = IF i <= Len(q) THEN Len(q) - i + 1 ELSE 0
        /\ \A j \in 1..(Len(q) - i + 1) : b[j] = q[i + j - 1]
    BY <2>1, SubSeqProperties
  <2> HIDE DEF b
  <2> QED
    BY <1>1, <2>2
<1>4. InsertAt(q, i, c) = a \o <<c>> \o b
  BY DEF InsertAt
<1> HIDE DEF a, b
<1>5. a \o <<c>> = Append(a, c)
  BY <1>2
<1> DEFINE d == Append(a, c)
<1>6. d \in Seq(S) /\ Len(d) = i /\ d[i] = c /\ \A j \in 1..(i - 1) : d[j] = q[j]
  <2>1. d \in Seq(S) /\ Len(d) = Len(a) + 1 /\ d[Len(a) + 1] = c /\ \A j \in 1..Len(a) : d[j] = a[j]
    BY <1>2
  <2>2. Len(a) + 1 = i /\ 1..Len(a) = 1..(i - 1)
    BY <1>2
  <2> HIDE DEF d
  <2> QED
    BY <1>2, <2>1, <2>2
<1> HIDE DEF d
<1>7. /\ d \o b \in Seq(S) /\ Len(d \o b) = Len(d) + Len(b)
      /\ \A j \in 1..(Len(d) + Len(b)) : (d \o b)[j] = IF j <= Len(d) THEN d[j] ELSE b[j - Len(d)]
  BY <1>3, <1>6, ConcatProperties
<1>8. ASSUME NEW j \in 1..(Len(q) + 1)
      PROVE  (d \o b)[j] = IF j < i THEN q[j] ELSE IF j = i THEN c ELSE q[j - 1]
  <2>0. j \in 1..(Len(d) + Len(b)) /\ Len(d) = i /\ i \in Nat /\ j \in Nat
    BY <1>1, <1>3, <1>6
  <2>1. CASE j < i
    <3>1. j <= i /\ j \in 1..(i - 1)
      BY <2>0, <2>1
    <3>2. (d \o b)[j] = d[j] /\ d[j] = q[j]
      BY <1>6, <1>7, <2>0, <3>1
    <3> QED
      BY <2>1, <3>2
  <2>2. CASE j = i
    BY <1>1, <1>6, <1>7, <2>0, <2>2
  <2>3. CASE j > i
    <3>1. j - i \in 1..(Len(q) - i + 1) /\ i + (j - i) - 1 = j - 1 /\ ~(j <= i)
      BY <1>1, <2>3
    <3>2. b[j - i] = q[j - 1]
      BY <1>3, <3>1
    <3>3. (d \o b)[j] = b[j - i]
      BY <1>7, <2>0, <3>1
    <3> QED
      BY <2>3, <3>2, <3>3
  <2> QED
    BY <2>0, <2>1, <2>2, <2>3
<1> QED
  BY <1>1, <1>3, <1>4, <1>5, <1>6, <1>7, <1>8 DEF d

Swapped(q, i) == [q EXCEPT ![i] = q[i + 1], ![i + 1] = q[i]]

LEMMA SwapFacts ==
  ASSUME NEW S, NEW q \in Seq(S), NEW i \in 1..(Len(q) - 1)
  PROVE  /\ Swapped(q, i) \in Seq(S) /\ Len(Swapped(q, i)) = Len(q)
         /\ \A j \in 1..Len(q) :
              Swapped(q, i)[j] = IF j = i THEN q[i + 1] ELSE IF j = i + 1 THEN q[i] ELSE q[j]
<1>1. Len(q) \in Nat /\ q[i] \in S /\ q[i + 1] \in S /\ i \in 1..Len(q) /\ i + 1 \in 1..Len(q)
  OBVIOUS
<1> DEFINE r == [q EXCEPT ![i] = q[i + 1]]
<1>2. /\ r \in Seq(S) /\ Len(r) = Len(q)
      /\ \A j \in 1..Len(q) : r[j] = IF j = i THEN q[i + 1] ELSE q[j]
  BY <1>1, ExceptSeq
<1>3. Swapped(q, i) = [r EXCEPT ![i + 1] = q[i]]
  BY DEF Swapped
<1> HIDE DEF r
<1>4. /\ [r EXCEPT ![i + 1] = q[i]] \in Seq(S) /\ Len([r EXCEPT ![i + 1] = q[i]]) = Len(r)
      /\ \A j \in 1..Len(r) : [r EXCEPT ![i + 1] = q[i]][j] = IF j = i + 1 THEN q[i] ELSE r[j]
  <2>1. i + 1 \in 1..Len(r)
    BY <1>1, <1>2
  <2> QED
    BY <1>1, <1>2, <2>1, ExceptSeq
<1>5. \A j \in 1..Len(q) : j = i => j # i + 1
  OBVIOUS
<1> QED
  BY <1>2, <1>3, <1>4, <1>5

LEMMA ReplaceFacts ==
  ASSUME NEW S, NEW q \in Seq(S), NEW i \in DOMAIN q, NEW c \in S
  PROVE  /\ ReplaceAt(q, i, c) \in Seq(S) /\ Len(ReplaceAt(q, i, c)) = Len(q)
         /\ \A j \in 1..Len(q) : ReplaceAt(q, i, c)[j] = IF j = i THEN c ELSE q[j]
<1>1. i \in 1..Len(q)
  OBVIOUS
<1> QED
  BY <1>1, ExceptSeq DEF ReplaceAt

LEMMA ShorterFacts ==
  \A words, v : v \in Shorter(words) <=> \E w \in words : \E i \in DOMAIN w : v = RemoveAt(w, i)
BY DEF Shorter

Near(w) == {w} \cup Shorter({w})

LEMMA VariantFacts ==
  ASSUME NEW S, NEW w \in Seq(S)
  PROVE  /\ \A v : v \in Near(w) <=> v = w \/ \E i \in DOMAIN w : v = RemoveAt(w, i)
         /\ \A v \in Near(w) : \A x \in Near(v) : x \in DeletionVariants(w)
         /\ Near(w) \subseteq Seq(S) /\ DeletionVariants(w) \subseteq Seq(S)
<1>1. \A v : v \in Near(w) <=> v = w \/ \E i \in DOMAIN w : v = RemoveAt(w, i)
  BY ShorterFacts DEF Near
<1>2. \A v \in Near(w) : \A x \in Near(v) : x \in DeletionVariants(w)
  <2> SUFFICES ASSUME NEW v \in Near(w), NEW x, x \in Near(v) PROVE x \in DeletionVariants(w)
    OBVIOUS
  <2>1. CASE v = w
    BY <2>1 DEF Near, DeletionVariants
  <2>2. CASE v # w
    <3>1. v \in Shorter({w})
      BY <2>2 DEF Near
    <3>2. x = v \/ x \in Shorter(Shorter({w}))
      <4>1. x = v \/ \E i \in DOMAIN v : x = RemoveAt(v, i)
        BY ShorterFacts DEF Near
      <4> QED
        BY <3>1, <4>1, ShorterFacts
    <3> QED
      BY <3>1, <3>2 DEF DeletionVariants
  <2> QED
    BY <2>1, <2>2
<1>3. \A words : words \subseteq Seq(S) => Shorter(words) \subseteq Seq(S)
  <2> SUFFICES ASSUME NEW words, words \subseteq Seq(S), NEW v \in Shorter(words) PROVE v \in Seq(S)
    OBVIOUS
  <2>1. PICK x \in words : \E i \in DOMAIN x : v = RemoveAt(x, i)
    BY ShorterFacts
  <2>2. x \in Seq(S)
    OBVIOUS
  <2> QED
    BY <2>1, <2>2, RemoveFacts
<1>4. {w} \subseteq Seq(S)
  OBVIOUS
<1>5. Shorter({w}) \subseteq Seq(S) /\ Shorter(Shorter({w})) \subseteq Seq(S)
  BY <1>3, <1>4
<1>6. Near(w) \subseteq Seq(S) /\ DeletionVariants(w) \subseteq Seq(S)
  BY <1>4, <1>5, Zenon DEF Near, DeletionVariants
<1> QED
  BY <1>1, <1>2, <1>6

(* A word that is edited once shares what is left without a letter.        *)
LEMMA EditedFacts ==
  ASSUME NEW S, Letters \subseteq S, NEW w \in Seq(S), NEW u \in Edited(w)
  PROVE  u \in Seq(S) /\ \E x : x \in Near(u) /\ x \in Near(w)
<1>0. Len(w) \in Nat /\ DOMAIN w = 1..Len(w) /\ \A j \in 1..Len(w) : w[j] \in S
  OBVIOUS
<1>1. \/ u = w
      \/ \E i \in DOMAIN w : u = RemoveAt(w, i)
      \/ \E i \in 1..(Len(w) + 1), c \in Letters : u = InsertAt(w, i, c)
      \/ \E i \in DOMAIN w, c \in Letters : u = ReplaceAt(w, i, c)
      \/ \E i \in 1..(Len(w) - 1) : u = Swapped(w, i)
  <2>1. \/ u = w \/ u \in Shorter({w})
        \/ \E i \in 1..(Len(w) + 1), c \in Letters : u = InsertAt(w, i, c)
        \/ \E i \in DOMAIN w, c \in Letters : u = ReplaceAt(w, i, c)
        \/ \E i \in 1..(Len(w) - 1) : u = Swapped(w, i)
    BY DEF Edited, Swapped
  <2> QED
    BY <2>1, ShorterFacts
<1>2. CASE u = w
  BY <1>2 DEF Near
<1>3. CASE \E i \in DOMAIN w : u = RemoveAt(w, i)
  <2>1. u \in Seq(S)
    BY <1>3, RemoveFacts
  <2>2. u \in Near(w) /\ u \in Near(u)
    BY <1>3, <2>1, VariantFacts
  <2> QED
    BY <2>1, <2>2
<1>4. CASE \E i \in 1..(Len(w) + 1), c \in Letters : u = InsertAt(w, i, c)
  <2>1. PICK i \in 1..(Len(w) + 1), c \in S : u = InsertAt(w, i, c)
    BY <1>4
  <2>2. /\ u \in Seq(S) /\ Len(u) = Len(w) + 1
        /\ \A j \in 1..(Len(w) + 1) : u[j] = IF j < i THEN w[j] ELSE IF j = i THEN c ELSE w[j - 1]
    BY <2>1, InsertFacts
  <2>3. i \in DOMAIN u
    BY <1>0, <2>2
  <2>4. /\ RemoveAt(u, i) \in Seq(S) /\ Len(RemoveAt(u, i)) = Len(u) - 1
        /\ \A j \in 1..(Len(u) - 1) : RemoveAt(u, i)[j] = IF j < i THEN u[j] ELSE u[j + 1]
    BY <2>2, <2>3, RemoveFacts
  <2>5. ASSUME NEW j \in 1..Len(w) PROVE RemoveAt(u, i)[j] = w[j]
    <3>1. j \in 1..(Len(u) - 1) /\ j \in 1..(Len(w) + 1) /\ j + 1 \in 1..(Len(w) + 1) /\ (j + 1) - 1 = j
      BY <1>0, <2>2
    <3> QED
      BY <2>2, <2>4, <3>1
  <2>6. RemoveAt(u, i) = w
    <3>1. Len(RemoveAt(u, i)) = Len(w)
      BY <1>0, <2>2, <2>4
    <3> QED
      BY <2>4, <2>5, <3>1, SeqEqual
  <2>7. w \in Near(u) /\ w \in Near(w)
    BY <2>2, <2>3, <2>6, VariantFacts
  <2> QED
    BY <2>2, <2>7
<1>5. CASE \E i \in DOMAIN w, c \in Letters : u = ReplaceAt(w, i, c)
  <2>1. PICK i \in DOMAIN w, c \in S : u = ReplaceAt(w, i, c)
    BY <1>5
  <2>2. u \in Seq(S) /\ Len(u) = Len(w) /\ \A j \in 1..Len(w) : u[j] = IF j = i THEN c ELSE w[j]
    <3>1. /\ ReplaceAt(w, i, c) \in Seq(S) /\ Len(ReplaceAt(w, i, c)) = Len(w)
          /\ \A j \in 1..Len(w) : ReplaceAt(w, i, c)[j] = IF j = i THEN c ELSE w[j]
      BY ReplaceFacts
    <3> QED
      BY <2>1, <3>1
  <2>3. i \in DOMAIN u
    BY <1>0, <2>2
  <2>4. /\ RemoveAt(u, i) \in Seq(S) /\ Len(RemoveAt(u, i)) = Len(u) - 1
        /\ \A j \in 1..(Len(u) - 1) : RemoveAt(u, i)[j] = IF j < i THEN u[j] ELSE u[j + 1]
    BY <2>2, <2>3, RemoveFacts
  <2>5. /\ RemoveAt(w, i) \in Seq(S) /\ Len(RemoveAt(w, i)) = Len(w) - 1
        /\ \A j \in 1..(Len(w) - 1) : RemoveAt(w, i)[j] = IF j < i THEN w[j] ELSE w[j + 1]
    BY RemoveFacts
  <2>6. ASSUME NEW j \in 1..(Len(w) - 1) PROVE RemoveAt(u, i)[j] = RemoveAt(w, i)[j]
    <3>1. j \in 1..Len(w) /\ j + 1 \in 1..Len(w) /\ (j < i => j # i) /\ (~(j < i) => j + 1 # i) /\ i \in Int
      BY <1>0
    <3> QED
      BY <2>2, <2>4, <2>5, <3>1
  <2>7. RemoveAt(u, i) = RemoveAt(w, i)
    <3>1. Len(RemoveAt(u, i)) = Len(w) - 1
      BY <2>2, <2>4
    <3> QED
      BY <2>4, <2>5, <2>6, <3>1, SeqEqual
  <2>8. RemoveAt(u, i) \in Near(u) /\ RemoveAt(w, i) \in Near(w)
    BY <2>2, <2>3, VariantFacts
  <2> QED
    BY <2>2, <2>7, <2>8
<1>6. CASE \E i \in 1..(Len(w) - 1) : u = Swapped(w, i)
  <2>1. PICK i \in 1..(Len(w) - 1) : u = Swapped(w, i)
    BY <1>6
  <2>2. /\ u \in Seq(S) /\ Len(u) = Len(w)
        /\ \A j \in 1..Len(w) : u[j] = IF j = i THEN w[i + 1] ELSE IF j = i + 1 THEN w[i] ELSE w[j]
    BY <2>1, SwapFacts
  <2>3. i \in DOMAIN u /\ i \in DOMAIN w /\ i + 1 \in DOMAIN w
    BY <1>0, <2>2
  <2>4. /\ RemoveAt(u, i) \in Seq(S) /\ Len(RemoveAt(u, i)) = Len(u) - 1
        /\ \A j \in 1..(Len(u) - 1) : RemoveAt(u, i)[j] = IF j < i THEN u[j] ELSE u[j + 1]
    BY <2>2, <2>3, RemoveFacts
  <2>5. /\ RemoveAt(w, i + 1) \in Seq(S) /\ Len(RemoveAt(w, i + 1)) = Len(w) - 1
        /\ \A j \in 1..(Len(w) - 1) : RemoveAt(w, i + 1)[j] = IF j < i + 1 THEN w[j] ELSE w[j + 1]
    BY <2>3, RemoveFacts
  <2>6. ASSUME NEW j \in 1..(Len(w) - 1) PROVE RemoveAt(u, i)[j] = RemoveAt(w, i + 1)[j]
    <3>0. j \in 1..Len(w) /\ j + 1 \in 1..Len(w) /\ j \in 1..(Len(u) - 1)
      BY <1>0, <2>2
    <3>1. CASE j < i
      <4>1. j # i /\ j # i + 1 /\ j < i + 1
        BY <3>1
      <4> QED
        BY <2>2, <2>4, <2>5, <3>0, <3>1, <4>1
    <3>2. CASE j = i
      <4>1. ~(j < i) /\ j + 1 # i /\ j + 1 = i + 1 /\ j < i + 1
        BY <3>2
      <4> QED
        BY <2>2, <2>4, <2>5, <3>0, <3>2, <4>1
    <3>3. CASE j > i
      <4>1. ~(j < i) /\ j + 1 # i /\ j + 1 # i + 1 /\ ~(j < i + 1)
        BY <3>3
      <4> QED
        BY <2>2, <2>4, <2>5, <3>0, <3>3, <4>1
    <3> QED
      BY <3>1, <3>2, <3>3
  <2>7. RemoveAt(u, i) = RemoveAt(w, i + 1)
    <3>1. Len(RemoveAt(u, i)) = Len(w) - 1
      BY <2>2, <2>4
    <3> QED
      BY <2>4, <2>5, <2>6, <3>1, SeqEqual
  <2>8. RemoveAt(u, i) \in Near(u) /\ RemoveAt(w, i + 1) \in Near(w)
    BY <2>2, <2>3, VariantFacts
  <2> QED
    BY <2>2, <2>7, <2>8
<1> QED
  BY <1>1, <1>2, <1>3, <1>4, <1>5, <1>6

(* What is left of two parts is left of the whole.                         *)
LEMMA TogetherNear ==
  ASSUME NEW S, NEW a \in Seq(S), NEW b \in Seq(S), NEW x \in Near(a), NEW y \in Near(b)
  PROVE  x \o y \in DeletionVariants(a \o b)
<1>0. /\ Len(a) \in Nat /\ DOMAIN a = 1..Len(a) /\ Len(b) \in Nat /\ DOMAIN b = 1..Len(b)
      /\ a \o b \in Seq(S) /\ Len(a \o b) = Len(a) + Len(b)
      /\ \A j \in 1..(Len(a) + Len(b)) : (a \o b)[j] = IF j <= Len(a) THEN a[j] ELSE b[j - Len(a)]
  BY ConcatProperties
<1>1. x \in Seq(S) /\ y \in Seq(S)
  BY VariantFacts
<1>2. ASSUME NEW c \in Seq(S), NEW d \in Seq(S), NEW v \in Near(c) PROVE v \o d \in Near(c \o d)
  <2>0. /\ Len(c) \in Nat /\ DOMAIN c = 1..Len(c) /\ Len(d) \in Nat
        /\ c \o d \in Seq(S) /\ Len(c \o d) = Len(c) + Len(d)
        /\ \A j \in 1..(Len(c) + Len(d)) : (c \o d)[j] = IF j <= Len(c) THEN c[j] ELSE d[j - Len(c)]
    BY ConcatProperties
  <2>1. CASE v = c
    BY <2>0, <2>1, VariantFacts
  <2>2. CASE v # c
    <3>1. PICK i \in DOMAIN c : v = RemoveAt(c, i)
      BY <2>2, VariantFacts
    <3>2. /\ v \in Seq(S) /\ Len(v) = Len(c) - 1
          /\ \A j \in 1..(Len(c) - 1) : v[j] = IF j < i THEN c[j] ELSE c[j + 1]
      BY <3>1, RemoveFacts
    <3>3. /\ v \o d \in Seq(S) /\ Len(v \o d) = Len(v) + Len(d)
          /\ \A j \in 1..(Len(v) + Len(d)) : (v \o d)[j] = IF j <= Len(v) THEN v[j] ELSE d[j - Len(v)]
      BY <3>2, ConcatProperties
    <3>4. i \in 1..Len(c) /\ i \in DOMAIN (c \o d)
      BY <2>0
    <3> DEFINE r == RemoveAt(c \o d, i)
    <3>5. /\ r \in Seq(S) /\ Len(r) = Len(c \o d) - 1
          /\ \A j \in 1..(Len(c \o d) - 1) : r[j] = IF j < i THEN (c \o d)[j] ELSE (c \o d)[j + 1]
      BY <2>0, <3>4, RemoveFacts
    <3> HIDE DEF r
    <3>6. Len(v \o d) = Len(c) - 1 + Len(d) /\ Len(r) = Len(c) - 1 + Len(d)
      BY <2>0, <3>2, <3>3, <3>5
    <3>7. ASSUME NEW j \in 1..(Len(c) - 1 + Len(d)) PROVE (v \o d)[j] = r[j]
      <4>0. j \in 1..(Len(v) + Len(d)) /\ j \in 1..(Len(c \o d) - 1) /\ j + 1 \in 1..(Len(c) + Len(d))
            /\ j \in 1..(Len(c) + Len(d))
        BY <2>0, <3>2
      <4>1. CASE j < i
        <5>1. j <= Len(v) /\ j \in 1..(Len(c) - 1) /\ j <= Len(c)
          BY <2>0, <3>2, <3>4, <4>1
        <5> QED
          BY <2>0, <3>2, <3>3, <3>5, <4>0, <4>1, <5>1
      <4>2. CASE ~(j < i) /\ j <= Len(c) - 1
        <5>1. j <= Len(v) /\ j \in 1..(Len(c) - 1) /\ j + 1 <= Len(c)
          BY <2>0, <3>2, <3>4, <4>2
        <5> QED
          BY <2>0, <3>2, <3>3, <3>5, <4>0, <4>2, <5>1
      <4>3. CASE j > Len(c) - 1
        <5>1. ~(j <= Len(v)) /\ ~(j < i) /\ ~(j + 1 <= Len(c)) /\ j - Len(v) = (j + 1) - Len(c)
          BY <2>0, <3>2, <3>4, <4>3
        <5> QED
          BY <2>0, <3>3, <3>5, <4>0, <5>1
      <4>4. i \in Int /\ j \in Int /\ Len(c) \in Int
        BY <2>0, <3>4
      <4>5. j < i \/ (~(j < i) /\ j <= Len(c) - 1) \/ j > Len(c) - 1
        BY <4>4
      <4> QED
        BY <4>1, <4>2, <4>3, <4>5
    <3>8. v \o d = r
      BY <3>3, <3>5, <3>6, <3>7, SeqEqual
    <3> QED
      BY <2>0, <3>4, <3>8, VariantFacts DEF r
  <2> QED
    BY <2>1, <2>2
<1>3. ASSUME NEW c \in Seq(S), NEW d \in Seq(S), NEW v \in Near(d) PROVE c \o v \in Near(c \o d)
  <2>0. /\ Len(c) \in Nat /\ DOMAIN d = 1..Len(d) /\ Len(d) \in Nat
        /\ c \o d \in Seq(S) /\ Len(c \o d) = Len(c) + Len(d)
        /\ \A j \in 1..(Len(c) + Len(d)) : (c \o d)[j] = IF j <= Len(c) THEN c[j] ELSE d[j - Len(c)]
    BY ConcatProperties
  <2>1. CASE v = d
    BY <2>0, <2>1, VariantFacts
  <2>2. CASE v # d
    <3>1. PICK i \in DOMAIN d : v = RemoveAt(d, i)
      BY <2>2, VariantFacts
    <3>2. /\ v \in Seq(S) /\ Len(v) = Len(d) - 1
          /\ \A j \in 1..(Len(d) - 1) : v[j] = IF j < i THEN d[j] ELSE d[j + 1]
      BY <3>1, RemoveFacts
    <3>3. /\ c \o v \in Seq(S) /\ Len(c \o v) = Len(c) + Len(v)
          /\ \A j \in 1..(Len(c) + Len(v)) : (c \o v)[j] = IF j <= Len(c) THEN c[j] ELSE v[j - Len(c)]
      BY <3>2, ConcatProperties
    <3>4. i \in 1..Len(d) /\ Len(c) + i \in DOMAIN (c \o d)
      BY <2>0
    <3> DEFINE k == Len(c) + i
               r == RemoveAt(c \o d, k)
    <3>5. /\ r \in Seq(S) /\ Len(r) = Len(c \o d) - 1
          /\ \A j \in 1..(Len(c \o d) - 1) : r[j] = IF j < k THEN (c \o d)[j] ELSE (c \o d)[j + 1]
      BY <2>0, <3>4, RemoveFacts
    <3> HIDE DEF r
    <3>6. Len(c \o v) = Len(c) + Len(d) - 1 /\ Len(r) = Len(c) + Len(d) - 1
      BY <2>0, <3>2, <3>3, <3>5
    <3>7. ASSUME NEW j \in 1..(Len(c) + Len(d) - 1) PROVE (c \o v)[j] = r[j]
      <4>0. j \in 1..(Len(c) + Len(v)) /\ j \in 1..(Len(c \o d) - 1) /\ j + 1 \in 1..(Len(c) + Len(d))
            /\ j \in 1..(Len(c) + Len(d))
        BY <2>0, <3>2
      <4>1. CASE j <= Len(c)
        <5>1. j < k
          BY <2>0, <3>4, <4>1
        <5> QED
          BY <2>0, <3>3, <3>5, <4>0, <4>1, <5>1
      <4>2. CASE j > Len(c) /\ j < k
        <5>1. ~(j <= Len(c)) /\ j - Len(c) \in 1..(Len(d) - 1) /\ j - Len(c) < i
          BY <2>0, <3>4, <4>2
        <5> QED
          BY <2>0, <3>2, <3>3, <3>5, <4>0, <4>2, <5>1
      <4>3. CASE ~(j < k)
        <5>1. /\ ~(j <= Len(c)) /\ ~(j + 1 <= Len(c)) /\ j - Len(c) \in 1..(Len(d) - 1) /\ ~(j - Len(c) < i)
              /\ (j - Len(c)) + 1 = (j + 1) - Len(c)
          BY <2>0, <3>4, <4>3
        <5> QED
          BY <2>0, <3>2, <3>3, <3>5, <4>0, <4>3, <5>1
      <4>4. k \in Int /\ j \in Int /\ Len(c) \in Int
        BY <2>0, <3>4
      <4>5. j <= Len(c) \/ (j > Len(c) /\ j < k) \/ ~(j < k)
        BY <4>4
      <4> QED
        BY <4>1, <4>2, <4>3, <4>5
    <3>8. c \o v = r
      BY <3>3, <3>5, <3>6, <3>7, SeqEqual
    <3> QED
      BY <2>0, <3>4, <3>8, VariantFacts DEF r
  <2> QED
    BY <2>1, <2>2
<1>4. x \o b \in Near(a \o b) /\ x \o b \in Seq(S)
  <2>1. x \o b \in Near(a \o b)
    BY <1>2
  <2> QED
    BY <1>0, <2>1, VariantFacts
<1>5. x \o y \in Near(x \o b)
  BY <1>1, <1>3
<1> QED
  BY <1>0, <1>4, <1>5, VariantFacts

-----------------------------------------------------------------------------
(* The matrix of costs.                                                    *)
LEMMA CompactFacts ==
  ASSUME NEW name, name.base \in Seq(STRING)
  PROVE  Compact(name) \in Seq(STRING)
<1> DEFINE N == Len(name.base)
<1>1. N \in Nat /\ \A i \in 1..N : name.base[i] \in STRING
  OBVIOUS
<1>2. PICK f : Unwinds(f, N, <<>>, CompactHow(name.base)) /\ Compact(name) = f[N]
  BY <1>1, CompactRuns
<1> DEFINE G == {i \in 0..N : f[i] \in Seq(STRING)}
<1>3. 0 \in G
  <2>1. f[0] = <<>>
    BY <1>2 DEF Unwinds
  <2>2. f[0] \in Seq(STRING)
    BY <2>1, EmptySeq
  <2> QED
    BY <1>1, <2>2
<1>4. ASSUME NEW i \in 0..N, i \in G, i < N PROVE i + 1 \in G
  <2>1. i + 1 \in 1..N /\ i + 1 \in 0..N /\ (i + 1) - 1 = i
    BY <1>1, <1>4
  <2>2. f[i + 1] = KeepUnless(f[i], name.base[i + 1])
    <3>1. f[i + 1] = Redone(CompactHow(name.base), i + 1, f[i])
      BY <1>2, <2>1 DEF Unwinds
    <3> QED
      BY <3>1, HowsRedo
  <2>3. f[i] \in Seq(STRING) /\ name.base[i + 1] \in STRING
    BY <1>1, <1>4, <2>1
  <2>4. KeepUnless(f[i], name.base[i + 1]) \in Seq(STRING)
    <3> DEFINE q == f[i]
               c == name.base[i + 1]
    <3>1. q \in Seq(STRING) /\ c \in STRING
      BY <2>3
    <3> HIDE DEF q, c
    <3>2. Append(q, c) \in Seq(STRING)
      BY <3>1
    <3>3. KeepUnless(q, c) \in Seq(STRING)
      BY <3>1, <3>2 DEF KeepUnless
    <3> QED
      BY <3>3 DEF q, c
  <2> QED
    BY <2>1, <2>2, <2>4
<1>5. N \in G
  <2> HIDE DEF G, N
  <2>1. 0..N \subseteq G
    BY <1>1, <1>3, <1>4, UpTo
  <2> QED
    BY <1>1, <2>1
<1> QED
  BY <1>2, <1>5

LEMMA CheapestFacts ==
  ASSUME NEW X, X \subseteq Nat, X # {}
  PROVE  Cheapest(X) \in X /\ \A x \in X : Cheapest(X) <= x
<1>1. \E x \in X : \A y \in X : x <= y
  BY LeastNumber
<1> QED
  BY <1>1 DEF Cheapest

(* A row of the matrix as far as its j-th cell, p and l the rows before.   *)
Cell(s, t, i, p, l, row, k) ==
  /\ row[k + 1] <= l[k] + (IF s[i] = t[k] THEN 0 ELSE 100)
  /\ row[k + 1] <= l[k + 1] + 100
  /\ row[k + 1] <= row[k] + 100
  /\ i > 1 /\ k > 1 /\ s[i] = t[k - 1] /\ s[i - 1] = t[k] => row[k + 1] <= p[k - 1] + 75
RowRight(s, t, i, p, l, row, j) ==
  /\ row \in Seq(Nat) /\ Len(row) = j + 1 /\ row[1] = 100 * i
  /\ \A k \in 1..j : Cell(s, t, i, p, l, row, k)

LEMMA FurtherFacts ==
  ASSUME NEW s, NEW t, NEW i \in Nat, NEW n \in Nat,
         NEW p \in Seq(Nat), NEW l \in Seq(Nat), Len(p) = n + 1, Len(l) = n + 1,
         NEW j \in 0..n, j < n, NEW row, RowRight(s, t, i, p, l, row, j)
  PROVE  RowRight(s, t, i, p, l, Further(s, t, i, <<p, l>>, row, j + 1), j + 1)
<1> DEFINE k == j + 1
           swap == i > 1 /\ k > 1 /\ s[i] = t[k - 1] /\ s[i - 1] = t[k]
           a == l[k] + (IF s[i] = t[k] THEN 0 ELSE 100)
           b == l[k + 1] + 100
           c == row[k] + 100
           d == p[k - 1] + 75
           X == {a, b, c} \cup (IF swap THEN {d} ELSE {})
           x == Cheapest(X)
           next == Append(row, x)
<1>1. Further(s, t, i, <<p, l>>, row, k) = next
  BY DEF Further
<1>2. row \in Seq(Nat) /\ Len(row) = k /\ row[1] = 100 * i
  BY DEF RowRight
<1>3. k \in 1..n /\ k \in 1..(n + 1) /\ k + 1 \in 1..(n + 1) /\ (k > 1 => k - 1 \in 1..(n + 1))
  OBVIOUS
<1>4. a \in Nat /\ b \in Nat /\ c \in Nat /\ (swap => d \in Nat)
  <2> HIDE DEF k
  <2>1. l[k] \in Nat /\ l[k + 1] \in Nat
    BY <1>3
  <2>2. k \in Nat /\ k \in 1..k
    BY <1>3
  <2>3. row[k] \in Nat
    BY <1>2, <2>2
  <2>4. k > 1 => p[k - 1] \in Nat
    BY <1>3
  <2>5. (IF s[i] = t[k] THEN 0 ELSE 100) \in Nat
    OBVIOUS
  <2>6. a \in Nat
    <3> DEFINE w == IF s[i] = t[k] THEN 0 ELSE 100
    <3>1. w \in Nat /\ a = l[k] + w
      BY <2>5
    <3> HIDE DEF w, a
    <3> QED
      BY <2>1, <3>1
  <2>7. b \in Nat /\ c \in Nat
    <3>1. \A m \in Nat : m + 100 \in Nat
      OBVIOUS
    <3> QED
      BY <2>1, <2>3, <3>1
  <2>8. swap => d \in Nat
    BY <2>4
  <2> QED
    BY <2>6, <2>7, <2>8
<1> HIDE DEF a, b, c, d, swap
<1>5. X \subseteq Nat /\ X # {}
  BY <1>4
<1>6. x \in X /\ x <= a /\ x <= b /\ x <= c /\ (swap => x <= d)
  <2> HIDE DEF X
  <2>1. x \in X /\ \A y \in X : x <= y
    BY <1>5, CheapestFacts
  <2>2. a \in X /\ b \in X /\ c \in X /\ (swap => d \in X)
    BY DEF X
  <2> HIDE DEF x
  <2> QED
    BY <2>1, <2>2
<1>7. x \in Nat
  BY <1>5, <1>6
<1> HIDE DEF X, x, k
<1>8. /\ next \in Seq(Nat) /\ Len(next) = k + 1 /\ next[k + 1] = x /\ \A m \in 1..k : next[m] = row[m]
  BY <1>2, <1>7
<1> HIDE DEF next
<1>9. \A m \in 1..j : Cell(s, t, i, p, l, next, m)
  <2> TAKE m \in 1..j
  <2>1. m \in 1..k /\ m + 1 \in 1..k
    BY DEF k
  <2>2. next[m] = row[m] /\ next[m + 1] = row[m + 1]
    BY <1>8, <2>1
  <2>3. Cell(s, t, i, p, l, row, m)
    BY DEF RowRight
  <2> QED
    BY <2>2, <2>3 DEF Cell
<1>10. Cell(s, t, i, p, l, next, k)
  <2>1. next[k] = row[k] /\ next[k + 1] = x
    <3>1. k \in 1..k
      BY <1>3
    <3> QED
      BY <1>8, <3>1
  <2>2. (swap => x <= d) /\ x <= a /\ x <= b /\ x <= c
    BY <1>6
  <2> QED
    BY <2>1, <2>2, Zenon DEF Cell, a, b, c, d, swap
<1>11. \A m \in 1..k : m \in 1..j \/ m = k
  BY DEF k
<1>12. next[1] = 100 * i /\ k \in Int
  <2>1. 1 \in 1..k
    BY <1>3
  <2> QED
    BY <1>2, <1>3, <1>8, <2>1
<1>13. RowRight(s, t, i, p, l, next, k)
  BY <1>8, <1>9, <1>10, <1>11, <1>12 DEF RowRight
<1> QED
  BY <1>1, <1>13 DEF k

LEMMA NextRowsFacts ==
  ASSUME NEW s, NEW t, NEW i \in Nat, Len(t) \in Nat,
         NEW p \in Seq(Nat), NEW l \in Seq(Nat), Len(p) = Len(t) + 1, Len(l) = Len(t) + 1
  PROVE  \E row : /\ NextRows(s, t, i, <<p, l>>) = <<l, row>>
                  /\ RowRight(s, t, i, p, l, row, Len(t))
<1> DEFINE N == Len(t)
           two == <<p, l>>
<1>1. PICK f : /\ Unwinds(f, N, Deletions(i), RowHow(s, t, i, two))
               /\ NextRows(s, t, i, two) = <<two[2], f[N]>>
  <2> HIDE DEF two
  <2> QED
    BY NextRowsRuns
<1> DEFINE G == {j \in 0..N : RowRight(s, t, i, p, l, f[j], j)}
<1>2. 0 \in G
  <2>1. f[0] = <<100 * i>>
    BY <1>1 DEF Unwinds, Deletions
  <2>2. 100 * i \in Nat
    OBVIOUS
  <2>3. \A n \in Nat : <<n>> \in Seq(Nat) /\ Len(<<n>>) = 1 /\ <<n>>[1] = n
    OBVIOUS
  <2>4. f[0] \in Seq(Nat) /\ Len(f[0]) = 0 + 1 /\ f[0][1] = 100 * i
    BY <2>1, <2>2, <2>3
  <2>5. \A k \in 1..0 : FALSE
    OBVIOUS
  <2>6. RowRight(s, t, i, p, l, f[0], 0)
    BY <2>4, <2>5 DEF RowRight
  <2> QED
    BY <2>6
<1>3. ASSUME NEW j \in 0..N, j \in G, j < N PROVE j + 1 \in G
  <2>1. j + 1 \in 1..N /\ j + 1 \in 0..N /\ (j + 1) - 1 = j
    BY <1>3
  <2>2. f[j + 1] = Further(s, t, i, two, f[j], j + 1)
    <3>1. f[j + 1] = Redone(RowHow(s, t, i, two), j + 1, f[j])
      BY <1>1, <2>1 DEF Unwinds
    <3> HIDE DEF two
    <3> QED
      BY <3>1, HowsRedo
  <2>3. RowRight(s, t, i, p, l, Further(s, t, i, <<p, l>>, f[j], j + 1), j + 1)
    <3>1. RowRight(s, t, i, p, l, f[j], j)
      BY <1>3
    <3> QED
      BY <1>3, <3>1, FurtherFacts
  <2> QED
    BY <2>1, <2>2, <2>3
<1>4. N \in G
  <2> HIDE DEF G, N
  <2>1. 0..N \subseteq G
    BY <1>2, <1>3, UpTo DEF N
  <2> QED
    BY <2>1 DEF N
<1>5. NextRows(s, t, i, <<p, l>>) = <<l, f[N]>>
  BY <1>1
<1> QED
  BY <1>4, <1>5

(* D is the cost of the first letters of s and t.                          *)
Matrix(D, s, t) ==
  /\ D[<<0, 0>>] = 0
  /\ \A i \in 0..Len(s), j \in 0..Len(t) :
       /\ D[<<i, j>>] \in Nat
       /\ i > 0 /\ j > 0 => D[<<i, j>>] <= D[<<i - 1, j - 1>>] + (IF s[i] = t[j] THEN 0 ELSE 100)
       /\ i > 0 => D[<<i, j>>] <= D[<<i - 1, j>>] + 100
       /\ j > 0 => D[<<i, j>>] <= D[<<i, j - 1>>] + 100
       /\ i > 1 /\ j > 1 /\ s[i] = t[j - 1] /\ s[i - 1] = t[j]
            => D[<<i, j>>] <= D[<<i - 2, j - 2>>] + 75

LEMMA MatrixFacts ==
  ASSUME NEW s, NEW t, Len(s) \in Nat, Len(t) \in Nat
  PROVE  \E D : Matrix(D, s, t) /\ Cost(s, t) = D[<<Len(s), Len(t)>>]
<1> DEFINE N == Len(s)
           m == Len(t)
           first == First100(t)
<1>1. PICK f : /\ Unwinds(f, N, <<first, first>>, RowsHow(s, t))
               /\ Cost(s, t) = f[N][2][m + 1]
  BY CostRuns
<1>2. first \in Seq(Nat) /\ Len(first) = m + 1 /\ \A j \in 1..(m + 1) : first[j] = 100 * (j - 1)
  <2>1. \A j \in 1..(m + 1) : 100 * (j - 1) \in Nat
    OBVIOUS
  <2>2. first \in [1..(m + 1) -> Nat]
    BY <2>1 DEF First100
  <2>3. m + 1 \in Nat
    OBVIOUS
  <2> QED
    BY <2>2, <2>3 DEF First100
<1> HIDE DEF first, m, N
<1> DEFINE Two(i) == /\ f[i] = <<f[i][1], f[i][2]>>
                     /\ f[i][1] \in Seq(Nat) /\ Len(f[i][1]) = m + 1
                     /\ f[i][2] \in Seq(Nat) /\ Len(f[i][2]) = m + 1
           After(i) == i > 0 => /\ f[i][1] = f[i - 1][2]
                                /\ RowRight(s, t, i, f[i - 1][1], f[i - 1][2], f[i][2], m)
           G == {i \in 0..N : Two(i) /\ After(i)}
<1>3. 0 \in G
  <2>1. f[0] = <<first, first>>
    BY <1>1 DEF Unwinds
  <2>2. f[0][1] = first /\ f[0][2] = first
    BY <2>1
  <2>3. Two(0)
    BY <1>2, <2>1, <2>2
  <2>4. After(0) /\ 0 \in 0..N
    BY DEF N
  <2> HIDE DEF Two, After
  <2> QED
    BY <2>3, <2>4
<1>4. ASSUME NEW i \in 0..N, i \in G, i < N PROVE i + 1 \in G
  <2>1. i + 1 \in 1..N /\ i + 1 \in 0..N /\ (i + 1) - 1 = i /\ i + 1 \in Nat /\ i + 1 > 0
    BY <1>4 DEF N
  <2>2. f[i + 1] = NextRows(s, t, i + 1, f[i])
    <3>1. f[i + 1] = Redone(RowsHow(s, t), i + 1, f[i])
      BY <1>1, <2>1 DEF Unwinds
    <3> QED
      BY <3>1, HowsRedo
  <2>3. Two(i)
    BY <1>4
  <2> DEFINE p == f[i][1]
             l == f[i][2]
  <2>4. f[i] = <<p, l>> /\ p \in Seq(Nat) /\ l \in Seq(Nat) /\ Len(p) = Len(t) + 1 /\ Len(l) = Len(t) + 1
    BY <2>3 DEF m
  <2> HIDE DEF p, l
  <2>5. PICK row : /\ NextRows(s, t, i + 1, <<p, l>>) = <<l, row>>
                   /\ RowRight(s, t, i + 1, p, l, row, Len(t))
    BY <2>1, <2>4, NextRowsFacts
  <2>6. f[i + 1] = <<l, row>>
    BY <2>2, <2>4, <2>5
  <2>7. f[i + 1][1] = l /\ f[i + 1][2] = row
    BY <2>6
  <2>8. row \in Seq(Nat) /\ Len(row) = m + 1
    BY <2>5 DEF RowRight, m
  <2>9. Two(i + 1)
    BY <2>4, <2>6, <2>7, <2>8 DEF m
  <2>10. After(i + 1)
    BY <2>1, <2>5, <2>7 DEF p, l, m
  <2> HIDE DEF Two, After
  <2> QED
    BY <2>1, <2>9, <2>10
<1>5. 0..N \subseteq G
  <2> HIDE DEF G
  <2> QED
    BY <1>3, <1>4, UpTo DEF N
<1>6. \A i \in 0..N : Two(i) /\ After(i)
  BY <1>5
<1> HIDE DEF G
<1> DEFINE D == [x \in (0..N) \X (0..m) |-> f[x[1]][2][x[2] + 1]]
<1>7. \A i \in 0..N, j \in 0..m : D[<<i, j>>] = f[i][2][j + 1]
  OBVIOUS
<1> HIDE DEF D
<1>8. \A j \in 0..m : D[<<0, j>>] = 100 * j
  <2> TAKE j \in 0..m
  <2>1. f[0][2] = first
    BY <1>1 DEF Unwinds
  <2>2. 0 \in 0..N /\ j + 1 \in 1..(m + 1) /\ (j + 1) - 1 = j
    BY DEF N, m
  <2> QED
    BY <1>2, <1>7, <2>1, <2>2
<1>9. ASSUME NEW i \in 0..N, NEW j \in 0..m
      PROVE  /\ D[<<i, j>>] \in Nat
             /\ i > 0 /\ j > 0 => D[<<i, j>>] <= D[<<i - 1, j - 1>>] + (IF s[i] = t[j] THEN 0 ELSE 100)
             /\ i > 0 => D[<<i, j>>] <= D[<<i - 1, j>>] + 100
             /\ j > 0 => D[<<i, j>>] <= D[<<i, j - 1>>] + 100
             /\ i > 1 /\ j > 1 /\ s[i] = t[j - 1] /\ s[i - 1] = t[j]
                  => D[<<i, j>>] <= D[<<i - 2, j - 2>>] + 75
  <2>0. i \in Nat /\ j \in Nat /\ m \in Nat /\ N \in Nat /\ j <= m /\ i <= N
    BY DEF m, N
  <2>1. D[<<i, j>>] \in Nat
    <3>1. j + 1 \in 1..(m + 1)
      BY <2>0
    <3> DEFINE q == f[i][2]
    <3>2. q \in Seq(Nat) /\ Len(q) = m + 1 /\ D[<<i, j>>] = q[j + 1]
      BY <1>6, <1>7
    <3> HIDE DEF q
    <3> QED
      BY <3>1, <3>2
  <2>2. CASE i = 0
    <3>1. j > 0 => D[<<i, j>>] <= D[<<i, j - 1>>] + 100
      <4> SUFFICES ASSUME j > 0 PROVE D[<<i, j>>] <= D[<<i, j - 1>>] + 100
        OBVIOUS
      <4>1. j - 1 \in 0..m
        BY <2>0
      <4>2. D[<<i, j>>] = 100 * j /\ D[<<i, j - 1>>] = 100 * (j - 1)
        BY <1>8, <2>2, <4>1
      <4> QED
        BY <2>0, <4>2
    <3> QED
      BY <2>1, <2>2, <3>1
  <2>3. CASE i > 0
    <3> DEFINE p == f[i - 1][1]
               l == f[i - 1][2]
               row == f[i][2]
    <3>1. i - 1 \in 0..N
      BY <2>0, <2>3
    <3>2. RowRight(s, t, i, p, l, row, m)
      BY <1>6, <2>3
    <3>3. \A k \in 0..m : D[<<i - 1, k>>] = l[k + 1] /\ D[<<i, k>>] = row[k + 1]
      BY <1>7, <3>1
    <3>4. i > 1 => i - 2 \in 0..N /\ i - 1 > 0 /\ (i - 1) - 1 = i - 2
      BY <2>0
    <3>5. i > 1 => p = f[i - 2][2]
      BY <1>6, <3>1, <3>4
    <3>6. i > 1 => \A k \in 0..m : D[<<i - 2, k>>] = p[k + 1]
      BY <1>7, <3>4, <3>5
    <3> HIDE DEF p, l, row
    <3>7. CASE j = 0
      <4>1. D[<<i, 0>>] = 100 * i
        <5>1. 0 \in 0..m /\ 0 + 1 = 1
          BY <2>0
        <5>2. D[<<i, 0>>] = row[0 + 1]
          BY <3>3, <5>1
        <5>3. row[1] = 100 * i
          BY <3>2 DEF RowRight
        <5> QED
          BY <5>1, <5>2, <5>3
      <4>2. D[<<i - 1, 0>>] = 100 * (i - 1)
        <5>1. CASE i - 1 = 0
          BY <1>8, <2>0, <5>1
        <5>2. CASE i - 1 > 0
          <6>1. RowRight(s, t, i - 1, f[(i - 1) - 1][1], f[(i - 1) - 1][2], f[i - 1][2], m)
            BY <1>6, <3>1, <5>2
          <6>2. f[i - 1][2][1] = 100 * (i - 1)
            BY <6>1 DEF RowRight
          <6>3. D[<<i - 1, 0>>] = f[i - 1][2][0 + 1]
            BY <1>7, <2>0, <3>1
          <6> QED
            BY <6>2, <6>3
        <5> QED
          BY <2>0, <2>3, <5>1, <5>2
      <4>3. D[<<i, j>>] <= D[<<i - 1, j>>] + 100
        BY <2>0, <3>7, <4>1, <4>2
      <4> QED
        BY <2>1, <3>7, <4>3
    <3>8. CASE j > 0
      <4>1. j \in 1..m /\ j - 1 \in 0..m /\ (j - 1) + 1 = j
        BY <2>0, <3>8
      <4>2. Cell(s, t, i, p, l, row, j)
        BY <3>2, <4>1 DEF RowRight
      <4>3. D[<<i, j>>] = row[j + 1] /\ D[<<i - 1, j - 1>>] = l[j] /\ D[<<i - 1, j>>] = l[j + 1]
            /\ D[<<i, j - 1>>] = row[j]
        BY <3>3, <4>1
      <4>4. i > 1 /\ j > 1 => D[<<i - 2, j - 2>>] = p[j - 1]
        <5> SUFFICES ASSUME i > 1, j > 1 PROVE D[<<i - 2, j - 2>>] = p[j - 1]
          OBVIOUS
        <5>1. j - 2 \in 0..m /\ (j - 2) + 1 = j - 1
          BY <2>0
        <5> QED
          BY <3>6, <5>1
      <4>5. D[<<i, j>>] <= D[<<i - 1, j - 1>>] + (IF s[i] = t[j] THEN 0 ELSE 100)
        BY <4>2, <4>3 DEF Cell
      <4>6. D[<<i, j>>] <= D[<<i - 1, j>>] + 100 /\ D[<<i, j>>] <= D[<<i, j - 1>>] + 100
        BY <4>2, <4>3 DEF Cell
      <4>7. i > 1 /\ j > 1 /\ s[i] = t[j - 1] /\ s[i - 1] = t[j] => D[<<i, j>>] <= D[<<i - 2, j - 2>>] + 75
        BY <4>2, <4>3, <4>4 DEF Cell
      <4> QED
        BY <2>1, <4>5, <4>6, <4>7
    <3> QED
      BY <2>0, <3>7, <3>8
  <2> QED
    BY <2>0, <2>2, <2>3
<1>10. D[<<0, 0>>] = 0
  BY <1>8 DEF m
<1>11. Matrix(D, s, t)
  BY <1>9, <1>10 DEF Matrix, N, m
<1>12. Cost(s, t) = D[<<Len(s), Len(t)>>]
  <2>1. N \in 0..N /\ m \in 0..m
    BY DEF N, m
  <2>2. Cost(s, t) = D[<<N, m>>]
    BY <1>1, <1>7, <2>1
  <2> QED
    BY <2>2 DEF N, m
<1> QED
  BY <1>11, <1>12

-----------------------------------------------------------------------------
(* Ways through the matrix: along equal letters for nothing, past an edit  *)
(* for at most 100.                                                        *)
LEMMA Diagonal ==
  ASSUME NEW D, NEW s, NEW t, Len(s) \in Nat, Len(t) \in Nat, Matrix(D, s, t),
         NEW i \in Nat, NEW j \in Nat, NEW n \in Nat, i + n <= Len(s), j + n <= Len(t),
         \A k \in 1..n : s[i + k] = t[j + k]
  PROVE  D[<<i + n, j + n>>] <= D[<<i, j>>]
<1> DEFINE G == {k \in 0..n : D[<<i + k, j + k>>] <= D[<<i, j>>]}
<1>0. \A k \in 0..n : i + k \in 0..Len(s) /\ j + k \in 0..Len(t) /\ D[<<i + k, j + k>>] \in Nat
  <2> TAKE k \in 0..n
  <2>1. i + k \in 0..Len(s) /\ j + k \in 0..Len(t)
    OBVIOUS
  <2> QED
    BY <2>1 DEF Matrix
<1>1. 0 \in G
  <2>1. i + 0 = i /\ j + 0 = j /\ 0 \in 0..n
    OBVIOUS
  <2>2. D[<<i, j>>] \in Nat
    BY <1>0, <2>1
  <2>3. D[<<i + 0, j + 0>>] = D[<<i, j>>]
    BY <2>1
  <2> QED
    BY <2>1, <2>2, <2>3
<1>2. ASSUME NEW k \in 0..n, k \in G, k < n PROVE k + 1 \in G
  <2>1. k + 1 \in 0..n /\ k + 1 \in 1..n
    BY <1>2
  <2> DEFINE a == i + (k + 1)
             b == j + (k + 1)
  <2>2. a \in 0..Len(s) /\ b \in 0..Len(t) /\ a > 0 /\ b > 0 /\ a - 1 = i + k /\ b - 1 = j + k
    BY <1>0, <2>1
  <2>3. s[a] = t[b]
    BY <2>1
  <2> HIDE DEF a, b
  <2>4. D[<<a, b>>] <= D[<<a - 1, b - 1>>] + (IF s[a] = t[b] THEN 0 ELSE 100)
    BY <2>2 DEF Matrix
  <2>5. D[<<a, b>>] <= D[<<i + k, j + k>>] + 0
    BY <2>2, <2>3, <2>4
  <2>6. D[<<a, b>>] \in Nat /\ D[<<i + k, j + k>>] \in Nat /\ D[<<i, j>>] \in Nat
    <3>1. i + 0 = i /\ j + 0 = j /\ 0 \in 0..n
      OBVIOUS
    <3> QED
      BY <1>0, <2>1, <3>1 DEF a, b
  <2>7. D[<<i + k, j + k>>] <= D[<<i, j>>]
    BY <1>2
  <2>8. D[<<a, b>>] <= D[<<i, j>>]
    BY <2>5, <2>6, <2>7
  <2> QED
    BY <2>1, <2>8 DEF a, b
<1>3. n \in G
  <2> HIDE DEF G
  <2>1. 0..n \subseteq G
    BY <1>1, <1>2, UpTo
  <2> QED
    BY <2>1
<1> QED
  BY <1>3

LEMMA Detour == \A k, l, m, n \in Nat : k <= l /\ l <= m + 100 /\ m <= n => k <= n + 100
  OBVIOUS

(* Equal letters, one step from (i + a, j + a) to (x, y), equal letters.   *)
LEMMA OneStep ==
  ASSUME NEW D, NEW s, NEW t, Len(s) \in Nat, Len(t) \in Nat, Matrix(D, s, t),
         NEW i \in Nat, NEW j \in Nat, NEW a \in Nat, NEW x \in Nat, NEW y \in Nat, NEW b \in Nat,
         i + a <= Len(s), j + a <= Len(t), x + b <= Len(s), y + b <= Len(t),
         \A k \in 1..a : s[i + k] = t[j + k],
         D[<<x, y>>] <= D[<<i + a, j + a>>] + 100,
         \A k \in 1..b : s[x + k] = t[y + k]
  PROVE  D[<<x + b, y + b>>] <= D[<<i, j>>] + 100
<1>1. D[<<i + a, j + a>>] <= D[<<i, j>>]
  BY Diagonal
<1>2. D[<<x + b, y + b>>] <= D[<<x, y>>]
  BY Diagonal
<1>3. /\ i \in 0..Len(s) /\ j \in 0..Len(t) /\ i + a \in 0..Len(s) /\ j + a \in 0..Len(t)
      /\ x \in 0..Len(s) /\ y \in 0..Len(t) /\ x + b \in 0..Len(s) /\ y + b \in 0..Len(t)
  OBVIOUS
<1>4. /\ D[<<i, j>>] \in Nat /\ D[<<i + a, j + a>>] \in Nat /\ D[<<x, y>>] \in Nat
      /\ D[<<x + b, y + b>>] \in Nat
  BY <1>3 DEF Matrix
<1> DEFINE p == D[<<x + b, y + b>>]
           q == D[<<x, y>>]
           r == D[<<i + a, j + a>>]
           d == D[<<i, j>>]
<1>5. p \in Nat /\ q \in Nat /\ r \in Nat /\ d \in Nat /\ p <= q /\ q <= r + 100 /\ r <= d
  BY <1>1, <1>2, <1>4
<1>6. p <= d + 100
  <2> HIDE DEF p, q, r, d
  <2> QED
    BY <1>5, Detour
<1> QED
  BY <1>6

PartAt(s, i, w) == i + Len(w) <= Len(s) /\ \A k \in 1..Len(w) : s[i + k] = w[k]

LEMMA PartCosts ==
  ASSUME NEW S, Letters \subseteq S, NEW D, NEW s, NEW t, Len(s) \in Nat, Len(t) \in Nat, Matrix(D, s, t),
         NEW i \in Nat, NEW j \in Nat, NEW w \in Seq(S), NEW u \in Edited(w), PartAt(s, i, w), PartAt(t, j, u)
  PROVE  D[<<i + Len(w), j + Len(u)>>] <= D[<<i, j>>] + 100
<1>0. /\ Len(w) \in Nat /\ DOMAIN w = 1..Len(w)
      /\ i + Len(w) <= Len(s) /\ (\A k \in 1..Len(w) : s[i + k] = w[k])
      /\ j + Len(u) <= Len(t) /\ (\A k \in 1..Len(u) : t[j + k] = u[k])
  BY DEF PartAt
<1>1. \/ u = w
      \/ \E e \in DOMAIN w : u = RemoveAt(w, e)
      \/ \E e \in 1..(Len(w) + 1), c \in Letters : u = InsertAt(w, e, c)
      \/ \E e \in DOMAIN w, c \in Letters : u = ReplaceAt(w, e, c)
      \/ \E e \in 1..(Len(w) - 1) : u = Swapped(w, e)
  <2>1. \/ u = w \/ u \in Shorter({w})
        \/ \E e \in 1..(Len(w) + 1), c \in Letters : u = InsertAt(w, e, c)
        \/ \E e \in DOMAIN w, c \in Letters : u = ReplaceAt(w, e, c)
        \/ \E e \in 1..(Len(w) - 1) : u = Swapped(w, e)
    BY DEF Edited, Swapped
  <2> QED
    BY <2>1, ShorterFacts
<1>2. \A x \in 0..Len(s), y \in 0..Len(t) : D[<<x, y>>] \in Nat
  BY DEF Matrix
<1>3. i \in 0..Len(s) /\ (Len(u) \in Nat => j \in 0..Len(t))
  BY <1>0
<1>4. CASE u = w
  <2>1. \A k \in 1..Len(w) : s[i + k] = t[j + k]
    BY <1>0, <1>4
  <2>2. D[<<i + Len(w), j + Len(w)>>] <= D[<<i, j>>]
    BY <1>0, <1>4, <2>1, Diagonal
  <2>3. i + Len(w) \in 0..Len(s) /\ j + Len(w) \in 0..Len(t) /\ j \in 0..Len(t)
    BY <1>0, <1>4
  <2>4. D[<<i, j>>] \in Nat /\ D[<<i + Len(w), j + Len(w)>>] \in Nat
    BY <1>2, <1>3, <2>3
  <2>5. D[<<i + Len(w), j + Len(w)>>] <= D[<<i, j>>] + 100
    BY <2>2, <2>4
  <2> QED
    BY <1>4, <2>5
<1>5. CASE \E e \in DOMAIN w : u = RemoveAt(w, e)
  <2>1. PICK e \in DOMAIN w : u = RemoveAt(w, e)
    BY <1>5
  <2>2. /\ Len(u) = Len(w) - 1
        /\ \A k \in 1..(Len(w) - 1) : u[k] = IF k < e THEN w[k] ELSE w[k + 1]
    BY <2>1, RemoveFacts
  <2> DEFINE a == e - 1
             x == i + e
             y == j + a
             b == Len(w) - e
  <2>3. /\ a \in Nat /\ x \in Nat /\ y \in Nat /\ b \in Nat /\ e \in 1..Len(w)
        /\ i + a <= Len(s) /\ j + a <= Len(t) /\ x + b <= Len(s) /\ y + b <= Len(t)
        /\ x + b = i + Len(w) /\ y + b = j + Len(u)
    <3>1. e \in Nat /\ e >= 1 /\ e <= Len(w) /\ Len(u) \in Nat
      BY <1>0, <2>1, <2>2
    <3>2. a \in Nat /\ x \in Nat /\ y \in Nat /\ b \in Nat /\ e \in 1..Len(w)
      BY <1>0, <3>1
    <3>3. x + b = i + Len(w) /\ y + b = j + Len(u)
      BY <1>0, <2>2, <3>1
    <3>4. i + a <= Len(s) /\ j + a <= Len(t)
      BY <1>0, <2>2, <3>1
    <3> QED
      BY <1>0, <3>2, <3>3, <3>4
  <2>4. \A k \in 1..a : s[i + k] = t[j + k]
    <3> TAKE k \in 1..a
    <3>1. k \in 1..Len(w) /\ k \in 1..(Len(w) - 1) /\ k < e /\ k \in 1..Len(u)
      BY <1>0, <2>1, <2>2
    <3> QED
      BY <1>0, <2>2, <3>1
  <2>5. \A k \in 1..b : s[x + k] = t[y + k]
    <3> TAKE k \in 1..b
    <3>0. e \in 1..Len(w) /\ Len(w) \in Nat /\ Len(u) = Len(w) - 1 /\ k \in 1..(Len(w) - e)
      BY <1>0, <2>2, <2>3
    <3>1. /\ e + k \in 1..Len(w) /\ a + k \in 1..(Len(w) - 1) /\ ~(a + k < e) /\ a + k \in 1..Len(u)
          /\ (a + k) + 1 = e + k /\ x + k = i + (e + k) /\ y + k = j + (a + k)
      <4>0. \A E, K, N, I, J \in Int : 1 <= E /\ E <= N /\ 1 <= K /\ K <= N - E =>
              /\ E + K \in 1..N /\ (E - 1) + K \in 1..(N - 1) /\ ~((E - 1) + K < E)
              /\ ((E - 1) + K) + 1 = E + K /\ (I + E) + K = I + (E + K)
              /\ (J + (E - 1)) + K = J + ((E - 1) + K)
        OBVIOUS
      <4>2. /\ e \in Int /\ k \in Int /\ i \in Int /\ j \in Int /\ Len(w) \in Int
            /\ 1 <= e /\ e <= Len(w) /\ 1 <= k /\ k <= Len(w) - e
        BY <3>0
      <4>1. /\ e + k \in 1..Len(w) /\ a + k \in 1..(Len(w) - 1) /\ ~(a + k < e)
            /\ (a + k) + 1 = e + k /\ x + k = i + (e + k) /\ y + k = j + (a + k)
        BY <4>0, <4>2
      <4> QED
        BY <3>0, <4>1
    <3>2. s[i + (e + k)] = w[e + k]
      BY <1>0, <3>1
    <3>3. t[j + (a + k)] = u[a + k]
      BY <1>0, <3>1
    <3>4. u[a + k] = w[(a + k) + 1]
      BY <2>2, <3>1
    <3> QED
      BY <3>1, <3>2, <3>3, <3>4
  <2>6. D[<<x, y>>] <= D[<<i + a, j + a>>] + 100
    <3>1. x \in 0..Len(s) /\ y \in 0..Len(t) /\ x > 0 /\ x - 1 = i + a
      BY <1>0, <2>1, <2>2
    <3> HIDE DEF x, y, a
    <3>2. D[<<x, y>>] <= D[<<x - 1, y>>] + 100
      BY <3>1 DEF Matrix
    <3> QED
      BY <3>1, <3>2 DEF y
  <2> HIDE DEF a, b, x, y
  <2>7. D[<<x + b, y + b>>] <= D[<<i, j>>] + 100
    BY <2>3, <2>4, <2>5, <2>6, OneStep
  <2> QED
    BY <2>3, <2>7
<1>6. CASE \E e \in 1..(Len(w) + 1), c \in Letters : u = InsertAt(w, e, c)
  <2>1. PICK e \in 1..(Len(w) + 1), c \in S : u = InsertAt(w, e, c)
    BY <1>6
  <2>2. /\ Len(u) = Len(w) + 1
        /\ \A k \in 1..(Len(w) + 1) : u[k] = IF k < e THEN w[k] ELSE IF k = e THEN c ELSE w[k - 1]
    BY <2>1, InsertFacts
  <2> DEFINE a == e - 1
             x == i + a
             y == j + e
             b == Len(w) + 1 - e
  <2>3. /\ a \in Nat /\ x \in Nat /\ y \in Nat /\ b \in Nat /\ e \in 1..(Len(w) + 1)
        /\ i + a <= Len(s) /\ j + a <= Len(t) /\ x + b <= Len(s) /\ y + b <= Len(t)
        /\ x + b = i + Len(w) /\ y + b = j + Len(u)
    BY <1>0, <2>1, <2>2
  <2>4. \A k \in 1..a : s[i + k] = t[j + k]
    <3> TAKE k \in 1..a
    <3>1. k \in 1..Len(w) /\ k \in 1..(Len(w) + 1) /\ k < e /\ k \in 1..Len(u)
      BY <1>0, <2>1, <2>2
    <3> QED
      BY <1>0, <2>2, <3>1
  <2>5. \A k \in 1..b : s[x + k] = t[y + k]
    <3> TAKE k \in 1..b
    <3>1. /\ a + k \in 1..Len(w) /\ e + k \in 1..(Len(w) + 1) /\ ~(e + k < e) /\ e + k # e /\ e + k \in 1..Len(u)
          /\ (e + k) - 1 = a + k /\ x + k = i + (a + k) /\ y + k = j + (e + k)
      BY <1>0, <2>1, <2>2
    <3>2. s[i + (a + k)] = w[a + k]
      BY <1>0, <3>1
    <3>3. t[j + (e + k)] = u[e + k]
      BY <1>0, <3>1
    <3>4. u[e + k] = w[(e + k) - 1]
      BY <2>2, <3>1
    <3> QED
      BY <3>1, <3>2, <3>3, <3>4
  <2>6. D[<<x, y>>] <= D[<<i + a, j + a>>] + 100
    <3>1. x \in 0..Len(s) /\ y \in 0..Len(t) /\ y > 0 /\ y - 1 = j + a
      BY <1>0, <2>1, <2>2
    <3> HIDE DEF x, y, a
    <3>2. D[<<x, y>>] <= D[<<x, y - 1>>] + 100
      BY <3>1 DEF Matrix
    <3> QED
      BY <3>1, <3>2 DEF x
  <2> HIDE DEF a, b, x, y
  <2>7. D[<<x + b, y + b>>] <= D[<<i, j>>] + 100
    BY <2>3, <2>4, <2>5, <2>6, OneStep
  <2> QED
    BY <2>3, <2>7
<1>7. CASE \E e \in DOMAIN w, c \in Letters : u = ReplaceAt(w, e, c)
  <2>1. PICK e \in DOMAIN w, c \in S : u = ReplaceAt(w, e, c)
    BY <1>7
  <2>2. Len(u) = Len(w) /\ \A k \in 1..Len(w) : u[k] = IF k = e THEN c ELSE w[k]
    <3>1. /\ Len(ReplaceAt(w, e, c)) = Len(w)
          /\ \A k \in 1..Len(w) : ReplaceAt(w, e, c)[k] = IF k = e THEN c ELSE w[k]
      BY ReplaceFacts
    <3> QED
      BY <2>1, <3>1
  <2> DEFINE a == e - 1
             x == i + e
             y == j + e
             b == Len(w) - e
  <2>3. /\ a \in Nat /\ x \in Nat /\ y \in Nat /\ b \in Nat /\ e \in 1..Len(w)
        /\ i + a <= Len(s) /\ j + a <= Len(t) /\ x + b <= Len(s) /\ y + b <= Len(t)
        /\ x + b = i + Len(w) /\ y + b = j + Len(u)
    <3>1. e \in 1..Len(w)
      BY <1>0, <2>1
    <3>2. a \in Nat /\ x \in Nat /\ y \in Nat /\ b \in Nat
      BY <1>0, <3>1
    <3>0. Len(u) = Len(w) /\ Len(w) \in Nat /\ e \in Int
      BY <1>0, <2>2, <3>1
    <3>3. x + b = i + Len(w) /\ y + b = j + Len(u)
      BY <3>0
    <3>4. i + a <= Len(s) /\ j + a <= Len(t)
      BY <1>0, <2>2, <3>1
    <3> QED
      BY <1>0, <3>2, <3>3, <3>4
  <2>4. \A k \in 1..a : s[i + k] = t[j + k]
    <3> TAKE k \in 1..a
    <3>1. k \in 1..Len(w) /\ k # e /\ k \in 1..Len(u)
      BY <1>0, <2>1, <2>2
    <3> QED
      BY <1>0, <2>2, <3>1
  <2>5. \A k \in 1..b : s[x + k] = t[y + k]
    <3> TAKE k \in 1..b
    <3>1. /\ e + k \in 1..Len(w) /\ e + k # e /\ e + k \in 1..Len(u)
          /\ x + k = i + (e + k) /\ y + k = j + (e + k)
      BY <1>0, <2>1, <2>2
    <3> QED
      BY <1>0, <2>2, <3>1
  <2>6. D[<<x, y>>] <= D[<<i + a, j + a>>] + 100
    <3>1. x \in 0..Len(s) /\ y \in 0..Len(t) /\ x > 0 /\ y > 0 /\ x - 1 = i + a /\ y - 1 = j + a
          /\ i + a \in 0..Len(s) /\ j + a \in 0..Len(t)
      BY <1>0, <2>1, <2>2
    <3>2. D[<<x, y>>] \in Nat /\ D[<<i + a, j + a>>] \in Nat
      BY <1>2, <3>1
    <3> HIDE DEF x, y, a
    <3>3. D[<<x, y>>] <= D[<<x - 1, y - 1>>] + (IF s[x] = t[y] THEN 0 ELSE 100)
      BY <3>1 DEF Matrix
    <3>4. D[<<x, y>>] <= D[<<i + a, j + a>>] + (IF s[x] = t[y] THEN 0 ELSE 100)
      BY <3>1, <3>3
    <3> QED
      BY <3>2, <3>4
  <2> HIDE DEF a, b, x, y
  <2>7. D[<<x + b, y + b>>] <= D[<<i, j>>] + 100
    BY <2>3, <2>4, <2>5, <2>6, OneStep
  <2> QED
    BY <2>3, <2>7
<1>8. CASE \E e \in 1..(Len(w) - 1) : u = Swapped(w, e)
  <2>1. PICK e \in 1..(Len(w) - 1) : u = Swapped(w, e)
    BY <1>8
  <2>2. /\ Len(u) = Len(w)
        /\ \A k \in 1..Len(w) : u[k] = IF k = e THEN w[e + 1] ELSE IF k = e + 1 THEN w[e] ELSE w[k]
    BY <2>1, SwapFacts
  <2> DEFINE a == e - 1
             x == i + (e + 1)
             y == j + (e + 1)
             b == Len(w) - (e + 1)
  <2>3. /\ a \in Nat /\ x \in Nat /\ y \in Nat /\ b \in Nat /\ e \in 1..Len(w) /\ e + 1 \in 1..Len(w)
        /\ i + a <= Len(s) /\ j + a <= Len(t) /\ x + b <= Len(s) /\ y + b <= Len(t)
        /\ x + b = i + Len(w) /\ y + b = j + Len(u)
    BY <1>0, <2>1, <2>2
  <2>4. \A k \in 1..a : s[i + k] = t[j + k]
    <3> TAKE k \in 1..a
    <3>1. k \in 1..Len(w) /\ k # e /\ k # e + 1 /\ k \in 1..Len(u)
      BY <1>0, <2>1, <2>2
    <3> QED
      BY <1>0, <2>2, <3>1
  <2>5. \A k \in 1..b : s[x + k] = t[y + k]
    <3> TAKE k \in 1..b
    <3> DEFINE h == (e + 1) + k
    <3>1. h \in 1..Len(w) /\ h # e /\ h # e + 1 /\ h \in 1..Len(u) /\ x + k = i + h /\ y + k = j + h
      BY <1>0, <2>1, <2>2
    <3> HIDE DEF h, x, y
    <3> QED
      BY <1>0, <2>2, <3>1
  <2>6. D[<<x, y>>] <= D[<<i + a, j + a>>] + 100
    <3>1. x \in 0..Len(s) /\ y \in 0..Len(t) /\ x > 1 /\ y > 1 /\ x - 2 = i + a /\ y - 2 = j + a
          /\ i + a \in 0..Len(s) /\ j + a \in 0..Len(t) /\ x - 1 = i + e /\ y - 1 = j + e
      BY <1>0, <2>1, <2>2
    <3>2. D[<<x, y>>] \in Nat /\ D[<<i + a, j + a>>] \in Nat
      BY <1>2, <3>1
    <3>3. e + 1 # e /\ e \in 1..Len(u) /\ e + 1 \in 1..Len(u)
      BY <2>2, <2>3
    <3>4. s[i + (e + 1)] = w[e + 1] /\ s[i + e] = w[e] /\ t[j + (e + 1)] = u[e + 1] /\ t[j + e] = u[e]
      BY <1>0, <2>3, <3>3
    <3>5. u[e] = w[e + 1] /\ u[e + 1] = w[e]
      BY <2>2, <2>3, <3>3
    <3>6. s[x] = t[y - 1] /\ s[x - 1] = t[y]
      BY <3>1, <3>4, <3>5
    <3> HIDE DEF x, y, a
    <3>7. D[<<x, y>>] <= D[<<x - 2, y - 2>>] + 75
      BY <3>1, <3>6 DEF Matrix
    <3>8. D[<<x, y>>] <= D[<<i + a, j + a>>] + 75
      BY <3>1, <3>7
    <3> QED
      BY <3>2, <3>8
  <2> HIDE DEF a, b, x, y
  <2>7. D[<<x + b, y + b>>] <= D[<<i, j>>] + 100
    BY <2>3, <2>4, <2>5, <2>6, OneStep
  <2> QED
    BY <2>3, <2>7
<1> QED
  BY <1>1, <1>4, <1>5, <1>6, <1>7, <1>8

LEMMA OnceCosts ==
  ASSUME NEW S, Letters \subseteq S, NEW w \in Seq(S), NEW u \in Edited(w)
  PROVE  /\ u \in Seq(S) /\ Cost(w, u) \in Nat /\ Cost(w, u) <= 100
         /\ DeletionVariants(u) \cap DeletionVariants(w) # {}
<1>1. u \in Seq(S)
  BY EditedFacts
<1>2. Len(w) \in Nat /\ Len(u) \in Nat
  BY <1>1
<1>3. PICK D : Matrix(D, w, u) /\ Cost(w, u) = D[<<Len(w), Len(u)>>]
  BY <1>2, MatrixFacts
<1>4. PartAt(w, 0, w) /\ PartAt(u, 0, u)
  BY <1>1, <1>2 DEF PartAt
<1>5. D[<<0 + Len(w), 0 + Len(u)>>] <= D[<<0, 0>>] + 100
  <2>1. 0 \in Nat
    OBVIOUS
  <2> QED
    BY <1>2, <1>3, <1>4, <2>1, PartCosts
<1>6. D[<<0, 0>>] = 0 /\ D[<<Len(w), Len(u)>>] \in Nat
  <2>1. Len(w) \in 0..Len(w) /\ Len(u) \in 0..Len(u)
    BY <1>2
  <2> QED
    BY <1>3, <2>1 DEF Matrix
<1>7. 0 + Len(w) = Len(w) /\ 0 + Len(u) = Len(u)
  BY <1>2
<1>8. Cost(w, u) \in Nat /\ Cost(w, u) <= 100
  BY <1>3, <1>5, <1>6, <1>7
<1>9. PICK x : x \in Near(u) /\ x \in Near(w)
  BY EditedFacts
<1>10. x \in DeletionVariants(u) /\ x \in DeletionVariants(w)
  BY <1>9 DEF Near, DeletionVariants
<1> QED
  BY <1>1, <1>8, <1>10

LEMMA TwiceCosts ==
  ASSUME NEW S, Letters \subseteq S, NEW w \in Seq(S), NEW z \in EditedTwice(w)
  PROVE  /\ z \in Seq(S) /\ Cost(w, z) \in Nat /\ Cost(w, z) <= 200
         /\ DeletionVariants(z) \cap DeletionVariants(w) # {}
<1>0. Len(w) \in Nat /\ \A k \in 1..Len(w) : w[k] \in S
  OBVIOUS
<1>1. PICK k \in 0..Len(w) : \E u \in Edited(SubSeq(w, 1, k)), v \in Edited(SubSeq(w, k + 1, Len(w))) : z = u \o v
  BY DEF EditedTwice
<1> DEFINE a == SubSeq(w, 1, k)
           b == SubSeq(w, k + 1, Len(w))
<1>2. PICK u \in Edited(a), v \in Edited(b) : z = u \o v
  BY <1>1
<1>3. a \in Seq(S) /\ Len(a) = k /\ \A n \in 1..k : a[n] = w[n]
  <2>1. 1 \in Int /\ k \in Int /\ \A n \in 1..k : w[n] \in S
    BY <1>0
  <2>2. /\ a \in Seq(S) /\ Len(a) = IF 1 <= k THEN k - 1 + 1 ELSE 0
        /\ \A n \in 1..(k - 1 + 1) : a[n] = w[1 + n - 1]
    BY <2>1, SubSeqProperties
  <2>3. \A n \in 1..k : n \in 1..(k - 1 + 1) /\ 1 + n - 1 = n
    BY <1>0
  <2> HIDE DEF a
  <2> QED
    BY <1>0, <2>2, <2>3
<1>4. b \in Seq(S) /\ Len(b) = Len(w) - k /\ \A n \in 1..(Len(w) - k) : b[n] = w[k + n]
  <2>1. k + 1 \in Int /\ Len(w) \in Int /\ \A n \in (k + 1)..Len(w) : w[n] \in S
    BY <1>0
  <2>2. /\ b \in Seq(S) /\ Len(b) = IF k + 1 <= Len(w) THEN Len(w) - (k + 1) + 1 ELSE 0
        /\ \A n \in 1..(Len(w) - (k + 1) + 1) : b[n] = w[(k + 1) + n - 1]
    BY <2>1, SubSeqProperties
  <2>3. \A n \in 1..(Len(w) - k) : n \in 1..(Len(w) - (k + 1) + 1) /\ (k + 1) + n - 1 = k + n
    BY <1>0
  <2> HIDE DEF b
  <2> QED
    BY <1>0, <2>2, <2>3
<1> HIDE DEF a, b
<1>5. u \in Seq(S) /\ v \in Seq(S) /\ Len(u) \in Nat /\ Len(v) \in Nat
  <2>1. u \in Seq(S) /\ v \in Seq(S)
    BY <1>3, <1>4, EditedFacts
  <2> QED
    BY <2>1
<1>6. /\ z \in Seq(S) /\ Len(z) = Len(u) + Len(v)
      /\ \A n \in 1..(Len(u) + Len(v)) : z[n] = IF n <= Len(u) THEN u[n] ELSE v[n - Len(u)]
  BY <1>2, <1>5, ConcatProperties
<1>7. PICK D : Matrix(D, w, z) /\ Cost(w, z) = D[<<Len(w), Len(z)>>]
  <2>1. Len(z) \in Nat
    BY <1>6
  <2> QED
    BY <1>0, <2>1, MatrixFacts
<1>8. PartAt(w, 0, a) /\ PartAt(w, k, b)
  <2>1. 0 + Len(a) <= Len(w) /\ k + Len(b) <= Len(w) /\ \A n \in 1..k : 0 + n = n
    BY <1>0, <1>3, <1>4
  <2> QED
    BY <1>3, <1>4, <2>1 DEF PartAt
<1>9. PartAt(z, 0, u)
  <2>1. 0 + Len(u) <= Len(z) /\ \A n \in 1..Len(u) : 0 + n = n /\ n \in 1..(Len(u) + Len(v)) /\ n <= Len(u)
    BY <1>5, <1>6
  <2> QED
    BY <1>6, <2>1 DEF PartAt
<1>10. PartAt(z, Len(u), v)
  <2>1. /\ Len(u) + Len(v) <= Len(z)
        /\ \A n \in 1..Len(v) : Len(u) + n \in 1..(Len(u) + Len(v)) /\ ~(Len(u) + n <= Len(u)) /\ (Len(u) + n) - Len(u) = n
    BY <1>5, <1>6
  <2>2. \A n \in 1..Len(v) : z[Len(u) + n] = v[n]
    BY <1>6, <2>1
  <2> QED
    BY <2>1, <2>2 DEF PartAt
<1>11. Len(z) \in Nat /\ 0 \in Nat /\ k \in Nat
  BY <1>0, <1>5, <1>6
<1>12. D[<<0 + Len(a), 0 + Len(u)>>] <= D[<<0, 0>>] + 100
  BY <1>0, <1>3, <1>7, <1>8, <1>9, <1>11, PartCosts
<1>13. D[<<k + Len(b), Len(u) + Len(v)>>] <= D[<<k, Len(u)>>] + 100
  BY <1>0, <1>4, <1>5, <1>7, <1>8, <1>10, <1>11, PartCosts
<1>14. 0 + Len(a) = k /\ 0 + Len(u) = Len(u) /\ k + Len(b) = Len(w) /\ Len(u) + Len(v) = Len(z)
  BY <1>0, <1>3, <1>4, <1>5, <1>6
<1>15. D[<<0, 0>>] = 0 /\ D[<<k, Len(u)>>] \in Nat /\ D[<<Len(w), Len(z)>>] \in Nat
  <2>1. k \in 0..Len(w) /\ Len(u) \in 0..Len(z) /\ Len(w) \in 0..Len(w) /\ Len(z) \in 0..Len(z)
    BY <1>0, <1>5, <1>6
  <2> QED
    BY <1>7, <2>1 DEF Matrix
<1>16. D[<<k, Len(u)>>] <= 100
  <2>1. D[<<k, Len(u)>>] <= D[<<0, 0>>] + 100
    BY <1>12, <1>14
  <2> QED
    BY <1>15, <2>1
<1>17. D[<<Len(w), Len(z)>>] <= D[<<k, Len(u)>>] + 100
  BY <1>13, <1>14
<1>18. Cost(w, z) \in Nat /\ Cost(w, z) <= 200
  BY <1>7, <1>15, <1>16, <1>17
<1>19. PICK x : x \in Near(u) /\ x \in Near(a)
  BY <1>3, EditedFacts
<1>20. PICK y : y \in Near(v) /\ y \in Near(b)
  BY <1>4, EditedFacts
<1>21. x \o y \in DeletionVariants(u \o v)
  BY <1>5, <1>19, <1>20, TogetherNear
<1>22. x \o y \in DeletionVariants(a \o b)
  BY <1>3, <1>4, <1>19, <1>20, TogetherNear
<1>23. a \o b = w
  <2>1. /\ a \o b \in Seq(S) /\ Len(a \o b) = Len(a) + Len(b)
        /\ \A n \in 1..(Len(a) + Len(b)) : (a \o b)[n] = IF n <= Len(a) THEN a[n] ELSE b[n - Len(a)]
    BY <1>3, <1>4, ConcatProperties
  <2>2. Len(a \o b) = Len(w)
    BY <1>0, <1>3, <1>4, <2>1
  <2>3. ASSUME NEW n \in 1..Len(w) PROVE (a \o b)[n] = w[n]
    <3>0. n \in 1..(Len(a) + Len(b)) /\ n \in Int /\ k \in Int
      BY <1>0, <1>3, <1>4
    <3>1. CASE n <= k
      BY <1>3, <2>1, <3>0, <3>1
    <3>2. CASE ~(n <= k)
      <4>1. n - k \in 1..(Len(w) - k) /\ k + (n - k) = n
        BY <1>0, <3>0, <3>2
      <4> QED
        BY <1>3, <1>4, <2>1, <3>0, <3>2, <4>1
    <3> QED
      BY <3>1, <3>2
  <2> QED
    BY <2>1, <2>2, <2>3, SeqEqual
<1> QED
  BY <1>2, <1>6, <1>18, <1>21, <1>22, <1>23

-----------------------------------------------------------------------------
(* The variants of a word are finitely many.                               *)
LEMMA ShorterFinite ==
  ASSUME NEW S, NEW w \in Seq(S)
  PROVE  IsFiniteSet(Shorter({w}))
<1>1. Len(w) \in Nat /\ DOMAIN w = 1..Len(w)
  OBVIOUS
<1> DEFINE f == [i \in DOMAIN w |-> RemoveAt(w, i)]
<1>2. Shorter({w}) = {RemoveAt(w, i) : i \in DOMAIN w}
  BY ShorterFacts
<1>3. f \in Surjection(DOMAIN w, Shorter({w}))
  BY <1>2 DEF Surjection
<1>4. IsFiniteSet(DOMAIN w)
  BY <1>1, FS_Interval
<1> QED
  BY <1>3, <1>4, FS_Surjection

LEMMA VariantsFinite ==
  ASSUME NEW S, NEW w \in Seq(S)
  PROVE  IsFiniteSet(DeletionVariants(w))
<1> DEFINE once == Shorter({w})
           parts == {Shorter({v}) : v \in once}
           f == [v \in once |-> Shorter({v})]
<1>1. IsFiniteSet(once) /\ once \subseteq Seq(S)
  BY ShorterFinite, VariantFacts DEF Near
<1>2. IsFiniteSet(parts)
  <2>1. f \in Surjection(once, parts)
    BY DEF Surjection
  <2> QED
    BY <1>1, <2>1, FS_Surjection
<1>3. \A P \in parts : IsFiniteSet(P)
  BY <1>1, ShorterFinite
<1>4. IsFiniteSet(UNION parts)
  <2> HIDE DEF parts
  <2> QED
    BY <1>2, <1>3, FS_UNION
<1>5. Shorter(once) = UNION parts
  <2>1. ASSUME NEW v PROVE v \in Shorter(once) <=> v \in UNION parts
    <3>1. v \in Shorter(once) <=> \E u \in once : \E i \in DOMAIN u : v = RemoveAt(u, i)
      BY ShorterFacts
    <3>2. \A u : v \in Shorter({u}) <=> \E i \in DOMAIN u : v = RemoveAt(u, i)
      BY ShorterFacts
    <3>3. v \in UNION parts <=> \E u \in once : v \in Shorter({u})
      OBVIOUS
    <3> QED
      BY <3>1, <3>2, <3>3
  <2> QED
    BY <2>1
<1>6. IsFiniteSet({w})
  BY FS_Singleton
<1>7. IsFiniteSet({w} \cup once)
  BY <1>1, <1>6, FS_Union
<1>8. IsFiniteSet(({w} \cup once) \cup Shorter(once))
  BY <1>4, <1>5, <1>7, FS_Union
<1> QED
  BY <1>8 DEF DeletionVariants

-----------------------------------------------------------------------------
(* The corpus, and what it gives reason to compare.                        *)
LEMMA TargetFacts ==
  /\ Len(Targets) \in Nat /\ DOMAIN Targets = 1..Len(Targets)
  /\ \A t \in DOMAIN Targets : Targets[t].name \in PackageName
<1> DEFINE Target == [name : PackageName, watched : BOOLEAN, prominent : BOOLEAN]
<1>1. Targets \in Seq(Target)
  BY DetectorAssumption
<1>2. Len(Targets) \in Nat /\ DOMAIN Targets = 1..Len(Targets)
  BY <1>1
<1>3. \A t \in DOMAIN Targets : Targets[t] \in Target
  <2> HIDE DEF Target
  <2> QED
    BY <1>1, <1>2, ElementOfSeq
<1>4. \A x \in Target : x.name \in PackageName
  OBVIOUS
<1> HIDE DEF Target
<1> QED
  BY <1>2, <1>3, <1>4

LEMMA SelectedFinite ==
  ASSUME NEW name
  PROVE  Selected(name) \subseteq DOMAIN Targets /\ IsFiniteSet(Selected(name))
<1>1. Selected(name) \subseteq DOMAIN Targets
  BY DEF Selected
<1>2. IsFiniteSet(DOMAIN Targets)
  BY TargetFacts, FS_Interval
<1> QED
  BY <1>1, <1>2, FS_Subset

LEMMA RankFormed ==
  ASSUME NEW name \in PackageName, NEW t \in DOMAIN Targets
  PROVE  /\ DOMAIN Rank(name, t) = 1..7 /\ \A i \in 1..7 : Rank(name, t)[i] \in Int
         /\ Rank(name, t)[7] = t
<1> DEFINE target == Targets[t]
           reasons == Reasons(name, target)
           word == Compact(name)
           other == Compact(target.name)
           variants == DeletionVariants(word)
           exact == IF other \in variants \ {word} THEN 1 ELSE 0
           some == reasons \ {"deletion"}
           common == variants \cap DeletionVariants(other)
           matches == Cardinality(some) + exact + Cardinality(common)
           apart == IF Len(word) > Len(other) THEN Len(word) - Len(other) ELSE Len(other) - Len(word)
           how == IF reasons \cap {"compact", "confusable"} # {} THEN -4
                  ELSE IF "basename" \in reasons THEN -3
                  ELSE IF "deletion" \in reasons THEN -2 ELSE -1
           watched == IF target.watched \/ target.name \in Watchlist THEN 0 ELSE 1
           prominent == IF target.prominent THEN 0 ELSE 1
<1>1. word \in Seq(STRING) /\ other \in Seq(STRING)
  <2>1. name.base \in Seq(STRING) /\ target.name.base \in Seq(STRING)
    BY TargetFacts DEF PackageName
  <2> HIDE DEF target
  <2> QED
    BY <2>1, CompactFacts
<1>2. Cardinality(common) \in Nat
  <2>1. IsFiniteSet(variants)
    BY <1>1, VariantsFinite
  <2>2. IsFiniteSet(common)
    BY <2>1, FS_Intersection
  <2> QED
    BY <2>2, FS_CardinalityType
<1>3. Cardinality(some) \in Nat
  <2>1. reasons \subseteq (((({"compact"} \cup {"basename"}) \cup {"confusable"}) \cup {"deletion"}) \cup {"scope"})
    BY DEF Reasons
  <2>2. IsFiniteSet(((({"compact"} \cup {"basename"}) \cup {"confusable"}) \cup {"deletion"}) \cup {"scope"})
    BY FS_Singleton, FS_Union
  <2>3. some \subseteq (((({"compact"} \cup {"basename"}) \cup {"confusable"}) \cup {"deletion"}) \cup {"scope"})
    BY <2>1
  <2> HIDE DEF some
  <2>4. IsFiniteSet(some)
    BY <2>2, <2>3, FS_Subset
  <2> QED
    BY <2>4, FS_CardinalityType
<1>4. exact \in Int /\ how \in Int /\ watched \in Int /\ prominent \in Int /\ t \in Int
  BY TargetFacts
<1>5. Len(word) \in Nat /\ Len(other) \in Nat
  BY <1>1
<1>6. Rank(name, t) = <<how, -exact, -matches, apart, watched, prominent, t>>
  BY Zenon DEF Rank
<1> HIDE DEF common, some, exact, how, watched, prominent, word, other
<1>7. matches \in Int /\ apart \in Int /\ -exact \in Int
  BY <1>2, <1>3, <1>4, <1>5
<1>8. -matches \in Int
  BY <1>7
<1> HIDE DEF matches, apart
<1> QED
  BY <1>4, <1>6, <1>7, <1>8

Sevenfold(p) == DOMAIN p = 1..7 /\ \A i \in 1..7 : p[i] \in Int

LEMMA BeforeFacts ==
  ASSUME NEW p, NEW q, NEW r, Sevenfold(p), Sevenfold(q), Sevenfold(r)
  PROVE  /\ ~Before(p, p)
         /\ Before(p, q) /\ Before(q, r) => Before(p, r)
         /\ p[7] # q[7] => Before(p, q) \/ Before(q, p)
<1>1. ~Before(p, p)
  BY DEF Before, Sevenfold
<1>2. ASSUME Before(p, q), Before(q, r) PROVE Before(p, r)
  <2>1. PICK i \in 1..7 : p[i] < q[i] /\ \A j \in 1..(i - 1) : p[j] = q[j]
    BY <1>2 DEF Before, Sevenfold
  <2>2. PICK k \in 1..7 : q[k] < r[k] /\ \A j \in 1..(k - 1) : q[j] = r[j]
    BY <1>2 DEF Before, Sevenfold
  <2>3. /\ p[i] \in Int /\ q[i] \in Int /\ r[i] \in Int
        /\ p[k] \in Int /\ q[k] \in Int /\ r[k] \in Int
    BY DEF Sevenfold
  <2>4. CASE i < k
    <3>1. i \in 1..(k - 1) /\ \A j \in 1..(i - 1) : j \in 1..(k - 1)
      BY <2>4
    <3>2. p[i] < r[i] /\ \A j \in 1..(i - 1) : p[j] = r[j]
      BY <2>1, <2>2, <3>1
    <3> QED
      BY <3>2 DEF Before, Sevenfold
  <2>5. CASE k < i
    <3>1. k \in 1..(i - 1) /\ \A j \in 1..(k - 1) : j \in 1..(i - 1)
      BY <2>5
    <3>2. p[k] < r[k] /\ \A j \in 1..(k - 1) : p[j] = r[j]
      BY <2>1, <2>2, <3>1
    <3> QED
      BY <3>2 DEF Before, Sevenfold
  <2>6. CASE k = i
    <3>1. p[i] < r[i] /\ \A j \in 1..(i - 1) : p[j] = r[j]
      BY <2>1, <2>2, <2>3, <2>6
    <3> QED
      BY <3>1 DEF Before, Sevenfold
  <2> QED
    BY <2>4, <2>5, <2>6
<1>3. ASSUME p[7] # q[7] PROVE Before(p, q) \/ Before(q, p)
  <2> DEFINE T == {i \in 1..7 : p[i] # q[i]}
  <2>1. T \subseteq Nat /\ T # {}
    BY <1>3
  <2>2. PICK i \in T : \A j \in T : i <= j
    <3> HIDE DEF T
    <3> QED
      BY <2>1, LeastNumber
  <2>3. i \in 1..7 /\ p[i] # q[i] /\ p[i] \in Int /\ q[i] \in Int
    BY DEF Sevenfold
  <2>4. ASSUME NEW j \in 1..(i - 1) PROVE p[j] = q[j] /\ q[j] = p[j]
    <3>1. j \in 1..7 /\ ~(i <= j)
      BY <2>3
    <3>2. j \notin T
      BY <2>2, <3>1
    <3> QED
      BY <3>1, <3>2
  <2>5. p[i] < q[i] \/ q[i] < p[i]
    BY <2>3
  <2> HIDE DEF T
  <2> QED
    BY <2>3, <2>4, <2>5 DEF Before, Sevenfold
<1> QED
  BY <1>1, <1>2, <1>3

(* The ranking lists what was selected: nothing is lost or listed twice.   *)
LEMMA RankedFacts ==
  ASSUME NEW name \in PackageName
  PROVE  /\ Ranked(name) \in Seq(Selected(name)) /\ Range(Ranked(name)) = Selected(name)
         /\ Len(Ranked(name)) \in Nat
<1> DEFINE S == Selected(name)
           rank == [t \in S |-> Rank(name, t)]
           B == {x \in S \X S : Before(rank[x[1]], rank[x[2]])}
           q == Ranked(name)
<1>1. S \subseteq DOMAIN Targets /\ IsFiniteSet(S)
  BY SelectedFinite
<1>2. \A t \in S : Sevenfold(rank[t]) /\ rank[t][7] = t
  BY <1>1, RankFormed DEF Sevenfold
<1>3. \A u, t \in S : <<u, t>> \in B <=> Before(rank[u], rank[t])
  <2> HIDE DEF rank
  <2> QED
    OBVIOUS
<1>4. StrictOrder(B, S)
  <2> HIDE DEF B, S, rank
  <2>1. \A n \in S : <<n, n>> \notin B
    BY <1>2, <1>3, BeforeFacts
  <2>2. \A m, n \in S : m # n => <<m, n>> \in B \/ <<n, m>> \in B
    BY <1>2, <1>3, BeforeFacts
  <2>3. \A k, m, n \in S : <<k, m>> \in B /\ <<m, n>> \in B => <<k, n>> \in B
    BY <1>2, <1>3, BeforeFacts
  <2> QED
    BY <2>1, <2>2, <2>3 DEF StrictOrder
<1>5. \A t \in S : {u \in S : Before(rank[u], rank[t])} = BelowIn(B, S, t)
  <2> HIDE DEF B, rank
  <2> QED
    BY <1>3 DEF BelowIn
<1> DEFINE at(n) == CHOOSE t \in S : Cardinality({u \in S : Before(rank[u], rank[t])}) = n - 1
<1>6. q = [n \in 1..Cardinality(S) |-> at(n)]
  BY Zenon DEF Ranked
<1>7. RankedBy(B, S, q)
  <2>1. q = [i \in 1..Cardinality(S) |-> q[i]] /\ \A i \in 1..Cardinality(S) : q[i] = at(i)
    <3> HIDE DEF q, S, at
    <3> QED
      BY <1>6
  <2>2. ASSUME NEW i \in 1..Cardinality(S), \E n \in S : Cardinality(BelowIn(B, S, n)) = i - 1
        PROVE  at(i) \in S /\ Cardinality(BelowIn(B, S, at(i))) = i - 1
    <3>1. \E t \in S : Cardinality({u \in S : Before(rank[u], rank[t])}) = i - 1
      <4> HIDE DEF B, S, rank
      <4> QED
        BY <1>5, <2>2
    <3>2. at(i) \in S /\ Cardinality({u \in S : Before(rank[u], rank[at(i)])}) = i - 1
      <4> HIDE DEF B, S, rank
      <4> QED
        BY <3>1
    <3> HIDE DEF B, S, rank, at
    <3> QED
      BY <1>5, <3>2
  <2> HIDE DEF B, S, rank, at, q
  <2> QED
    BY <2>1, <2>2 DEF RankedBy
<1> HIDE DEF S, B, q
<1>8. q \in Seq(S) /\ Range(q) = S /\ Len(q) = Cardinality(S)
  BY <1>1, <1>4, <1>7, RankFacts
<1>9. Len(q) \in Nat
  BY <1>8
<1> QED
  BY <1>8, <1>9 DEF S, q

-----------------------------------------------------------------------------
(* What a scan is given.                                                   *)
LEMMA ScanFacts ==
  ASSUME NEW s \in Scans
  PROVE  /\ s.packages \in Seq(ObservedPackage) /\ s.maxPackages \in Nat /\ s.maxCandidates \in Nat
         /\ s.maxComparisons \in Nat /\ s.maxDistance \in Nat /\ s.maxDistance >= 25
         /\ \A p \in ToSet(s.packages) :
              p \in ObservedPackage /\ IsFiniteSet(p.evidence) /\ IsFiniteSet(p.signals) /\ IsFiniteSet(p.contexts)
<1> DEFINE Packages == Seq(ObservedPackage)
<1>1. s \in [packages : Packages, maxPackages : Nat, maxCandidates : Nat, maxComparisons : Nat, maxDistance : Nat]
  BY DetectorAssumption
<1>2. /\ s.packages \in Packages /\ s.maxPackages \in Nat /\ s.maxCandidates \in Nat
      /\ s.maxComparisons \in Nat /\ s.maxDistance \in Nat
  <2> HIDE DEF Packages
  <2> QED
    BY <1>1
<1>3. s.maxDistance >= 25 /\ \A p \in ToSet(s.packages) :
         IsFiniteSet(p.evidence) /\ IsFiniteSet(p.signals) /\ IsFiniteSet(p.contexts)
  BY DetectorAssumption
<1>4. \A p \in ToSet(s.packages) : p \in ObservedPackage
  <2>1. s.packages \in Seq(ObservedPackage)
    BY <1>2
  <2>2. \A i \in DOMAIN s.packages : s.packages[i] \in ObservedPackage
    <3> HIDE DEF Packages
    <3>1. DOMAIN s.packages = 1..Len(s.packages)
      BY <2>1
    <3> QED
      BY <2>1, <3>1, ElementOfSeq
  <2> QED
    BY <2>2 DEF ToSet
<1> QED
  BY <1>2, <1>3, <1>4

LEMMA PackageFacts ==
  ASSUME NEW p \in ObservedPackage
  PROVE  p.name \in PackageName /\ p.contexts \subseteq (STRING \X Nat)
BY DEF ObservedPackage

LEMMA NameFacts ==
  ASSUME NEW name \in PackageName
  PROVE  name.base \in Seq(STRING) /\ Compact(name) \in Seq(STRING)
<1>1. name.base \in Seq(STRING)
  BY DEF PackageName
<1> QED
  BY <1>1, CompactFacts

LEMMA LettersAreCharacters == Letters \subseteq STRING
<1>1. ASSUME NEW s \in Scans, NEW p \in ToSet(s.packages), NEW c \in ToSet(p.name.base)
      PROVE  c \in STRING
  <2>1. p.name \in PackageName
    BY ScanFacts, PackageFacts
  <2>2. p.name.base \in Seq(STRING)
    BY <2>1, NameFacts
  <2>3. PICK i \in DOMAIN p.name.base : c = p.name.base[i]
    BY DEF ToSet
  <2>4. DOMAIN p.name.base = 1..Len(p.name.base)
    BY <2>2
  <2> QED
    BY <2>2, <2>3, <2>4, ElementOfSeq
<1>2. ASSUME NEW c \in Letters PROVE c \in STRING
  <2>1. PICK s \in Scans : c \in UNION {ToSet(p.name.base) : p \in ToSet(s.packages)}
    BY DEF Letters
  <2>2. PICK p \in ToSet(s.packages) : c \in ToSet(p.name.base)
    BY <2>1
  <2> QED
    BY <1>1, <2>2
<1> QED
  BY <1>2

-----------------------------------------------------------------------------
(* What a look-alike costs, and that the index knows it.                   *)
LEMMA LookalikeFacts ==
  ASSUME NEW name \in PackageName, NEW t \in DOMAIN Targets, Lookalike(name, t)
  PROVE  LET word == Compact(name)
             other == Compact(Targets[t].name)
         IN  /\ Len(word) \in Nat /\ Len(other) \in Nat
             /\ \/ word = other \/ Skeleton(name) = Skeleton(Targets[t].name)
                \/ /\ Len(word) >= 5 /\ Len(other) >= 5
                   /\ Cost(other, word) \in Nat /\ Cost(other, word) <= 100
                   /\ DeletionVariants(word) \cap DeletionVariants(other) # {}
                \/ /\ Len(word) >= 8 /\ Len(other) >= 8
                   /\ Cost(other, word) \in Nat /\ Cost(other, word) <= 200
                   /\ DeletionVariants(word) \cap DeletionVariants(other) # {}
<1> DEFINE word == Compact(name)
           other == Compact(Targets[t].name)
<1>1. word \in Seq(STRING) /\ other \in Seq(STRING)
  BY TargetFacts, NameFacts
<1>2. Len(word) \in Nat /\ Len(other) \in Nat
  BY <1>1
<1>3. OneEdit[t] = Edited(other) /\ TwoEdits[t] = EditedTwice(other)
  BY DEF OneEdit, TwoEdits
<1>4. \/ word = other \/ Skeleton(name) = Skeleton(Targets[t].name)
      \/ Len(word) >= 5 /\ Len(other) >= 5 /\ word \in Edited(other)
      \/ Len(word) >= 8 /\ Len(other) >= 8 /\ word \in EditedTwice(other)
  BY <1>3 DEF Lookalike
<1> HIDE DEF word, other
<1>5. word \in Edited(other) =>
        /\ Cost(other, word) \in Nat /\ Cost(other, word) <= 100
        /\ DeletionVariants(word) \cap DeletionVariants(other) # {}
  BY <1>1, LettersAreCharacters, OnceCosts
<1>6. word \in EditedTwice(other) =>
        /\ Cost(other, word) \in Nat /\ Cost(other, word) <= 200
        /\ DeletionVariants(word) \cap DeletionVariants(other) # {}
  BY <1>1, LettersAreCharacters, TwiceCosts
<1>7. /\ Len(word) \in Nat /\ Len(other) \in Nat
      /\ \/ word = other \/ Skeleton(name) = Skeleton(Targets[t].name)
         \/ /\ Len(word) >= 5 /\ Len(other) >= 5
            /\ Cost(other, word) \in Nat /\ Cost(other, word) <= 100
            /\ DeletionVariants(word) \cap DeletionVariants(other) # {}
         \/ /\ Len(word) >= 8 /\ Len(other) >= 8
            /\ Cost(other, word) \in Nat /\ Cost(other, word) <= 200
            /\ DeletionVariants(word) \cap DeletionVariants(other) # {}
  BY <1>2, <1>4, <1>5, <1>6, Zenon
<1> QED
  BY <1>7 DEF word, other

LEMMA LookalikeIsSelected ==
  ASSUME NEW name \in PackageName, NEW t \in DOMAIN Targets, Targets[t].name # name, Lookalike(name, t)
  PROVE  t \in Selected(name)
<1>1. Reasons(name, Targets[t]) # {}
  <2>1. \/ Compact(name) = Compact(Targets[t].name) \/ Skeleton(name) = Skeleton(Targets[t].name)
        \/ DeletionVariants(Compact(name)) \cap DeletionVariants(Compact(Targets[t].name)) # {}
    BY LookalikeFacts
  <2>2. \/ "compact" \in Reasons(name, Targets[t]) \/ "confusable" \in Reasons(name, Targets[t])
        \/ "deletion" \in Reasons(name, Targets[t])
    BY <2>1 DEF Reasons
  <2> QED
    BY <2>2
<1> QED
  BY <1>1 DEF Selected

(* 25 percent of five letters is more than an edit, of eight letters two.  *)
LEMMA DistanceAllows ==
  ASSUME NEW m \in Nat, m >= 25, NEW long \in Nat, NEW n \in Nat, long >= n
  PROVE  25 * n <= m * long
<1>1. m - 25 \in Nat
  OBVIOUS
<1>2. (m - 25) * long \in Nat
  BY <1>1
<1>3. m * long = 25 * long + (m - 25) * long
  OBVIOUS
<1>4. 25 * n <= 25 * long
  OBVIOUS
<1> QED
  BY <1>2, <1>3, <1>4

LEMMA LookalikeIsAccepted ==
  ASSUME NEW name \in PackageName, NEW t \in DOMAIN Targets, Lookalike(name, t),
         NEW m \in Nat, m >= 25
  PROVE  Gate(Targets[t], name, m).accepted
<1> DEFINE target == Targets[t]
           word == Compact(name)
           other == Compact(target.name)
           cost == Cost(other, word)
           short == IF Len(word) < Len(other) THEN Len(word) ELSE Len(other)
           long == IF Len(word) < Len(other) THEN Len(other) ELSE Len(word)
           same == word = other \/ Skeleton(name) = Skeleton(target.name)
           twisted == cost = 75 \/ RepeatedCharacter(other, word)
           special == same \/ twisted \/ (Affix(word, other) /\ long - short <= 2)
           within == cost <= m * long
           graded == CASE short <= 3 -> same
                       [] short = 4 -> same \/ twisted
                       [] short \in 5..7 -> cost <= 100 \/ special
                       [] OTHER -> (cost <= 200 /\ within) \/ special
           accepted == graded /\ (within \/ special)
           strong == accepted /\ \/ same
                                 \/ short >= 4 /\ twisted
                                 \/ short >= 5 /\ cost <= 100 /\ cost <= 20 * long
<1>1. /\ Len(word) \in Nat /\ Len(other) \in Nat
      /\ \/ same
         \/ Len(word) >= 5 /\ Len(other) >= 5 /\ cost \in Nat /\ cost <= 100
         \/ Len(word) >= 8 /\ Len(other) >= 8 /\ cost \in Nat /\ cost <= 200
  BY LookalikeFacts
<1>2. Gate(target, name, m) = [accepted |-> accepted, strong |-> strong]
  BY Zenon DEF Gate
<1> HIDE DEF word, other, cost
<1>3. short \in Nat /\ long \in Nat
  BY <1>1
<1>8. accepted => Gate(target, name, m).accepted
  <2> HIDE DEF accepted, strong
  <2>1. CASE accepted
    <3>1. accepted = TRUE
      BY <2>1
    <3>2. Gate(target, name, m) = [accepted |-> TRUE, strong |-> strong]
      BY <1>2, <3>1
    <3>3. \A x : [accepted |-> TRUE, strong |-> x].accepted
      OBVIOUS
    <3>4. [accepted |-> TRUE, strong |-> strong].accepted
      BY <3>3
    <3> QED
      BY <3>2, <3>4
  <2> QED
    BY <2>1
<1>4. same => special
  OBVIOUS
<1>5. CASE same
  <2> HIDE DEF same, special, twisted, within, short
  <2>1. graded
    BY <1>4, <1>5
  <2>2. accepted
    BY <1>4, <1>5, <2>1
  <2> QED
    BY <1>8, <2>2
<1>6. CASE Len(word) >= 5 /\ Len(other) >= 5 /\ cost \in Nat /\ cost <= 100
  <2>1. short >= 5 /\ long >= 5
    BY <1>1, <1>6
  <2> HIDE DEF short, long
  <2>2. 25 * 5 <= m * long
    BY <1>3, <2>1, DistanceAllows
  <2>3. within
    <3>1. m * long \in Int
      BY <1>3
    <3> DEFINE product == m * long
    <3> HIDE DEF product
    <3>2. product \in Int /\ 25 * 5 <= product
      BY <2>2, <3>1 DEF product
    <3>3. cost <= product
      BY <1>6, <3>2
    <3> QED
      BY <3>3 DEF product
  <2>4. cost <= 100 /\ cost <= 200
    BY <1>6
  <2>5. ~(short <= 3) /\ short # 4
    BY <1>3, <2>1
  <2> HIDE DEF same, special, twisted, within
  <2>6. graded
    BY <2>3, <2>4, <2>5
  <2>7. accepted
    BY <2>3, <2>6
  <2> QED
    BY <1>8, <2>7
<1>7. CASE Len(word) >= 8 /\ Len(other) >= 8 /\ cost \in Nat /\ cost <= 200
  <2>1. short >= 8 /\ long >= 8
    BY <1>1, <1>7
  <2> HIDE DEF short, long
  <2>2. 25 * 8 <= m * long
    BY <1>3, <2>1, DistanceAllows
  <2>3. within
    <3>1. m * long \in Int
      BY <1>3
    <3> DEFINE product == m * long
    <3> HIDE DEF product
    <3>2. product \in Int /\ 25 * 8 <= product
      BY <2>2, <3>1 DEF product
    <3>3. cost <= product
      BY <1>7, <3>2
    <3> QED
      BY <3>3 DEF product
  <2>4. cost <= 200
    BY <1>7
  <2>5. ~(short <= 3) /\ short # 4 /\ short \notin 5..7
    BY <1>3, <2>1
  <2> HIDE DEF same, special, twisted, within
  <2>6. graded
    BY <2>3, <2>4, <2>5
  <2>7. accepted
    BY <2>3, <2>6
  <2> QED
    BY <1>8, <2>7
<1> QED
  BY <1>1, <1>5, <1>6, <1>7

-----------------------------------------------------------------------------
(* The strongest alarm.                                                    *)
LEMMA CategoriesSane ==
  ASSUME NEW s \in Scans, NEW p \in ToSet(s.packages)
  PROVE  Sane(Categories(p))
<1>0. IsFiniteSet(p.evidence) /\ IsFiniteSet(p.signals) /\ IsFiniteSet(p.contexts)
  BY ScanFacts
<1> DEFINE contexts == {c[1] : c \in p.contexts}
           ids == {c[2] : c \in p.contexts}
           policy == IF p.name \in Blocklist THEN {"policy:blocklist"} ELSE {}
           D == (contexts \cup p.signals) \cup policy
           given(c) == {x[2] : x \in {y \in p.contexts : y[1] = c}}
                         \cup (IF c \in p.signals \cup policy THEN p.evidence ELSE {})
<1>1. Categories(p) = [c \in D |-> given(c)]
  BY Zenon DEF Categories
<1>2. IsFiniteSet(contexts)
  <2> DEFINE f == [c \in p.contexts |-> c[1]]
  <2>1. f \in Surjection(p.contexts, contexts)
    BY DEF Surjection
  <2> QED
    BY <1>0, <2>1, FS_Surjection
<1>3. IsFiniteSet(ids)
  <2> DEFINE f == [c \in p.contexts |-> c[2]]
  <2>1. f \in Surjection(p.contexts, ids)
    BY DEF Surjection
  <2> QED
    BY <1>0, <2>1, FS_Surjection
<1>4. IsFiniteSet(policy)
  BY FS_Singleton, FS_EmptySet
<1>5. IsFiniteSet(D)
  <2> HIDE DEF contexts, policy
  <2>1. IsFiniteSet(contexts \cup p.signals)
    BY <1>0, <1>2, FS_Union
  <2> QED
    BY <1>4, <2>1, FS_Union
<1>6. \A c \in D : given(c) \subseteq (ids \cup p.evidence)
  OBVIOUS
<1> HIDE DEF D, given, ids
<1>7. IsFiniteSet(ids \cup p.evidence)
  BY <1>0, <1>3, FS_Union
<1>8. Concerned(Categories(p)) \subseteq (ids \cup p.evidence)
  BY <1>1, <1>6 DEF Concerned
<1>9. IsFiniteSet(Concerned(Categories(p)))
  BY <1>7, <1>8, FS_Subset
<1> QED
  BY <1>1, <1>5, <1>9 DEF Sane

LEMMA StrongestAlarm ==
  ASSUME NEW s \in Scans, NEW p \in ToSet(s.packages), NEW strong,
         Classification(p, strong) = "high-confidence"
  PROVE  p.lockfile /\ Corroborated(p)
<1> DEFINE categories == Categories(p)
<1>1. p.lockfile /\ IndependentCategories(categories) >= 2
  <2>1. Classification(p, strong) =
          IF strong /\ p.lockfile /\ IndependentCategories(categories) >= 2 THEN "high-confidence"
          ELSE IF DOMAIN categories # {} THEN "suspicious" ELSE "candidate"
    BY Zenon DEF Classification
  <2> HIDE DEF categories
  <2> QED
    BY <2>1
<1>2. Corroborated(p)
  BY <1>1, CategoriesSane, CountedFacts DEF Corroborated
<1> QED
  BY <1>1, <1>2

-----------------------------------------------------------------------------
(* The first of a sequence.                                                *)
LEMMA FirstFacts ==
  ASSUME NEW S, NEW q \in Seq(S), NEW n \in Nat
  PROVE  /\ First(n, q) \in Seq(S) /\ Len(First(n, q)) = (IF n < Len(q) THEN n ELSE Len(q))
         /\ \A i \in 1..Len(First(n, q)) : First(n, q)[i] = q[i]
         /\ n >= Len(q) => First(n, q) = q
<1> DEFINE m == IF n < Len(q) THEN n ELSE Len(q)
           f == SubSeq(q, 1, m)
<1>0. Len(q) \in Nat /\ \A i \in 1..Len(q) : q[i] \in S
  OBVIOUS
<1>1. First(n, q) = f
  BY Zenon DEF First
<1>2. m \in Nat /\ m <= Len(q)
  BY <1>0
<1> HIDE DEF m
<1>3. 1 \in Int /\ m \in Int /\ \A i \in 1..m : q[i] \in S
  BY <1>0, <1>2
<1>4. /\ f \in Seq(S) /\ Len(f) = IF 1 <= m THEN m - 1 + 1 ELSE 0
      /\ \A i \in 1..(m - 1 + 1) : f[i] = q[1 + i - 1]
  BY <1>3, SubSeqProperties
<1> HIDE DEF f
<1>5. Len(f) = m
  BY <1>2, <1>4
<1>6. \A i \in 1..m : f[i] = q[i]
  <2>1. \A i \in 1..m : i \in 1..(m - 1 + 1) /\ 1 + i - 1 = i
    BY <1>2
  <2> QED
    BY <1>4, <2>1
<1>7. n >= Len(q) => f = q
  <2>1. SUFFICES ASSUME n >= Len(q) PROVE f = q
    OBVIOUS
  <2>2. m = Len(q)
    BY <1>0, <2>1 DEF m
  <2> QED
    BY <1>4, <1>5, <1>6, <2>2, SeqEqual
<1> QED
  BY <1>1, <1>4, <1>5, <1>6, <1>7 DEF m

-----------------------------------------------------------------------------
(* What must be right of the result for a package.                         *)
Reported(result) == {f[1] : f \in result.findings}
Others(package) == {t \in DOMAIN Targets : Targets[t].name # package.name}
Right(package, result) ==
  /\ Reported(result) \subseteq Others(package)
  /\ \/ result.status \in {"invalid", "allowlisted"} /\ Reported(result) = {}
     \/ result.truncated
     \/ \A t \in Others(package) : Lookalike(package.name, t) => t \in Reported(result)
  /\ \A f \in result.findings : f[2] = "high-confidence" => package.lockfile /\ Corroborated(package)

LEMMA UnscannedRight ==
  ASSUME NEW package, NEW status \in {"invalid", "allowlisted"}
  PROVE  Right(package, Unscanned(status)) /\ Unscanned(status).compared = 0
BY DEF Right, Reported, Unscanned

LEMMA ScannedRight ==
  ASSUME scan \in Scans, NEW p \in ToSet(scan.packages), NEW left \in Nat
  PROVE  /\ Right(p, Scanned(p, left))
         /\ Scanned(p, left).compared \in Nat /\ Scanned(p, left).compared <= left
<1> DEFINE ranked == Ranked(p.name)
           candidates == First(scan.maxCandidates, ranked)
           compared == First(left, candidates)
           gates == [t \in ToSet(compared) |-> Gate(Targets[t], p.name, scan.maxDistance)]
           exhausted == Len(candidates) > left
           alarm(t) == Classification(p, gates[t].strong)
           found == {u \in DOMAIN gates : gates[u].accepted}
           findings == {<<t, alarm(t)>> : t \in found}
           cut == exhausted \/ Len(ranked) > scan.maxCandidates
           status == IF exhausted THEN "budget-exhausted" ELSE "scanned"
           S == Selected(p.name)
           r == Scanned(p, left)
<1>0. /\ p \in ObservedPackage /\ p.name \in PackageName /\ scan.maxCandidates \in Nat
      /\ scan.maxDistance \in Nat /\ scan.maxDistance >= 25
  BY ScanFacts, PackageFacts
<1>1. ranked \in Seq(S) /\ Range(ranked) = S /\ Len(ranked) \in Nat
  BY <1>0, RankedFacts
<1>2. S \subseteq Others(p)
  BY DEF Selected, Others
<1>3. r = [status |-> status, findings |-> findings, compared |-> Len(compared), truncated |-> cut]
  BY Zenon DEF Scanned
<1> HIDE DEF ranked, S
<1>4. /\ candidates \in Seq(S) /\ Len(candidates) \in Nat
      /\ Len(ranked) <= scan.maxCandidates => candidates = ranked
  <2>1. candidates \in Seq(S) /\ (scan.maxCandidates >= Len(ranked) => candidates = ranked)
    BY <1>0, <1>1, FirstFacts
  <2>2. Len(candidates) \in Nat
    BY <2>1
  <2> QED
    BY <1>0, <1>1, <2>1, <2>2
<1> HIDE DEF candidates
<1>5. /\ compared \in Seq(S) /\ Len(compared) \in Nat /\ Len(compared) <= left
      /\ Len(candidates) <= left => compared = candidates
  <2>1. /\ compared \in Seq(S) /\ Len(compared) = (IF left < Len(candidates) THEN left ELSE Len(candidates))
        /\ left >= Len(candidates) => compared = candidates
    BY <1>4, FirstFacts
  <2> QED
    BY <1>4, <2>1
<1> HIDE DEF compared
<1>6. ~cut => ToSet(compared) = S
  <2>1. SUFFICES ASSUME ~cut PROVE ToSet(compared) = S
    OBVIOUS
  <2>2. Len(candidates) <= left /\ Len(ranked) <= scan.maxCandidates
    BY <1>0, <1>1, <1>4, <2>1
  <2>3. compared = ranked
    BY <1>4, <1>5, <2>2
  <2> QED
    BY <1>1, <2>3 DEF ToSet, Range
<1>7. ToSet(compared) \subseteq S
  BY <1>5 DEF ToSet
<1>8. DOMAIN gates = ToSet(compared)
  OBVIOUS
<1>9. r.findings = findings /\ r.compared = Len(compared)
  <2> HIDE DEF findings, cut, r, status
  <2> QED
    BY <1>3
<1>10. cut => r.truncated
  <2> HIDE DEF findings, r, status, cut
  <2>1. CASE cut
    <3>1. cut = TRUE
      BY <2>1
    <3>2. r = [status |-> status, findings |-> findings, compared |-> Len(compared), truncated |-> TRUE]
      BY <1>3, <3>1
    <3> QED
      BY <3>2
  <2> QED
    BY <2>1
<1>11. Reported(r) = {t \in ToSet(compared) : gates[t].accepted}
  <2>1. found = {t \in ToSet(compared) : gates[t].accepted}
    OBVIOUS
  <2>2. Reported(r) = found
    <3> HIDE DEF found, alarm, r
    <3>1. \A f : f \in r.findings <=> \E t \in found : f = <<t, alarm(t)>>
      BY <1>9
    <3>2. \A t : <<t, alarm(t)>>[1] = t
      OBVIOUS
    <3>3. \A t : t \in Reported(r) <=> \E f \in r.findings : t = f[1]
      BY DEF Reported
    <3>4. ASSUME NEW t \in Reported(r) PROVE t \in found
      <4>1. PICK f \in r.findings : t = f[1]
        BY <3>3
      <4>2. PICK u \in found : f = <<u, alarm(u)>>
        BY <3>1
      <4>3. t = u
        BY <3>2, <4>1, <4>2, Zenon
      <4> QED
        BY <4>3
    <3>5. ASSUME NEW t \in found PROVE t \in Reported(r)
      <4> DEFINE f == <<t, alarm(t)>>
      <4>1. f[1] = t
        BY <3>2
      <4> HIDE DEF f
      <4>2. f \in r.findings
        BY <3>1 DEF f
      <4> QED
        BY <3>3, <4>1, <4>2
    <3> QED
      BY <3>4, <3>5
  <2> HIDE DEF r, found
  <2> QED
    BY <2>1, <2>2
<1>12. Reported(r) \subseteq Others(p)
  BY <1>2, <1>7, <1>11
<1>13. ASSUME ~cut, NEW t \in Others(p), Lookalike(p.name, t) PROVE t \in Reported(r)
  <2>1. t \in DOMAIN Targets /\ Targets[t].name # p.name
    BY DEF Others
  <2>2. t \in S
    BY <1>0, <1>13, <2>1, LookalikeIsSelected DEF S
  <2>3. Gate(Targets[t], p.name, scan.maxDistance).accepted
    BY <1>0, <1>13, <2>1, LookalikeIsAccepted
  <2>4. t \in ToSet(compared)
    BY <1>6, <1>13, <2>2
  <2>5. gates[t] = Gate(Targets[t], p.name, scan.maxDistance)
    BY <2>4
  <2> HIDE DEF gates, r
  <2> QED
    BY <1>11, <2>3, <2>4, <2>5
<1>14. ASSUME NEW f \in r.findings, f[2] = "high-confidence" PROVE p.lockfile /\ Corroborated(p)
  <2>1. PICK t \in found : f = <<t, alarm(t)>>
    <3> HIDE DEF found, alarm, r
    <3> QED
      BY <1>9, <1>14
  <2>2. Classification(p, gates[t].strong) = "high-confidence"
    BY <1>14, <2>1
  <2> QED
    BY <2>2, StrongestAlarm
<1> HIDE DEF r, cut
<1>15. Right(p, r)
  BY <1>10, <1>12, <1>13, <1>14 DEF Right
<1> QED
  BY <1>5, <1>9, <1>15 DEF r

-----------------------------------------------------------------------------
(* The loop over the packages: the results so far are those of the first   *)
(* packages, and the rest are left.                                        *)
Due == First(scan.maxPackages, scan.packages)
DetectionSound ==
  /\ scan \in Scans
  /\ detection = [status |-> detection.status, left |-> detection.left,
                  comparisons |-> detection.comparisons, results |-> detection.results,
                  truncated |-> detection.truncated]
  /\ detection.status \in {"scanning", "done"}
  /\ detection.results \in Seq(Range(detection.results))
  /\ detection.left \in Seq(ObservedPackage)
  /\ Len(detection.results) + Len(detection.left) = Len(Due)
  /\ \A k \in 1..Len(detection.left) : detection.left[k] = scan.packages[Len(detection.results) + k]
  /\ ~detection.truncated => Len(Due) = Len(scan.packages)
  /\ detection.comparisons \in Nat /\ detection.comparisons <= scan.maxComparisons
  /\ \A i \in 1..Len(detection.results) :
       /\ Right(scan.packages[i], detection.results[i])
       /\ detection.results[i].truncated => detection.truncated
  /\ detection.status = "done" => detection.left = <<>>

DetectionInv ==
  \/ detection = NoDetection /\ (Scans # {} => scan \in Scans)
  \/ DetectionSound

LEMMA DueFacts ==
  ASSUME scan \in Scans
  PROVE  /\ Due \in Seq(ObservedPackage) /\ Len(Due) \in Nat /\ Len(scan.packages) \in Nat
         /\ Len(Due) <= Len(scan.packages) /\ \A i \in 1..Len(Due) : Due[i] = scan.packages[i]
         /\ ~(Len(scan.packages) > scan.maxPackages) => Len(Due) = Len(scan.packages)
<1>1. scan.packages \in Seq(ObservedPackage) /\ scan.maxPackages \in Nat
  BY ScanFacts
<1>2. Len(scan.packages) \in Nat
  BY <1>1
<1>3. /\ Due \in Seq(ObservedPackage)
      /\ Len(Due) = (IF scan.maxPackages < Len(scan.packages) THEN scan.maxPackages ELSE Len(scan.packages))
      /\ \A i \in 1..Len(Due) : Due[i] = scan.packages[i]
  BY <1>1, FirstFacts DEF Due
<1> QED
  BY <1>1, <1>2, <1>3

LEMMA DetectionStarts ==
  ASSUME ServiceInit
  PROVE  DetectionInv
<1>1. CASE NotScanning
  BY <1>1 DEF NotScanning, DetectionInv
<1>2. CASE Scanning
  <2> DEFINE cut == Len(scan.packages) > scan.maxPackages
  <2>1. scan \in Scans
    BY <1>2 DEF Scanning, DetectionInit
  <2>3. detection = [status |-> "scanning", left |-> Due, comparisons |-> 0, results |-> <<>>, truncated |-> cut]
    BY <1>2, Zenon DEF Scanning, DetectionInit, Due
  <2> HIDE DEF cut
  <2>4. /\ detection.status = "scanning" /\ detection.left = Due /\ detection.comparisons = 0
        /\ detection.results = <<>>
    BY <2>3
  <2>5. detection.truncated = cut
    BY <2>3, Zenon
  <2>6. /\ Due \in Seq(ObservedPackage) /\ Len(Due) \in Nat
        /\ \A i \in 1..Len(Due) : Due[i] = scan.packages[i]
        /\ ~cut => Len(Due) = Len(scan.packages)
    BY <2>1, DueFacts DEF cut
  <2>7. ~detection.truncated => Len(Due) = Len(scan.packages)
    BY <2>5, <2>6, Zenon
  <2>8. detection.results \in Seq(Range(detection.results)) /\ Len(detection.results) = 0
    BY <2>4
  <2>9. \A k \in 1..Len(Due) : Due[k] = scan.packages[0 + k]
    <3>1. \A k \in 1..Len(Due) : 0 + k = k
      OBVIOUS
    <3> QED
      BY <2>6, <3>1
  <2>10. 0 + Len(Due) = Len(Due)
    BY <2>6
  <2>11. 0 \in Nat /\ 0 <= scan.maxComparisons
    BY <2>1, ScanFacts
  <2>12. detection = [status |-> detection.status, left |-> detection.left,
                      comparisons |-> detection.comparisons, results |-> detection.results,
                      truncated |-> detection.truncated]
    BY <2>3
  <2>13. \A i \in 1..Len(detection.results) : FALSE
    BY <2>8
  <2>14. detection.status # "done"
    BY <2>4
  <2>15. DetectionSound
    BY <2>1, <2>4, <2>6, <2>7, <2>8, <2>9, <2>10, <2>11, <2>12, <2>13, <2>14 DEF DetectionSound
  <2> QED
    BY <2>15 DEF DetectionInv
<1> QED
  BY <1>1, <1>2 DEF ServiceInit

LEMMA ScanPackageSound ==
  ASSUME DetectionSound, ScanPackage
  PROVE  DetectionSound'
<1> DEFINE package == Head(detection.left)
           budget == scan.maxComparisons - detection.comparisons
           n == Len(detection.results)
           result == IF ~package.valid THEN Unscanned("invalid")
                     ELSE IF package.name \in Allowlist THEN Unscanned("allowlisted")
                     ELSE Scanned(package, budget)
           cut == detection.truncated \/ result.truncated
           rest == Tail(detection.left)
           results == Append(detection.results, result)
           used == detection.comparisons + result.compared
<1>1. /\ detection.status = "scanning" /\ detection.left # <<>> /\ scan' = scan
      /\ detection' = [status |-> "scanning", left |-> rest, comparisons |-> used,
                       results |-> results, truncated |-> cut]
  BY Zenon DEF ScanPackage
<1>2. /\ scan \in Scans
      /\ detection.results \in Seq(Range(detection.results)) /\ detection.left \in Seq(ObservedPackage)
      /\ Len(detection.results) + Len(detection.left) = Len(Due)
      /\ \A k \in 1..Len(detection.left) : detection.left[k] = scan.packages[Len(detection.results) + k]
      /\ ~detection.truncated => Len(Due) = Len(scan.packages)
      /\ detection.comparisons \in Nat /\ detection.comparisons <= scan.maxComparisons
      /\ \A i \in 1..Len(detection.results) :
           /\ Right(scan.packages[i], detection.results[i])
           /\ detection.results[i].truncated => detection.truncated
  BY DEF DetectionSound
<1>3. n \in Nat /\ Len(detection.left) \in Nat /\ Len(detection.left) > 0
  BY <1>1, <1>2
<1>4. /\ package = detection.left[1] /\ rest \in Seq(ObservedPackage)
      /\ Len(rest) = Len(detection.left) - 1
      /\ \A k \in 1..Len(rest) : rest[k] = detection.left[k + 1]
  BY <1>1, <1>2, <1>3
<1>5. package = scan.packages[n + 1]
  BY <1>2, <1>3, <1>4
<1>6. package \in ToSet(scan.packages)
  <2>1. /\ scan.packages \in Seq(ObservedPackage) /\ Len(Due) \in Nat /\ Len(scan.packages) \in Nat
        /\ Len(Due) <= Len(scan.packages)
    BY <1>2, ScanFacts, DueFacts
  <2>2. \A a, b, c, d \in Nat : b > 0 /\ a + b = c /\ c <= d => a + 1 \in 1..d
    OBVIOUS
  <2>3. n + Len(detection.left) = Len(Due)
    BY <1>2
  <2>4. n + 1 \in 1..Len(scan.packages)
    <3> HIDE DEF n
    <3> QED
      BY <1>3, <2>1, <2>2, <2>3
  <2>5. DOMAIN scan.packages = 1..Len(scan.packages)
    BY <2>1
  <2> QED
    BY <1>5, <2>4, <2>5 DEF ToSet
<1>7. scan.maxComparisons \in Nat /\ budget \in Nat
  BY <1>2, ScanFacts
<1>8. Right(package, result) /\ result.compared \in Nat /\ result.compared <= budget
  <2> HIDE DEF package, budget
  <2>1. /\ Right(package, Scanned(package, budget)) /\ Scanned(package, budget).compared \in Nat
        /\ Scanned(package, budget).compared <= budget
    BY <1>2, <1>6, <1>7, ScannedRight
  <2>2. \A s \in {"invalid", "allowlisted"} : Right(package, Unscanned(s)) /\ Unscanned(s).compared = 0
    BY UnscannedRight
  <2>3. 0 \in Nat /\ 0 <= budget
    BY <1>7
  <2>4. \/ result = Unscanned("invalid") \/ result = Unscanned("allowlisted") \/ result = Scanned(package, budget)
    BY Zenon
  <2> HIDE DEF result
  <2> QED
    BY <2>1, <2>2, <2>3, <2>4
<1> HIDE DEF package, result, rest, cut
<1>9. used \in Nat /\ used <= scan.maxComparisons
  BY <1>2, <1>7, <1>8
<1>10. /\ Len(results) = n + 1 /\ results \in Seq(Range(results))
       /\ (\A i \in 1..n : results[i] = detection.results[i]) /\ results[n + 1] = result
  <2> DEFINE S == Range(detection.results) \cup {result}
  <2>1. detection.results \in Seq(S) /\ result \in S
    BY <1>2, SequenceRange
  <2> HIDE DEF S
  <2>2. /\ results \in Seq(S) /\ Len(results) = n + 1
        /\ (\A i \in 1..n : results[i] = detection.results[i]) /\ results[n + 1] = result
    BY <2>1, AppendProperties
  <2> HIDE DEF results
  <2>3. results \in Seq(Range(results))
    BY <2>2, SequenceRange
  <2> QED
    BY <2>2, <2>3
<1> HIDE DEF results, used
<1>11. /\ detection'.status = "scanning" /\ detection'.left = rest /\ detection'.comparisons = used
       /\ detection'.results = results
  BY <1>1
<1>12. detection'.truncated = cut
  BY <1>1, Zenon
<1>13. cut <=> (detection.truncated \/ result.truncated)
  BY DEF cut
<1>14. detection' = [status |-> detection'.status, left |-> detection'.left,
                     comparisons |-> detection'.comparisons, results |-> detection'.results,
                     truncated |-> detection'.truncated]
  BY <1>1
<1>15. Due' = Due
  BY <1>1 DEF Due
<1>16. Len(results) + Len(rest) = Len(Due)
  <2>1. \A a, b, c, d \in Int : c = a + 1 /\ d = b - 1 => c + d = a + b
    OBVIOUS
  <2>2. Len(results) \in Int /\ Len(rest) \in Int /\ n \in Int /\ Len(detection.left) \in Int
    BY <1>3, <1>4, <1>10
  <2>3. Len(results) = n + 1 /\ Len(rest) = Len(detection.left) - 1
    BY <1>4, <1>10
  <2>4. n + Len(detection.left) = Len(Due)
    BY <1>2
  <2> HIDE DEF n
  <2> QED
    BY <2>1, <2>2, <2>3, <2>4
<1>17. \A k \in 1..Len(rest) : rest[k] = scan.packages[Len(results) + k]
  <2> TAKE k \in 1..Len(rest)
  <2>0. \A a, b, c, d, j \in Int : 1 <= j /\ j <= d /\ c = a + 1 /\ d = b - 1 => j + 1 \in 1..b /\ a + (j + 1) = c + j
    OBVIOUS
  <2>5. Len(results) \in Int /\ Len(rest) \in Int /\ n \in Int /\ Len(detection.left) \in Int
    BY <1>3, <1>4, <1>10
  <2>3. Len(results) = n + 1 /\ Len(rest) = Len(detection.left) - 1
    BY <1>4, <1>10
  <2>6. k \in Int /\ 1 <= k /\ k <= Len(rest)
    BY <2>5
  <2>1. k + 1 \in 1..Len(detection.left) /\ n + (k + 1) = Len(results) + k
    <3> HIDE DEF n
    <3> QED
      BY <2>0, <2>5, <2>3, <2>6
  <2>2. detection.left[k + 1] = scan.packages[n + (k + 1)]
    BY <1>2, <2>1
  <2> QED
    BY <1>4, <2>1, <2>2
<1>18. ASSUME NEW i \in 1..Len(results)
       PROVE  Right(scan.packages[i], results[i]) /\ (results[i].truncated => detection'.truncated)
  <2>1. CASE i = n + 1
    <3>1. results[i] = result /\ scan.packages[i] = package
      BY <1>5, <1>10, <2>1
    <3> QED
      BY <1>8, <1>12, <1>13, <3>1
  <2>2. CASE i # n + 1
    <3>1. i \in 1..n
      BY <1>3, <1>10, <2>2
    <3>2. results[i] = detection.results[i]
      BY <1>10, <3>1
    <3>3. Right(scan.packages[i], detection.results[i]) /\ (detection.results[i].truncated => detection.truncated)
      BY <1>2, <3>1
    <3> QED
      BY <1>12, <1>13, <3>2, <3>3
  <2> QED
    BY <2>1, <2>2
<1>19. ~detection'.truncated => Len(Due) = Len(scan.packages)
  BY <1>2, <1>12, <1>13
<1>20. detection'.status # "done"
  BY <1>11
<1> QED
  BY <1>1, <1>2, <1>4, <1>9, <1>10, <1>11, <1>14, <1>15, <1>16, <1>17, <1>18, <1>19, <1>20 DEF DetectionSound

LEMMA FinishSound ==
  ASSUME DetectionSound, FinishDetection
  PROVE  DetectionSound'
<1>1. /\ detection.status = "scanning" /\ detection.left = <<>> /\ scan' = scan
      /\ detection' = [detection EXCEPT !.status = "done"]
  BY DEF FinishDetection
<1>2. detection = [status |-> detection.status, left |-> detection.left,
                   comparisons |-> detection.comparisons, results |-> detection.results,
                   truncated |-> detection.truncated]
  BY DEF DetectionSound
<1>3. /\ detection'.left = detection.left /\ detection'.comparisons = detection.comparisons
      /\ detection'.results = detection.results /\ detection'.truncated = detection.truncated
  BY <1>1, <1>2
<1>4. detection' = [status |-> detection'.status, left |-> detection'.left,
                    comparisons |-> detection'.comparisons, results |-> detection'.results,
                    truncated |-> detection'.truncated]
  BY <1>1, <1>2
<1>5. Due' = Due
  BY <1>1 DEF Due
<1> QED
  BY <1>1, <1>3, <1>4, <1>5 DEF DetectionSound

LEMMA DetectionStays ==
  ASSUME DetectionInv, UNCHANGED detectorVars
  PROVE  DetectionInv'
<1>1. scan' = scan /\ detection' = detection
  BY DEF detectorVars
<1>2. Due' = Due
  BY <1>1 DEF Due
<1>3. CASE detection = NoDetection
  <2>1. Scans # {} => scan \in Scans
    BY DEF DetectionInv, DetectionSound
  <2> QED
    BY <1>1, <1>3, <2>1 DEF DetectionInv, NoDetection
<1>4. CASE DetectionSound
  <2>1. DetectionSound'
    BY <1>1, <1>2, <1>4 DEF DetectionSound
  <2> QED
    BY <2>1 DEF DetectionInv
<1> QED
  BY <1>3, <1>4 DEF DetectionInv

LEMMA DetectionStep ==
  ASSUME DetectionInv, DetectionNext
  PROVE  DetectionInv'
<1>1. DetectionSound
  <2>1. detection.status = "scanning"
    BY DEF DetectionNext, ScanPackage, FinishDetection
  <2>2. detection # NoDetection
    BY <2>1 DEF NoDetection
  <2> QED
    BY <2>2 DEF DetectionInv
<1>2. DetectionSound'
  BY <1>1, ScanPackageSound, FinishSound DEF DetectionNext
<1> QED
  BY <1>2 DEF DetectionInv

LEMMA SoundIsExact ==
  ASSUME DetectionInv
  PROVE  AlarmsAreExact
<1>1. SUFFICES ASSUME detection.status = "done", DetectionSound PROVE AlarmsAreExact
  BY DEF AlarmsAreExact, DetectionInv, NoDetection
<1>2. detection.left = <<>>
  BY <1>1 DEF DetectionSound
<1>3. Len(detection.left) = 0
  BY <1>2
<1>4. Len(detection.results) = Len(Due)
  <2>1. detection.results \in Seq(Range(detection.results)) /\ Len(detection.results) + Len(detection.left) = Len(Due)
    BY <1>1 DEF DetectionSound
  <2>2. Len(detection.results) \in Nat
    BY <2>1
  <2> QED
    BY <1>3, <2>1, <2>2
<1>5. ~detection.truncated => Len(detection.results) = Len(scan.packages)
  BY <1>1, <1>4 DEF DetectionSound
<1>6. \A i \in DOMAIN detection.results :
        /\ Right(scan.packages[i], detection.results[i])
        /\ detection.results[i].truncated => detection.truncated
  <2>1. detection.results \in Seq(Range(detection.results))
    BY <1>1 DEF DetectionSound
  <2>2. DOMAIN detection.results = 1..Len(detection.results)
    BY <2>1
  <2> QED
    BY <1>1, <2>2 DEF DetectionSound
<1>7. ASSUME NEW i \in DOMAIN detection.results
      PROVE  LET package == scan.packages[i]
                 result == detection.results[i]
                 reported == {f[1] : f \in result.findings}
                 others == {t \in DOMAIN Targets : Targets[t].name # package.name}
             IN  /\ reported \subseteq others
                 /\ \/ result.status \in {"invalid", "allowlisted"} /\ reported = {}
                    \/ result.truncated /\ detection.truncated
                    \/ \A t \in others : Lookalike(package.name, t) => t \in reported
                 /\ \A f \in result.findings : f[2] = "high-confidence" =>
                      package.lockfile /\ Corroborated(package)
  <2> DEFINE package == scan.packages[i]
             result == detection.results[i]
  <2>1. Right(package, result) /\ (result.truncated => detection.truncated)
    BY <1>6
  <2> HIDE DEF package, result
  <2>2. /\ Reported(result) \subseteq Others(package)
        /\ \/ result.status \in {"invalid", "allowlisted"} /\ Reported(result) = {}
           \/ result.truncated /\ detection.truncated
           \/ \A t \in Others(package) : Lookalike(package.name, t) => t \in Reported(result)
        /\ \A f \in result.findings : f[2] = "high-confidence" => package.lockfile /\ Corroborated(package)
    BY <2>1, Zenon DEF Right
  <2> QED
    BY <2>2, Zenon DEF Reported, Others, package, result
<1> QED
  BY <1>5, <1>7, Zenon DEF AlarmsAreExact

LEMMA DetectionHolds ==
  ASSUME DetectionInv, [ServiceNext]_serviceVars
  PROVE  DetectionInv'
<1>1. CASE DetectionNext
  BY <1>1, DetectionStep
<1>2. CASE UNCHANGED detectorVars
  BY <1>2, DetectionStays
<1> QED
  BY <1>1, <1>2 DEF ServiceNext, serviceVars

(* Whatever lockfile is scanned, with whatever corpus and lists: no        *)
(* look-alike of a trusted name is missed unless a budget cut the scan     *)
(* short and the result says so, no trusted name is reported as its own    *)
(* look-alike, and the strongest alarm has the evidence it claims.         *)
THEOREM AlarmsAlways == ServiceSpec => []AlarmsAreExact
<1>1. ServiceInit => DetectionInv
  BY DetectionStarts
<1>2. DetectionInv /\ [ServiceNext]_serviceVars => DetectionInv'
  BY DetectionHolds
<1>3. DetectionInv => AlarmsAreExact
  BY SoundIsExact
<1> QED
  BY <1>1, <1>2, <1>3, PTL DEF ServiceSpec

-----------------------------------------------------------------------------
(* The two of them next to one another: the types of both, and what is     *)
(* proved of the reviews.                                                  *)
LEMMA ReviewsGoOn == [ServiceNext]_serviceVars => [Next]_vars
BY DEF ServiceNext, serviceVars

LEMMA ServiceTyped ==
  ASSUME Scans # {}, ReviewInv, DetectionInv
  PROVE  ServiceTypeOK
<1>1. ReviewTypeOK
  BY ReviewsTyped
<1>2. scan \in Scans
  BY DEF DetectionInv, DetectionSound
<1>3. Len(Due) \in Nat /\ Len(scan.packages) \in Nat /\ Len(Due) <= Len(scan.packages)
  BY <1>2, DueFacts
<1>4. CASE detection = NoDetection
  <2>1. detection.status = "none" /\ Len(detection.left) = 0 /\ Len(detection.results) = 0
    BY <1>4 DEF NoDetection
  <2>2. Len(detection.left) + Len(detection.results) <= Len(scan.packages)
    BY <1>3, <2>1
  <2> QED
    BY <1>1, <1>2, <2>1, <2>2 DEF ServiceTypeOK
<1>5. CASE DetectionSound
  <2>1. /\ detection.status \in {"scanning", "done"}
        /\ detection.results \in Seq(Range(detection.results)) /\ detection.left \in Seq(ObservedPackage)
        /\ Len(detection.results) + Len(detection.left) = Len(Due)
    BY <1>5 DEF DetectionSound
  <2>2. Len(detection.results) \in Nat /\ Len(detection.left) \in Nat
    BY <2>1
  <2>3. \A k, l, m, n \in Nat : k + l = m /\ m <= n => l + k <= n
    OBVIOUS
  <2>4. Len(detection.left) + Len(detection.results) <= Len(scan.packages)
    BY <1>3, <2>1, <2>2, <2>3
  <2> QED
    BY <1>1, <1>2, <2>1, <2>4 DEF ServiceTypeOK
<1> QED
  BY <1>4, <1>5 DEF DetectionInv

(* The types of the service; there has to be something to scan.            *)
THEOREM ServiceTypes ==
  ASSUME Scans # {}
  PROVE  ServiceSpec => []ServiceTypeOK
<1>1. ServiceInit => ReviewInv /\ DetectionInv
  BY InitHolds, DetectionStarts DEF ServiceInit
<1>2. ReviewInv /\ [ServiceNext]_serviceVars => ReviewInv'
  BY ReviewsGoOn, StepHolds
<1>3. DetectionInv /\ [ServiceNext]_serviceVars => DetectionInv'
  BY DetectionHolds
<1>4. ReviewInv /\ DetectionInv => ServiceTypeOK
  BY ServiceTyped
<1> QED
  BY <1>1, <1>2, <1>3, <1>4, PTL DEF ServiceSpec

(* Nothing a scan detects takes from what the reviews promise.             *)
THEOREM ServiceKeepsPromises ==
  ServiceSpec => []ReviewsAreBacked /\ []AnswerIsInGraph /\ DecidesWhatWasRead
<1>1. ServiceInit => ReviewInv
  BY InitHolds DEF ServiceInit
<1>2. ReviewInv /\ [ServiceNext]_serviceVars => ReviewInv'
  BY ReviewsGoOn, StepHolds
<1>3. ReviewInv => ReviewsAreBacked /\ AnswerIsInGraph
  BY DecisionsBacked, AnswersInGraph
<1>4. ReviewInv /\ [ServiceNext]_serviceVars =>
        [~Decided(finding) /\ Decided(finding') =>
           finding'.detected = finding.detected]_vars
  BY ReviewsGoOn, DecisionStep
<1> QED
  BY <1>1, <1>2, <1>3, <1>4, PTL DEF ServiceSpec, DecidesWhatWasRead

===============================================================================
