---------------------------- MODULE IncidentProofs -----------------------------
(***************************************************************************)
(* What IncidentService and IncidentIndex promise, for every set of calls, *)
(* keys, requests and versions: all that is stored under a key is one      *)
(* request's, a 201 covers what the request is about, and a client that    *)
(* follows nextCursor misses nothing and is given nothing twice.           *)
(***************************************************************************)
EXTENDS IncidentIndex, FiniteSetTheorems, TLAPS

(* The calls that are past the resolution, and all that may have written.  *)
Resolved == {"persisting", "confirming", "affecting", "verifying"}
MayHaveWritten == Resolved \cup {"answered", "failed"}

-----------------------------------------------------------------------------
(* The inductive invariant.  The lane holds every call in progress once,   *)
(* and only the first one has begun: two calls never resolve or write      *)
(* together, so nobody else changes the rows a working call has read.      *)
LaneInv ==
  /\ \A m, n \in DOMAIN lane : lane[m] = lane[n] => m = n
  /\ \A c \in Calls : pc[c] \in Waiting <=> \E n \in DOMAIN lane : lane[n] = c
  /\ \A n \in DOMAIN lane : n > 1 => pc[lane[n]] = "queued"

(* Release n of the request has been resolved against a graph no older     *)
(* than the call.                                                          *)
Covers(c, n) ==
  LET release == Releases[Request[c]][n]
  IN  /\ release.exact \subseteq held[c].found
      /\ \A v \in held[c].graph :
           Package[v] = release.package /\ v \in release.exact \cup release.range
             => v \in held[c].found

(* What a call suspended at each await holds and has stored.               *)
CallInv(c) ==
  /\ held[c].graph \subseteq versions
  /\ held[c].found \subseteq About(Request[c], versions)
  /\ pc[c] = "queued" => held[c].at = 1
  /\ pc[c] = "resolving" =>
       /\ held[c].at \in DOMAIN Releases[Request[c]]
       /\ \A n \in 1..(held[c].at - 1) : Covers(c, n)
       /\ Compatible(c)
  /\ pc[c] \in Resolved => \A n \in DOMAIN Releases[Request[c]] : Covers(c, n)
  /\ pc[c] = "persisting" =>
       /\ held[c].at \in 1..3
       /\ held[c].at = 1 => Compatible(c)
       /\ held[c].at > 1 => evidence[Row(c)] = Request[c]
       /\ held[c].at > 2 => incident[Row(c)] = Request[c]
  /\ pc[c] \in {"confirming", "affecting", "verifying"} =>
       /\ evidence[Row(c)] = Request[c]
       /\ incident[Row(c)] = Request[c]
       /\ Row(c) \in supports
  /\ held[c].left \subseteq held[c].found

(* Whatever is stored under a key, a call of that key got past the         *)
(* resolution.                                                             *)
WrittenByCalls ==
  \A i \in Ids : evidence[i] # NoRequest =>
    \E c \in Calls : Identity[c] = i /\ pc[c] \in MayHaveWritten

IncidentInv ==
  /\ IncidentTypeOK
  /\ LaneInv
  /\ RowsOfOneRequest
  /\ WrittenByCalls
  /\ \A c \in Calls : CallInv(c)
-----------------------------------------------------------------------------
(* The lane.                                                               *)

(* Only the first call of the lane has begun.                              *)
LEMMA FirstAlone ==
  ASSUME IncidentTypeOK, LaneInv, lane # <<>>,
         NEW d \in Calls, d # Head(lane)
  PROVE  pc[d] \notin Working
<1>1. ASSUME pc[d] \in Working PROVE FALSE
  <2>1. PICK n \in DOMAIN lane : lane[n] = d
    BY <1>1 DEF LaneInv, Waiting
  <2>2. n > 1
    BY <2>1 DEF IncidentTypeOK
  <2>3. pc[d] = "queued"
    BY <2>1, <2>2 DEF LaneInv
  <2> QED BY <1>1, <2>3 DEF Working
<1> QED BY <1>1

LEMMA FirstIsWaiting ==
  ASSUME IncidentTypeOK, LaneInv, lane # <<>>
  PROVE  Head(lane) \in Calls /\ pc[Head(lane)] \in Waiting
<1>1. Head(lane) \in Calls /\ 1 \in DOMAIN lane /\ lane[1] = Head(lane)
  BY DEF IncidentTypeOK
<1> QED BY <1>1 DEF LaneInv

(* When the first call settles, the next one may begin.                    *)
LEMMA LaneAdvances ==
  ASSUME IncidentTypeOK, LaneInv, lane # <<>>,
         NEW c \in Calls, c = Head(lane),
         NEW how \in {"answered", "refused", "failed"}, Settles(c, how)
  PROVE  LaneInv'
<1>1. /\ lane \in Seq(Calls) /\ lane' = Tail(lane) /\ Len(lane) \in Nat \ {0}
      /\ Len(lane') = Len(lane) - 1
      /\ \A n \in DOMAIN lane' : lane'[n] = lane[n + 1] /\ n + 1 \in DOMAIN lane
  BY DEF IncidentTypeOK, Settles
<1>2. pc' = [pc EXCEPT ![c] = how] /\ pc'[c] = how
  BY DEF Settles, Goto, IncidentTypeOK
<1>3. \A m, n \in DOMAIN lane' : lane'[m] = lane'[n] => m = n
  BY <1>1 DEF LaneInv
<1>4. \A n \in DOMAIN lane' : lane'[n] # c
  BY <1>1 DEF LaneInv
<1>5. \A n \in DOMAIN lane : n = 1 \/ n - 1 \in DOMAIN lane'
  BY <1>1
<1>6. \A d \in Calls : pc'[d] \in Waiting <=> \E n \in DOMAIN lane' : lane'[n] = d
  <2> TAKE d \in Calls
  <2>1. CASE d = c
    BY <2>1, <1>2, <1>4 DEF Waiting, Working
  <2>2. CASE d # c
    <3>1. pc'[d] = pc[d]
      BY <2>2, <1>2 DEF IncidentTypeOK
    <3>2. (\E n \in DOMAIN lane : lane[n] = d) => \E n \in DOMAIN lane' : lane'[n] = d
      <4>1. ASSUME NEW n \in DOMAIN lane, lane[n] = d
            PROVE  n - 1 \in DOMAIN lane' /\ lane'[n - 1] = d
        BY <4>1, <1>1, <1>5, <2>2
      <4> QED BY <4>1
    <3>3. (\E n \in DOMAIN lane' : lane'[n] = d) => \E n \in DOMAIN lane : lane[n] = d
      BY <1>1
    <3> QED BY <3>1, <3>2, <3>3 DEF LaneInv
  <2> QED BY <2>1, <2>2
<1>7. \A n \in DOMAIN lane' : n > 1 => pc'[lane'[n]] = "queued"
  <2> TAKE n \in DOMAIN lane'
  <2>1. lane'[n] \in Calls /\ lane'[n] # c
    BY <1>1, <1>4
  <2>2. pc[lane[n + 1]] = "queued"
    BY <1>1 DEF LaneInv
  <2> QED BY <1>1, <1>2, <2>1, <2>2 DEF IncidentTypeOK
<1> QED BY <1>3, <1>6, <1>7 DEF LaneInv

(* The first call goes on to its next await.                               *)
LEMMA LaneStays ==
  ASSUME IncidentTypeOK, LaneInv, lane # <<>>,
         NEW c \in Calls, c = Head(lane), pc[c] \in Waiting,
         NEW where \in Working, Goto(c, where), lane' = lane
  PROVE  LaneInv'
<1>1. \A d \in Calls : pc'[d] = IF d = c THEN where ELSE pc[d]
  BY DEF Goto, IncidentTypeOK
<1>2. \A d \in Calls : pc'[d] \in Waiting <=> pc[d] \in Waiting
  BY <1>1 DEF Waiting
<1>3. \A n \in DOMAIN lane : n > 1 => lane[n] \in Calls /\ lane[n] # c
  BY DEF LaneInv, IncidentTypeOK
<1> QED BY <1>1, <1>2, <1>3 DEF LaneInv

(* A call that arrives waits at the end.                                   *)
LEMMA LaneGrows ==
  ASSUME IncidentTypeOK, LaneInv, NEW c \in Calls, Arrive(c)
  PROVE  LaneInv'
<1>1. /\ lane \in Seq(Calls) /\ lane' = Append(lane, c)
      /\ Len(lane) \in Nat /\ Len(lane') = Len(lane) + 1
      /\ lane'[Len(lane) + 1] = c
      /\ \A n \in DOMAIN lane : lane'[n] = lane[n] /\ n \in DOMAIN lane'
      /\ \A n \in DOMAIN lane' : n \in DOMAIN lane \/ n = Len(lane) + 1
      /\ Len(lane) + 1 \in DOMAIN lane'
  BY DEF IncidentTypeOK, Arrive
<1>2. pc[c] = "new" /\ pc' = [pc EXCEPT ![c] = "queued"] /\ pc'[c] = "queued"
  BY DEF Arrive, Goto, IncidentTypeOK
<1>3. \A n \in DOMAIN lane : lane[n] \in Calls /\ lane[n] # c
  BY <1>1, <1>2 DEF LaneInv, Waiting, Working
<1>4. \A m, n \in DOMAIN lane' : lane'[m] = lane'[n] => m = n
  BY <1>1, <1>3 DEF LaneInv
<1>5. \A d \in Calls : pc'[d] \in Waiting <=> \E n \in DOMAIN lane' : lane'[n] = d
  <2> TAKE d \in Calls
  <2>1. CASE d = c
    BY <2>1, <1>1, <1>2 DEF Waiting
  <2>2. CASE d # c
    <3>1. pc'[d] = pc[d]
      BY <2>2, <1>2 DEF IncidentTypeOK
    <3>2. (\E n \in DOMAIN lane' : lane'[n] = d) <=> \E n \in DOMAIN lane : lane[n] = d
      BY <2>2, <1>1
    <3> QED BY <3>1, <3>2 DEF LaneInv
  <2> QED BY <2>1, <2>2
<1>6. \A n \in DOMAIN lane' : n > 1 => pc'[lane'[n]] = "queued"
  BY <1>1, <1>2, <1>3 DEF LaneInv, IncidentTypeOK
<1> QED BY <1>4, <1>5, <1>6 DEF LaneInv

(* A process that stops leaves nobody waiting.                             *)
LEMMA LaneEmpties ==
  ASSUME IncidentTypeOK, Stop
  PROVE  LaneInv'
<1>1. lane' = <<>> /\ \A c \in Calls : pc'[c] \notin Waiting
  BY DEF Stop, Waiting, Working
<1>2. DOMAIN lane' = {}
  BY <1>1
<1> QED BY <1>1, <1>2 DEF LaneInv
-----------------------------------------------------------------------------
(* What a call holds, and the rows.                                        *)

LEMMA RequestsAreRequests ==
  ASSUME NEW c \in Calls
  PROVE  Request[c] \in Requests /\ Row(c) \in Ids /\ Request[c] # NoRequest
BY IncidentAssumption DEF Requests, Row, Ids

LEMMA ReleasesAreListed ==
  ASSUME NEW r \in Requests
  PROVE  Len(Releases[r]) \in Nat \ {0} /\ DOMAIN Releases[r] = 1..Len(Releases[r])
<1>1. PICK R : Releases[r] \in Seq(R) /\ Releases[r] # <<>>
  BY IncidentAssumption
<1> QED BY <1>1

(* A version that is collected stays one the request is about.             *)
LEMMA AboutGrows ==
  ASSUME NEW r, NEW G, NEW H, G \subseteq H
  PROVE  About(r, G) \subseteq About(r, H)
BY DEF About

(* A call that has not begun, or has settled, does not notice a step of    *)
(* another one.                                                            *)
LEMMA OthersKeep ==
  ASSUME NEW d \in Calls, CallInv(d), pc[d] \notin Working,
         pc'[d] = pc[d], held'[d] = held[d], versions \subseteq versions'
  PROVE  CallInv(d)'
<1>1. About(Request[d], versions) \subseteq About(Request[d], versions')
  BY AboutGrows
<1> QED BY <1>1 DEF CallInv, Working, Resolved

LEMMA SettlesEffect ==
  ASSUME IncidentTypeOK, NEW c \in Calls,
         NEW how \in {"answered", "refused", "failed"}, Settles(c, how)
  PROVE  /\ pc' \in [Calls -> Waiting \cup {"new", "answered", "refused", "failed"}]
         /\ held' = [held EXCEPT ![c] = Nothing]
         /\ \A d \in Calls : pc'[d] = IF d = c THEN how ELSE pc[d]
         /\ \A d \in Calls : d # c => held'[d] = held[d]
         /\ CallInv(c)'
<1>1. /\ pc' = [pc EXCEPT ![c] = how] /\ held' = [held EXCEPT ![c] = Nothing]
      /\ pc'[c] = how /\ held'[c] = Nothing
  BY DEF Settles, Goto, Holds, IncidentTypeOK
<1>2. CallInv(c)'
  BY <1>1 DEF CallInv, Nothing, Resolved
<1> QED BY <1>1, <1>2 DEF IncidentTypeOK

LEMMA NothingIsHeld ==
  Nothing \in [at : Nat \ {0}, found : SUBSET Versions,
               left : SUBSET Versions, graph : SUBSET Versions]
BY DEF Nothing

(* A statement of persist() stores the call's own request, because the     *)
(* lane lets no other call in between its check and its rows.              *)
LEMMA PersistedEffect ==
  ASSUME IncidentInv, NEW c \in Calls, pc[c] = "persisting", Persisted(c)
  PROVE  /\ \A i \in Ids : evidence'[i] =
               IF i = Row(c) /\ held[c].at = 1 THEN Request[c] ELSE evidence[i]
         /\ \A i \in Ids : incident'[i] =
               IF i = Row(c) /\ held[c].at = 2 THEN Request[c] ELSE incident[i]
         /\ supports' = IF held[c].at = 3 THEN supports \cup {Row(c)} ELSE supports
         /\ affects' = affects
         /\ evidence' \in [Ids -> Requests \cup {NoRequest}]
         /\ incident' \in [Ids -> Requests \cup {NoRequest}]
<1>1. CallInv(c) /\ IncidentTypeOK /\ RowsOfOneRequest
  BY DEF IncidentInv
<1>2. Request[c] \in Requests /\ Row(c) \in Ids /\ Request[c] # NoRequest
  BY RequestsAreRequests
<1>3. held[c].at = 1 => evidence[Row(c)] \in {NoRequest, Request[c]}
  BY <1>1 DEF CallInv, Compatible
<1>4. held[c].at = 2 => incident[Row(c)] \in {NoRequest, Request[c]}
  BY <1>1, <1>2 DEF CallInv, RowsOfOneRequest
<1>5. /\ evidence' = IF held[c].at = 1 THEN Upserted(evidence, c) ELSE evidence
      /\ incident' = IF held[c].at = 2 THEN Upserted(incident, c) ELSE incident
      /\ supports' = IF held[c].at = 3 THEN supports \cup {Row(c)} ELSE supports
      /\ affects' = affects
  BY DEF Persisted
<1>6. ASSUME NEW row \in [Ids -> Requests \cup {NoRequest}],
             row[Row(c)] \in {NoRequest, Request[c]}
      PROVE  /\ Upserted(row, c) \in [Ids -> Requests \cup {NoRequest}]
             /\ \A i \in Ids :
                  Upserted(row, c)[i] = IF i = Row(c) THEN Request[c] ELSE row[i]
  BY <1>2, <1>6 DEF Upserted
<1>7. /\ evidence \in [Ids -> Requests \cup {NoRequest}]
      /\ incident \in [Ids -> Requests \cup {NoRequest}]
  BY <1>1 DEF IncidentTypeOK
<1>8. CASE held[c].at = 1
  BY <1>8, <1>3, <1>5, <1>6, <1>7
<1>9. CASE held[c].at = 2
  BY <1>9, <1>4, <1>5, <1>6, <1>7
<1>10. CASE held[c].at \notin {1, 2}
  BY <1>10, <1>5, <1>7
<1> QED BY <1>8, <1>9, <1>10

(* Whichever statement commits, all that is stored stays one request's.    *)
LEMMA CommitEffect ==
  ASSUME IncidentInv, NEW c \in Calls, Commits(c), versions' = versions
  PROVE  /\ evidence' \in [Ids -> Requests \cup {NoRequest}]
         /\ incident' \in [Ids -> Requests \cup {NoRequest}]
         /\ supports' \subseteq Ids /\ affects' \subseteq Ids \X Versions
         /\ RowsOfOneRequest'
         /\ \A i \in Ids : evidence'[i] # evidence[i] =>
              i = Row(c) /\ pc[c] = "persisting"
<1>1. /\ CallInv(c) /\ IncidentTypeOK /\ RowsOfOneRequest
      /\ Request[c] \in Requests /\ Row(c) \in Ids /\ Request[c] # NoRequest
  BY RequestsAreRequests DEF IncidentInv
<1>2. CASE pc[c] = "persisting" /\ Persisted(c)
  <2>1. /\ \A i \in Ids : evidence'[i] =
              IF i = Row(c) /\ held[c].at = 1 THEN Request[c] ELSE evidence[i]
        /\ \A i \in Ids : incident'[i] =
              IF i = Row(c) /\ held[c].at = 2 THEN Request[c] ELSE incident[i]
        /\ supports' = IF held[c].at = 3 THEN supports \cup {Row(c)} ELSE supports
        /\ affects' = affects
        /\ evidence' \in [Ids -> Requests \cup {NoRequest}]
        /\ incident' \in [Ids -> Requests \cup {NoRequest}]
    BY <1>2, PersistedEffect
  <2>2. /\ held[c].at \in {1, 2, 3}
        /\ held[c].at = 1 => evidence[Row(c)] \in {NoRequest, Request[c]}
        /\ held[c].at > 1 => evidence[Row(c)] = Request[c]
        /\ held[c].at > 2 => incident[Row(c)] = Request[c]
    BY <1>1, <1>2 DEF CallInv, Compatible
  <2>3. \A i \in Ids : evidence[i] = NoRequest \/ evidence'[i] = evidence[i]
    BY <1>1, <2>1, <2>2
  <2>4. RowsOfOneRequest'
    <3> SUFFICES ASSUME NEW i \in Ids
                 PROVE  /\ incident'[i] # NoRequest => evidence'[i] = incident'[i]
                        /\ i \in supports' => incident'[i] # NoRequest
                        /\ \A v \in Versions : <<i, v>> \in affects' =>
                             i \in supports' /\ v \in About(evidence'[i], versions')
      BY DEF RowsOfOneRequest
    <3>1. /\ incident[i] # NoRequest => evidence[i] = incident[i]
          /\ i \in supports => incident[i] # NoRequest
          /\ \A v \in Versions : <<i, v>> \in affects =>
               i \in supports /\ v \in About(evidence[i], versions)
      BY <1>1 DEF RowsOfOneRequest
    <3>2. incident'[i] # NoRequest => evidence'[i] = incident'[i]
      BY <1>1, <2>1, <2>2, <2>3, <3>1
    <3>3. i \in supports' => incident'[i] # NoRequest
      BY <1>1, <2>1, <2>2, <3>1
    <3>4. ASSUME NEW v \in Versions, <<i, v>> \in affects'
          PROVE  i \in supports' /\ v \in About(evidence'[i], versions')
      <4>1. i \in supports /\ v \in About(evidence[i], versions)
        BY <2>1, <3>1, <3>4
      <4>2. evidence'[i] = evidence[i]
        BY <2>3, <3>1, <4>1
      <4> QED BY <2>1, <4>1, <4>2
    <3> QED BY <3>2, <3>3, <3>4
  <2> QED BY <1>1, <1>2, <2>1, <2>4 DEF IncidentTypeOK
<1>3. CASE pc[c] = "affecting" /\ Affected(c)
  <2>1. /\ evidence' = evidence /\ incident' = incident /\ supports' = supports
        /\ affects' = affects \cup ({Row(c)} \X Chunk(c))
        /\ Row(c) \in supports /\ evidence[Row(c)] = Request[c]
        /\ Chunk(c) \subseteq About(Request[c], versions)
        /\ Chunk(c) \subseteq Versions
    BY <1>1, <1>3 DEF Affected, Chunk, CallInv, IncidentTypeOK
  <2>2. RowsOfOneRequest'
    BY <1>1, <2>1 DEF RowsOfOneRequest
  <2>3. affects' \subseteq Ids \X Versions
    BY <1>1, <2>1 DEF IncidentTypeOK
  <2> QED BY <1>1, <2>1, <2>2, <2>3 DEF IncidentTypeOK
<1> QED BY <1>2, <1>3 DEF Commits
-----------------------------------------------------------------------------
(* The steps.                                                              *)

LEMMA InitHolds == Init => IncidentInv
<1> SUFFICES ASSUME Init PROVE IncidentInv
  OBVIOUS
<1>1. IncidentTypeOK
  BY NothingIsHeld DEF Init, IncidentTypeOK
<1>2. LaneInv
  BY DEF Init, LaneInv, Waiting, Working
<1>3. RowsOfOneRequest /\ WrittenByCalls
  BY DEF Init, RowsOfOneRequest, WrittenByCalls
<1>4. \A c \in Calls : CallInv(c)
  BY DEF Init, CallInv, Nothing, Resolved
<1> QED BY <1>1, <1>2, <1>3, <1>4 DEF IncidentInv

LEMMA RowsStay ==
  ASSUME RowsOfOneRequest, UNCHANGED rows, versions \subseteq versions'
  PROVE  RowsOfOneRequest'
<1>1. \A i \in Ids : About(evidence[i], versions) \subseteq About(evidence[i], versions')
  BY AboutGrows
<1> QED BY <1>1 DEF RowsOfOneRequest, rows

(* A call that may have written keeps saying so.                           *)
LEMMA WritersStay ==
  ASSUME WrittenByCalls,
         \A c \in Calls : pc[c] \in MayHaveWritten => pc'[c] \in MayHaveWritten,
         \A i \in Ids : evidence'[i] # evidence[i] =>
           \E c \in Calls : Identity[c] = i /\ pc'[c] \in MayHaveWritten
  PROVE  WrittenByCalls'
BY DEF WrittenByCalls

LEMMA CollectHolds ==
  ASSUME IncidentInv, NEW v \in Versions, Collect(v)
  PROVE  IncidentInv'
<1>1. versions \subseteq versions' /\ versions' \subseteq Versions
      /\ UNCHANGED <<rows, pc, held, lane>>
  BY DEF Collect, IncidentInv, IncidentTypeOK
<1>2. IncidentTypeOK'
  BY <1>1 DEF IncidentInv, IncidentTypeOK, rows
<1>3. LaneInv'
  BY <1>1 DEF IncidentInv, LaneInv
<1>4. RowsOfOneRequest' /\ WrittenByCalls'
  BY <1>1, RowsStay, WritersStay DEF IncidentInv, rows
<1>5. ASSUME NEW c \in Calls PROVE CallInv(c)'
  <2>1. CallInv(c)
    BY DEF IncidentInv
  <2>2. About(Request[c], versions) \subseteq About(Request[c], versions')
    BY <1>1, AboutGrows
  <2> QED BY <1>1, <2>1, <2>2 DEF CallInv, Covers, Compatible, rows
<1> QED BY <1>2, <1>3, <1>4, <1>5 DEF IncidentInv

LEMMA ArriveHolds ==
  ASSUME IncidentInv, NEW c \in Calls, Arrive(c)
  PROVE  IncidentInv'
<1>1. /\ IncidentTypeOK /\ LaneInv
      /\ versions' = versions /\ UNCHANGED rows /\ lane' = Append(lane, c)
      /\ pc[c] = "new" /\ pc' = [pc EXCEPT ![c] = "queued"]
      /\ held' = [held EXCEPT ![c] = [Nothing EXCEPT !.graph = versions]]
  BY DEF IncidentInv, Arrive, Goto, Holds
<1>2. IncidentTypeOK'
  <2>1. [Nothing EXCEPT !.graph = versions] \in
          [at : Nat \ {0}, found : SUBSET Versions,
           left : SUBSET Versions, graph : SUBSET Versions]
    BY <1>1 DEF IncidentTypeOK, Nothing
  <2>2. held' \in [Calls -> [at : Nat \ {0}, found : SUBSET Versions,
                             left : SUBSET Versions, graph : SUBSET Versions]]
    BY <1>1, <2>1 DEF IncidentTypeOK
  <2>3. pc' \in [Calls -> Waiting \cup {"new", "answered", "refused", "failed"}]
    BY <1>1 DEF IncidentTypeOK, Waiting
  <2>4. lane' \in Seq(Calls)
    BY <1>1 DEF IncidentTypeOK
  <2> QED BY <1>1, <2>2, <2>3, <2>4 DEF IncidentTypeOK, rows
<1>3. LaneInv'
  BY <1>1, LaneGrows
<1>4. RowsOfOneRequest'
  BY <1>1, RowsStay DEF IncidentInv
<1>5. WrittenByCalls'
  BY <1>1, WritersStay DEF IncidentInv, IncidentTypeOK, MayHaveWritten, Resolved, rows
<1>6. ASSUME NEW d \in Calls PROVE CallInv(d)'
  <2>1. CASE d = c
    <3>1. pc'[d] = "queued" /\ held'[d] = [Nothing EXCEPT !.graph = versions]
      BY <1>1, <2>1 DEF IncidentTypeOK
    <3> QED BY <1>1, <3>1 DEF CallInv, Nothing, Resolved
  <2>2. CASE d # c
    <3>1. pc'[d] = pc[d] /\ held'[d] = held[d] /\ CallInv(d)
      BY <1>1, <2>2 DEF IncidentTypeOK, IncidentInv
    <3> QED BY <1>1, <3>1 DEF CallInv, Covers, Compatible, rows
  <2> QED BY <2>1, <2>2
<1> QED BY <1>2, <1>3, <1>4, <1>5, <1>6 DEF IncidentInv

(* A step of the first call that settles it, whatever it stored.           *)
LEMMA SettleHolds ==
  ASSUME IncidentInv, lane # <<>>, NEW c \in Calls, c = Head(lane),
         NEW how \in {"answered", "refused", "failed"}, Settles(c, how),
         UNCHANGED rows \/ Commits(c), UNCHANGED versions,
         how # "refused" \/ (pc[c] \notin MayHaveWritten /\ UNCHANGED rows)
  PROVE  IncidentInv'
<1>1. IncidentTypeOK /\ LaneInv
  BY DEF IncidentInv
<1>2. LaneInv'
  BY <1>1, LaneAdvances
<1>3. /\ pc' \in [Calls -> Waiting \cup {"new", "answered", "refused", "failed"}]
      /\ held' = [held EXCEPT ![c] = Nothing]
      /\ \A d \in Calls : pc'[d] = IF d = c THEN how ELSE pc[d]
      /\ \A d \in Calls : d # c => held'[d] = held[d]
      /\ CallInv(c)'
  BY <1>1, SettlesEffect
<1>4. lane' \in Seq(Calls)
  BY <1>1 DEF IncidentTypeOK, Settles
<1>5. /\ evidence' \in [Ids -> Requests \cup {NoRequest}]
      /\ incident' \in [Ids -> Requests \cup {NoRequest}]
      /\ supports' \subseteq Ids /\ affects' \subseteq Ids \X Versions
      /\ RowsOfOneRequest'
      /\ \A i \in Ids : evidence'[i] # evidence[i] =>
            i = Row(c) /\ pc[c] = "persisting"
  <2>1. CASE UNCHANGED rows
    BY <1>1, <2>1, RowsStay DEF IncidentInv, IncidentTypeOK, rows
  <2>2. CASE Commits(c)
    BY <2>2, CommitEffect
  <2> QED BY <2>1, <2>2
<1>6. IncidentTypeOK'
  BY <1>1, <1>3, <1>4, <1>5, NothingIsHeld DEF IncidentTypeOK
<1>7. WrittenByCalls'
  <2>1. \A d \in Calls : pc[d] \in MayHaveWritten => pc'[d] \in MayHaveWritten
    BY <1>3 DEF MayHaveWritten
  <2>2. \A i \in Ids : evidence'[i] # evidence[i] =>
          Identity[c] = i /\ pc'[c] \in MayHaveWritten
    BY <1>3, <1>5 DEF MayHaveWritten, Resolved, Row, rows
  <2> QED BY <2>1, <2>2, WritersStay DEF IncidentInv
<1>8. ASSUME NEW d \in Calls, d # c PROVE CallInv(d)'
  <2>1. CallInv(d) /\ pc[d] \notin Working
    BY <1>1, <1>8, FirstAlone DEF IncidentInv
  <2> QED BY <1>3, <1>8, <2>1, OthersKeep
<1> QED BY <1>2, <1>3, <1>5, <1>6, <1>7, <1>8 DEF IncidentInv

(* A step of the first call that takes it to its next await.               *)
LEMMA GoOnHolds ==
  ASSUME IncidentInv, lane # <<>>, NEW c \in Calls, c = Head(lane),
         pc[c] \in Waiting, NEW where \in Working, Goto(c, where),
         lane' = lane, UNCHANGED versions,
         NEW changed \in [at : Nat \ {0}, found : SUBSET Versions,
                          left : SUBSET Versions, graph : SUBSET Versions],
         Holds(c, changed),
         UNCHANGED rows \/ Commits(c),
         pc[c] \in Resolved => where \in Resolved,
         CallInv(c)'
  PROVE  IncidentInv'
<1>1. IncidentTypeOK /\ LaneInv
  BY DEF IncidentInv
<1>2. LaneInv'
  BY <1>1, LaneStays
<1>3. /\ pc' = [pc EXCEPT ![c] = where] /\ held' = [held EXCEPT ![c] = changed]
      /\ \A d \in Calls : pc'[d] = IF d = c THEN where ELSE pc[d]
      /\ \A d \in Calls : d # c => held'[d] = held[d]
  BY <1>1 DEF Goto, Holds, IncidentTypeOK
<1>4. /\ evidence' \in [Ids -> Requests \cup {NoRequest}]
      /\ incident' \in [Ids -> Requests \cup {NoRequest}]
      /\ supports' \subseteq Ids /\ affects' \subseteq Ids \X Versions
      /\ RowsOfOneRequest'
      /\ \A i \in Ids : evidence'[i] # evidence[i] =>
            i = Row(c) /\ pc[c] = "persisting"
  <2>1. CASE UNCHANGED rows
    BY <1>1, <2>1, RowsStay DEF IncidentInv, IncidentTypeOK, rows
  <2>2. CASE Commits(c)
    BY <2>2, CommitEffect
  <2> QED BY <2>1, <2>2
<1>5. IncidentTypeOK'
  <2>1. pc' \in [Calls -> Waiting \cup {"new", "answered", "refused", "failed"}]
    BY <1>1, <1>3 DEF IncidentTypeOK, Waiting
  <2>2. held' \in [Calls -> [at : Nat \ {0}, found : SUBSET Versions,
                             left : SUBSET Versions, graph : SUBSET Versions]]
    BY <1>1, <1>3 DEF IncidentTypeOK
  <2> QED BY <1>1, <1>4, <2>1, <2>2 DEF IncidentTypeOK
<1>6. WrittenByCalls'
  <2>1. \A d \in Calls : pc[d] \in MayHaveWritten => pc'[d] \in MayHaveWritten
    BY <1>3 DEF MayHaveWritten, Waiting, Working, Resolved
  <2>2. \A i \in Ids : evidence'[i] # evidence[i] =>
          Identity[c] = i /\ pc'[c] \in MayHaveWritten
    BY <1>3, <1>4 DEF MayHaveWritten, Resolved, Row
  <2> QED BY <2>1, <2>2, WritersStay DEF IncidentInv
<1>7. ASSUME NEW d \in Calls, d # c PROVE CallInv(d)'
  <2>1. CallInv(d) /\ pc[d] \notin Working
    BY <1>1, <1>7, FirstAlone DEF IncidentInv
  <2> QED BY <1>3, <1>7, <2>1, OthersKeep
<1> QED BY <1>2, <1>4, <1>5, <1>6, <1>7 DEF IncidentInv
LEMMA CheckHolds ==
  ASSUME IncidentInv, NEW c \in Calls, Check(c)
  PROVE  IncidentInv'
<1>1. /\ lane # <<>> /\ c = Head(lane) /\ pc[c] = "queued"
      /\ IncidentTypeOK /\ CallInv(c)
      /\ versions' = versions /\ UNCHANGED rows
  BY DEF Check, At, IncidentInv
<1>2. CASE Compatible(c)
  <2>1. Goto(c, "resolving") /\ held' = held /\ lane' = lane
    BY <1>2 DEF Check
  <2>2. Holds(c, held[c]) /\ held[c] \in [at : Nat \ {0}, found : SUBSET Versions,
                           left : SUBSET Versions, graph : SUBSET Versions]
    BY <1>1, <2>1 DEF Holds, IncidentTypeOK
  <2>3. 1 \in DOMAIN Releases[Request[c]]
    BY RequestsAreRequests, ReleasesAreListed
  <2>4. CallInv(c)'
    <3>1. pc'[c] = "resolving" /\ held'[c].at = 1
      BY <1>1, <2>1 DEF Goto, IncidentTypeOK, CallInv
    <3> QED BY <1>1, <1>2, <2>1, <2>3, <3>1 DEF CallInv, Resolved, Compatible, rows
  <2> QED BY <1>1, <2>1, <2>2, <2>4, GoOnHolds DEF Waiting, Working, Resolved
<1>3. CASE ~Compatible(c)
  BY <1>1, <1>3, SettleHolds DEF Check, MayHaveWritten, Resolved
<1> QED BY <1>2, <1>3

(* A release is resolved when all its exact versions are there and what    *)
(* matched is held; what was resolved before stays so.                     *)
LEMMA ResolveHolds ==
  ASSUME IncidentInv, NEW c \in Calls, Resolve(c)
  PROVE  IncidentInv'
<1> DEFINE release == Releases[Request[c]][held[c].at]
           found == held[c].found \cup Matching(release)
           changed == [held[c] EXCEPT !.found = found,
                         !.at = IF LastRelease(c) THEN 1 ELSE held[c].at + 1]
<1>1. /\ lane # <<>> /\ c = Head(lane) /\ pc[c] = "resolving"
      /\ IncidentTypeOK /\ CallInv(c)
      /\ versions' = versions /\ UNCHANGED rows
  BY DEF Resolve, At, IncidentInv
<1>2. CASE ~Resolvable(release)
  BY <1>1, <1>2, SettleHolds DEF Resolve, MayHaveWritten, Resolved
<1>3. CASE Resolvable(release)
  <2>1. /\ Holds(c, changed)
        /\ Goto(c, IF LastRelease(c) THEN "persisting" ELSE "resolving")
        /\ lane' = lane
    BY <1>3 DEF Resolve
  <2>2. /\ held[c] \in [at : Nat \ {0}, found : SUBSET Versions,
                       left : SUBSET Versions, graph : SUBSET Versions]
        /\ Matching(release) \subseteq versions /\ versions \subseteq Versions
    BY <1>1 DEF IncidentTypeOK, Matching, Available
  <2>3. changed \in [at : Nat \ {0}, found : SUBSET Versions,
                     left : SUBSET Versions, graph : SUBSET Versions]
    <3>1. found \in SUBSET Versions
      BY <2>2
    <3>2. (IF LastRelease(c) THEN 1 ELSE held[c].at + 1) \in Nat \ {0}
      BY <2>2
    <3> HIDE DEF found
    <3> QED BY <2>2, <3>1, <3>2
  <2>4. /\ changed.found = held[c].found \cup Matching(release)
        /\ changed.graph = held[c].graph /\ changed.left = held[c].left
        /\ changed.at = IF LastRelease(c) THEN 1 ELSE held[c].at + 1
    BY <2>2
  <2> HIDE DEF changed
  <2>5. /\ held'[c] = changed
        /\ pc'[c] = IF LastRelease(c) THEN "persisting" ELSE "resolving"
    BY <1>1, <2>1 DEF Holds, Goto, IncidentTypeOK
  <2>6. /\ held[c].at \in DOMAIN Releases[Request[c]]
        /\ \A n \in 1..(held[c].at - 1) : Covers(c, n)
        /\ Compatible(c) /\ held[c].graph \subseteq versions
        /\ held[c].found \subseteq About(Request[c], versions)
        /\ held[c].left \subseteq held[c].found
    BY <1>1 DEF CallInv
  <2>7. Matching(release) \subseteq About(Request[c], versions)
    BY <2>6 DEF Matching, Available, About
  <2>8. \A n \in 1..held[c].at : Covers(c, n)'
    <3> SUFFICES ASSUME NEW n \in 1..held[c].at PROVE Covers(c, n)'
      OBVIOUS
    <3>1. CASE n = held[c].at
      <4>1. release.exact \subseteq Matching(release)
        BY <1>3 DEF Resolvable, Matching
      <4>2. \A v \in held[c].graph :
              Package[v] = release.package /\ v \in release.exact \cup release.range
                => v \in Matching(release)
        BY <2>6 DEF Matching, Available
      <4> QED BY <2>4, <2>5, <3>1, <4>1, <4>2 DEF Covers
    <3>2. CASE n # held[c].at
      <4>1. Covers(c, n)
        BY <2>2, <2>6, <3>2
      <4> QED BY <2>4, <2>5, <4>1 DEF Covers
    <3> QED BY <3>1, <3>2
  <2>9. CallInv(c)'
    <3>1. /\ held'[c].graph \subseteq versions'
          /\ held'[c].found \subseteq About(Request[c], versions')
          /\ held'[c].left \subseteq held'[c].found
          /\ evidence' = evidence
      BY <1>1, <2>4, <2>5, <2>6, <2>7 DEF rows
    <3>2. CASE LastRelease(c)
      <4>1. \A n \in DOMAIN Releases[Request[c]] : Covers(c, n)'
        BY <2>8, <3>2, RequestsAreRequests, ReleasesAreListed DEF LastRelease
      <4> QED BY <2>4, <2>5, <2>6, <3>1, <3>2, <4>1
           DEF CallInv, Compatible, Resolved
    <3>3. CASE ~LastRelease(c)
      <4>1. held[c].at + 1 \in DOMAIN Releases[Request[c]]
        BY <2>2, <2>6, <3>3, RequestsAreRequests, ReleasesAreListed DEF LastRelease
      <4>2. (held[c].at + 1) - 1 = held[c].at
        BY <2>2
      <4> QED BY <2>4, <2>5, <2>6, <2>8, <3>1, <3>3, <4>1, <4>2
           DEF CallInv, Compatible, Resolved
    <3> QED BY <3>2, <3>3
  <2> QED BY <1>1, <2>1, <2>3, <2>9, GoOnHolds DEF Waiting, Working, Resolved
<1> QED BY <1>2, <1>3

LEMMA PersistHolds ==
  ASSUME IncidentInv, NEW c \in Calls, Persist(c)
  PROVE  IncidentInv'
<1> DEFINE changed == [held[c] EXCEPT !.at = @ + 1]
           where == IF held[c].at = 3 THEN "confirming" ELSE "persisting"
<1>1. /\ lane # <<>> /\ c = Head(lane) /\ pc[c] = "persisting"
      /\ IncidentTypeOK /\ CallInv(c)
      /\ Persisted(c) /\ Holds(c, changed) /\ Goto(c, where)
      /\ versions' = versions /\ lane' = lane
  BY DEF Persist, At, IncidentInv
<1>2. /\ changed \in [at : Nat \ {0}, found : SUBSET Versions,
                      left : SUBSET Versions, graph : SUBSET Versions]
      /\ changed.found = held[c].found /\ changed.left = held[c].left
      /\ changed.graph = held[c].graph /\ changed.at = held[c].at + 1
  <2>1. held[c] \in [at : Nat \ {0}, found : SUBSET Versions,
                     left : SUBSET Versions, graph : SUBSET Versions]
    BY <1>1 DEF IncidentTypeOK
  <2> QED BY <2>1
<1>3. held'[c] = changed /\ pc'[c] = where
  BY <1>1 DEF Holds, Goto, IncidentTypeOK
<1>4. /\ Row(c) \in Ids
      /\ evidence'[Row(c)] = IF held[c].at = 1 THEN Request[c] ELSE evidence[Row(c)]
      /\ incident'[Row(c)] = IF held[c].at = 2 THEN Request[c] ELSE incident[Row(c)]
      /\ supports' = IF held[c].at = 3 THEN supports \cup {Row(c)} ELSE supports
  BY <1>1, PersistedEffect, RequestsAreRequests
<1>5. CallInv(c)'
  <2>1. \A n \in DOMAIN Releases[Request[c]] : Covers(c, n)'
    BY <1>1, <1>2, <1>3 DEF CallInv, Covers, Resolved
  <2>2. /\ held[c].at \in {1, 2, 3}
        /\ held[c].at > 1 => evidence[Row(c)] = Request[c]
        /\ held[c].at > 2 => incident[Row(c)] = Request[c]
    BY <1>1 DEF CallInv
  <2>3. /\ held'[c].graph \subseteq versions'
        /\ held'[c].found \subseteq About(Request[c], versions')
        /\ held'[c].left \subseteq held'[c].found
    BY <1>1, <1>2, <1>3 DEF CallInv
  <2> QED BY <1>2, <1>3, <1>4, <2>1, <2>2, <2>3 DEF CallInv, Resolved
<1> QED BY <1>1, <1>2, <1>5, GoOnHolds DEF Waiting, Working, Resolved, Commits

LEMMA ConfirmHolds ==
  ASSUME IncidentInv, NEW c \in Calls, Confirm(c)
  PROVE  IncidentInv'
<1> DEFINE changed == [held[c] EXCEPT !.left = held[c].found]
<1>1. /\ lane # <<>> /\ c = Head(lane) /\ pc[c] = "confirming"
      /\ IncidentTypeOK /\ CallInv(c)
      /\ versions' = versions /\ UNCHANGED rows
  BY DEF Confirm, At, IncidentInv
<1>2. CASE evidence[Row(c)] = Request[c] /\ incident[Row(c)] = Request[c]
  <2>1. Goto(c, "affecting") /\ Holds(c, changed) /\ lane' = lane
    BY <1>2 DEF Confirm
  <2>2. /\ changed \in [at : Nat \ {0}, found : SUBSET Versions,
                        left : SUBSET Versions, graph : SUBSET Versions]
        /\ changed.found = held[c].found /\ changed.left = held[c].found
        /\ changed.graph = held[c].graph
    BY <1>1 DEF IncidentTypeOK
  <2>3. held'[c] = changed /\ pc'[c] = "affecting"
    BY <1>1, <2>1 DEF Holds, Goto, IncidentTypeOK
  <2>4. CallInv(c)'
    BY <1>1, <2>2, <2>3 DEF CallInv, Covers, Resolved, rows
  <2> QED BY <1>1, <2>1, <2>2, <2>4, GoOnHolds DEF Waiting, Working, Resolved
<1>3. CASE ~(evidence[Row(c)] = Request[c] /\ incident[Row(c)] = Request[c])
  BY <1>1, <1>3, SettleHolds DEF Confirm
<1> QED BY <1>2, <1>3

LEMMA AffectHolds ==
  ASSUME IncidentInv, NEW c \in Calls, Affect(c)
  PROVE  IncidentInv'
<1> DEFINE changed == [held[c] EXCEPT !.left = @ \ Chunk(c)]
           where == IF held[c].left = Chunk(c) THEN "verifying" ELSE "affecting"
<1>1. /\ lane # <<>> /\ c = Head(lane) /\ pc[c] = "affecting"
      /\ IncidentTypeOK /\ CallInv(c)
      /\ Affected(c) /\ Holds(c, changed) /\ Goto(c, where)
      /\ versions' = versions /\ lane' = lane
  BY DEF Affect, At, IncidentInv
<1>2. /\ changed \in [at : Nat \ {0}, found : SUBSET Versions,
                      left : SUBSET Versions, graph : SUBSET Versions]
      /\ changed.found = held[c].found /\ changed.left \subseteq held[c].left
      /\ changed.graph = held[c].graph
  BY <1>1 DEF IncidentTypeOK
<1>3. held'[c] = changed /\ pc'[c] = where
  BY <1>1 DEF Holds, Goto, IncidentTypeOK
<1>4. CallInv(c)'
  BY <1>1, <1>2, <1>3 DEF CallInv, Covers, Resolved, Affected
<1> QED BY <1>1, <1>2, <1>4, GoOnHolds DEF Waiting, Working, Resolved, Commits

LEMMA VerifyHolds ==
  ASSUME IncidentInv, NEW c \in Calls, Verify(c)
  PROVE  IncidentInv'
BY SettleHolds DEF Verify, At

LEMMA FailsHolds ==
  ASSUME IncidentInv, NEW c \in Calls, Fails(c)
  PROVE  IncidentInv'
BY SettleHolds DEF Fails

LEMMA StopHolds ==
  ASSUME IncidentInv, Stop
  PROVE  IncidentInv'
<1>1. /\ IncidentTypeOK /\ LaneInv /\ lane # <<>> /\ versions' = versions
      /\ UNCHANGED rows \/ Commits(Head(lane))
      /\ lane' = <<>>
      /\ pc' = [c \in Calls |-> IF pc[c] \in Waiting THEN "failed" ELSE pc[c]]
      /\ held' = [c \in Calls |-> Nothing]
  BY DEF Stop, IncidentInv
<1>2. Head(lane) \in Calls
  BY <1>1, FirstIsWaiting
<1>3. LaneInv'
  BY <1>1, LaneEmpties
<1>4. /\ evidence' \in [Ids -> Requests \cup {NoRequest}]
      /\ incident' \in [Ids -> Requests \cup {NoRequest}]
      /\ supports' \subseteq Ids /\ affects' \subseteq Ids \X Versions
      /\ RowsOfOneRequest'
      /\ \A i \in Ids : evidence'[i] # evidence[i] =>
            i = Row(Head(lane)) /\ pc[Head(lane)] = "persisting"
  <2>1. CASE UNCHANGED rows
    BY <1>1, <2>1, RowsStay DEF IncidentInv, IncidentTypeOK, rows
  <2>2. CASE Commits(Head(lane))
    BY <1>1, <1>2, <2>2, CommitEffect
  <2> QED BY <1>1, <2>1, <2>2
<1>5. IncidentTypeOK'
  BY <1>1, <1>4, NothingIsHeld DEF IncidentTypeOK
<1>6. WrittenByCalls'
  <2>1. \A d \in Calls : pc[d] \in MayHaveWritten => pc'[d] \in MayHaveWritten
    BY <1>1 DEF MayHaveWritten
  <2>2. \A i \in Ids : evidence'[i] # evidence[i] =>
          Identity[Head(lane)] = i /\ pc'[Head(lane)] \in MayHaveWritten
    BY <1>1, <1>2, <1>4 DEF MayHaveWritten, Resolved, Row, Waiting, Working
  <2> QED BY <1>2, <2>1, <2>2, WritersStay DEF IncidentInv
<1>7. ASSUME NEW c \in Calls PROVE CallInv(c)'
  BY <1>1 DEF CallInv, Nothing, Resolved, Waiting, Working, IncidentTypeOK
<1> QED BY <1>3, <1>4, <1>5, <1>6, <1>7 DEF IncidentInv
LEMMA StepHolds ==
  ASSUME IncidentInv, [Next]_vars
  PROVE  IncidentInv'
<1>1. ASSUME NEW v \in Versions, Collect(v) PROVE IncidentInv'
  BY <1>1, CollectHolds
<1>2. ASSUME NEW c \in Calls, Arrive(c) PROVE IncidentInv'
  BY <1>2, ArriveHolds
<1>3. ASSUME NEW c \in Calls, Create(c) PROVE IncidentInv'
  BY <1>3, CheckHolds, ResolveHolds, PersistHolds, ConfirmHolds, AffectHolds,
     VerifyHolds, FailsHolds DEF Create
<1>4. CASE Stop
  BY <1>4, StopHolds
<1>5. CASE UNCHANGED vars
  <2>1. /\ IncidentTypeOK' /\ LaneInv' /\ WrittenByCalls'
    BY <1>5 DEF IncidentInv, IncidentTypeOK, LaneInv, WrittenByCalls, vars, rows
  <2>2. RowsOfOneRequest'
    BY <1>5, RowsStay DEF IncidentInv, vars
  <2>3. \A c \in Calls : CallInv(c)'
    BY <1>5 DEF IncidentInv, CallInv, Covers, Compatible, vars, rows
  <2> QED BY <2>1, <2>2, <2>3 DEF IncidentInv
<1> QED BY <1>1, <1>2, <1>3, <1>4, <1>5 DEF Next

(* The invariant of createIncident, and the types with it.                 *)
THEOREM IncidentInvariant == Spec => []IncidentInv
<1>1. IncidentInv /\ [Next]_vars => IncidentInv'
  BY StepHolds
<1> QED BY InitHolds, <1>1, PTL DEF Spec

(* What the invariant says of the rows: all that is stored under a key is  *)
(* one request's, and nothing is when every call of the key was refused.   *)
LEMMA InvImpliesOneRequest == IncidentInv => OneRequestOrNothing
<1> SUFFICES ASSUME IncidentInv PROVE RefusedLeavesNothing
  BY DEF IncidentInv, OneRequestOrNothing
<1> SUFFICES ASSUME NEW i \in Ids,
                    \A c \in Calls : Identity[c] = i =>
                      pc[c] \in {"new", "queued", "resolving", "refused"}
             PROVE  /\ evidence[i] = NoRequest /\ incident[i] = NoRequest
                    /\ i \notin supports
                    /\ \A v \in Versions : <<i, v>> \notin affects
  BY DEF RefusedLeavesNothing
<1>1. evidence[i] = NoRequest
  BY DEF IncidentInv, WrittenByCalls, MayHaveWritten, Resolved
<1>2. incident[i] = NoRequest
  BY <1>1 DEF IncidentInv, RowsOfOneRequest
<1> QED BY <1>1, <1>2 DEF IncidentInv, RowsOfOneRequest

THEOREM OneRequestOrNothingHolds == Spec => []OneRequestOrNothing
<1> QED BY IncidentInvariant, InvImpliesOneRequest, PTL

(* 201 is answered by verifyAffectedEdges alone, which read back an edge   *)
(* to every version that was resolved; the invariant says that these are   *)
(* all the request is about, and that the other rows were read back too.   *)
LEMMA AnswerStep ==
  ASSUME IncidentInv, [Next]_vars, NEW c \in Calls,
         pc[c] # "answered", pc'[c] = "answered"
  PROVE  Verify(c) /\ {Row(c)} \X held[c].found \subseteq affects
<1>1. pc \in [Calls -> Waiting \cup {"new", "answered", "refused", "failed"}]
  BY DEF IncidentInv, IncidentTypeOK
<1>2. ASSUME NEW d \in Calls, NEW how, Settles(d, how), how # "answered"
      PROVE  FALSE
  BY <1>1, <1>2 DEF Settles, Goto
<1>3. ASSUME NEW d \in Calls, NEW where, Goto(d, where), where # "answered"
      PROVE  FALSE
  BY <1>1, <1>3 DEF Goto
<1>4. ASSUME NEW d \in Calls, Create(d) PROVE Verify(d) /\ d = c
  <2>1. Verify(d)
    BY <1>2, <1>3, <1>4 DEF Create, Check, Resolve, Persist, Confirm, Affect, Fails
  <2>2. d = c
    BY <1>1, <2>1 DEF Verify, Settles, Goto
  <2> QED BY <2>1, <2>2
<1>5. ~\E v \in Versions : Collect(v)
  BY DEF Collect
<1>6. ~\E d \in Calls : Arrive(d)
  BY <1>3 DEF Arrive
<1>7. ~Stop /\ ~UNCHANGED vars
  BY <1>1 DEF Stop, vars
<1>8. Verify(c)
  BY <1>4, <1>5, <1>6, <1>7 DEF Next
<1> QED BY <1>2, <1>8 DEF Verify

LEMMA AnswerCovers ==
  ASSUME IncidentInv, NEW c \in Calls, Verify(c),
         {Row(c)} \X held[c].found \subseteq affects
  PROVE  /\ incident[Row(c)] = Request[c] /\ Row(c) \in supports
         /\ {Row(c)} \X About(Request[c], held[c].graph) \subseteq affects
         /\ \A n \in DOMAIN Releases[Request[c]] :
              {Row(c)} \X Releases[Request[c]][n].exact \subseteq affects
<1>1. CallInv(c) /\ pc[c] = "verifying"
  BY DEF IncidentInv, Verify, At
<1>2. \A n \in DOMAIN Releases[Request[c]] : Covers(c, n)
  BY <1>1 DEF CallInv, Resolved
<1>3. About(Request[c], held[c].graph) \subseteq held[c].found
  BY <1>2 DEF About, Covers
<1>4. \A n \in DOMAIN Releases[Request[c]] :
        Releases[Request[c]][n].exact \subseteq held[c].found
  BY <1>2 DEF Covers
<1> QED BY <1>1, <1>3, <1>4 DEF CallInv

(* A 201 means that the incident is stored with its provenance and affects *)
(* all the request is about.                                               *)
THEOREM AnswerIsCompleteHolds == Spec => AnswerIsComplete
<1>1. IncidentInv /\ [Next]_vars =>
        [\A c \in Calls : pc[c] # "answered" /\ pc'[c] = "answered" =>
           /\ incident[Row(c)] = Request[c] /\ Row(c) \in supports
           /\ {Row(c)} \X About(Request[c], held[c].graph) \subseteq affects
           /\ \A n \in DOMAIN Releases[Request[c]] :
                {Row(c)} \X Releases[Request[c]][n].exact \subseteq affects]_vars
  BY AnswerStep, AnswerCovers
<1> QED BY IncidentInvariant, <1>1, PTL DEF Spec, AnswerIsComplete

-----------------------------------------------------------------------------
(* The index.                                                              *)

(* Reading the index changes nothing of createIncident: all that is proved *)
(* of it holds while pages are read.                                       *)
THEOREM IndexImplementsService == IndexSpec => Spec
<1>1. IndexInit => Init
  BY DEF IndexInit
<1>2. [IndexNext]_<<vars, indexVars>> => [Next]_vars
  BY DEF IndexNext, ReadPage
<1> QED BY <1>1, <1>2, PTL DEF IndexSpec, Spec
(* The order of the index.                                                 *)
Places == Nat \X Nat

LEMMA OlderIsAnOrder ==
  /\ \A p, q, r \in Places : Older(p, q) /\ Older(q, r) => Older(p, r)
  /\ \A p, q \in Places : p = q \/ Older(p, q) \/ Older(q, p)
  /\ \A p, q \in Places : ~(Older(p, q) /\ Older(q, p))
  /\ \A p \in Places : ~Older(p, p)
BY DEF Older, Places

(* A set of natural numbers has a smallest one.                            *)
LEMMA SmallestExists ==
  ASSUME NEW N \in SUBSET Nat, N # {}
  PROVE  \E n \in N : \A m \in N : n <= m
<1> DEFINE Intervals == {0..n : n \in N}
<1>1. Intervals \subseteq FiniteSubsetsOf(Nat)
  <2>1. ASSUME NEW n \in N PROVE 0..n \in SUBSET Nat /\ IsFiniteSet(0..n)
    BY FS_Interval
  <2> QED BY <2>1 DEF FiniteSubsetsOf
<1>2. PICK I \in Intervals :
        \A J \in Intervals : ~(<<J, I>> \in StrictSubsetOrdering(Nat))
  <2>1. Intervals # {}
    OBVIOUS
  <2> HIDE DEF Intervals
  <2> QED BY <1>1, <2>1, FS_StrictSubsetOrderingWellFounded, WFMin
<1>3. PICK n \in N : I = 0..n
  OBVIOUS
<1>4. ASSUME NEW m \in N, m < n PROVE FALSE
  <2>1. 0..m \subseteq 0..n /\ n \in 0..n /\ n \notin 0..m
    BY <1>4
  <2>2. <<0..m, 0..n>> \in StrictSubsetOrdering(Nat)
    BY <2>1 DEF StrictSubsetOrdering
  <2> QED BY <1>2, <1>3, <2>2
<1> QED BY <1>4

LEMMA OldestExists ==
  ASSUME NEW S \in SUBSET Places, S # {}
  PROVE  \E p \in S : \A q \in S : q = p \/ Older(p, q)
<1>1. PICK t \in {p[1] : p \in S} : \A u \in {p[1] : p \in S} : t <= u
  <2>1. {p[1] : p \in S} \in SUBSET Nat /\ {p[1] : p \in S} # {}
    BY DEF Places
  <2> QED BY <2>1, SmallestExists
<1>2. PICK i \in {p[2] : p \in {q \in S : q[1] = t}} :
        \A j \in {p[2] : p \in {q \in S : q[1] = t}} : i <= j
  <2>1. /\ {p[2] : p \in {q \in S : q[1] = t}} \in SUBSET Nat
        /\ {p[2] : p \in {q \in S : q[1] = t}} # {}
    BY <1>1 DEF Places
  <2> QED BY <2>1, SmallestExists
<1>3. PICK p \in S : p[1] = t /\ p[2] = i
  BY <1>2
<1>4. ASSUME NEW q \in S PROVE q = p \/ Older(p, q)
  <2>1. p \in Places /\ q \in Places /\ t <= q[1]
    BY <1>1
  <2>2. q[1] = t => i <= q[2]
    BY <1>2
  <2> QED BY <1>3, <2>1, <2>2 DEF Older, Places
<1> QED BY <1>4

(* A finite set of places can be listed newest first: of the sets that     *)
(* could not, a smallest one without its oldest place could.               *)
Descends(s, S) ==
  /\ s \in [1..Cardinality(S) -> S]
  /\ \A m, n \in 1..Cardinality(S) : m < n => Older(s[n], s[m])

LEMMA ListingExists ==
  ASSUME NEW S \in SUBSET Places, IsFiniteSet(S)
  PROVE  \E s : Descends(s, S)
<1> DEFINE Unlisted == {T \in FiniteSubsetsOf(Places) : ~\E s : Descends(s, T)}
<1>1. ASSUME Unlisted # {} PROVE FALSE
  <2>1. PICK T \in Unlisted :
          \A U \in Unlisted : ~(<<U, T>> \in StrictSubsetOrdering(Places))
    <3>1. Unlisted \subseteq FiniteSubsetsOf(Places)
      OBVIOUS
    <3> HIDE DEF Unlisted
    <3> QED BY <1>1, <3>1, FS_StrictSubsetOrderingWellFounded, WFMin
  <2>2. /\ T \in SUBSET Places /\ IsFiniteSet(T) /\ ~\E s : Descends(s, T)
        /\ Cardinality(T) \in Nat
    BY FS_CardinalityType DEF FiniteSubsetsOf
  <2>3. CASE T = {}
    <3>1. Cardinality(T) = 0
      BY <2>3, FS_EmptySet
    <3>2. Descends([n \in 1..0 |-> 0], T)
      BY <3>1 DEF Descends
    <3> QED BY <2>2, <3>2
  <2>4. CASE T # {}
    <3>1. PICK p \in T : \A q \in T : q = p \/ Older(p, q)
      BY <2>2, <2>4, OldestExists
    <3>2. /\ IsFiniteSet(T \ {p}) /\ Cardinality(T \ {p}) = Cardinality(T) - 1
          /\ Cardinality(T) # 0
      BY <2>2, <2>4, FS_RemoveElement, FS_EmptySet
    <3>3. PICK s : Descends(s, T \ {p})
      <4>1. T \ {p} \in FiniteSubsetsOf(Places)
        BY <2>2, <3>2 DEF FiniteSubsetsOf
      <4>2. <<T \ {p}, T>> \in StrictSubsetOrdering(Places)
        BY <2>2 DEF StrictSubsetOrdering
      <4> QED BY <2>1, <4>1, <4>2
    <3> DEFINE N == Cardinality(T)
               longer == [n \in 1..N |-> IF n = N THEN p ELSE s[n]]
    <3>4. N \in Nat \ {0} /\ s \in [1..(N - 1) -> T \ {p}]
          /\ \A m, n \in 1..(N - 1) : m < n => Older(s[n], s[m])
      BY <2>2, <3>2, <3>3 DEF Descends
    <3> HIDE DEF N
    <3>5. longer \in [1..N -> T]
      BY <3>4
    <3>6. ASSUME NEW m \in 1..N, NEW n \in 1..N, m < n
          PROVE  Older(longer[n], longer[m])
      <4>1. m \in 1..(N - 1) /\ longer[m] = s[m] /\ s[m] \in T /\ s[m] # p
        BY <3>4, <3>6
      <4>2. CASE n = N
        BY <3>1, <4>1, <4>2
      <4>3. CASE n # N
        BY <3>4, <3>6, <4>1, <4>3
      <4> QED BY <4>2, <4>3
    <3>7. Descends(longer, T)
      BY <3>5, <3>6 DEF Descends, N
    <3> QED BY <2>2, <3>7
  <2> QED BY <2>3, <2>4
<1> QED BY <1>1 DEF FiniteSubsetsOf

(* The order leaves a listing nothing to leave out.                        *)
LEMMA NewestFirstIsAll ==
  ASSUME NEW S \in SUBSET Places, IsFiniteSet(S)
  PROVE  /\ Cardinality(S) \in Nat
         /\ NewestFirst(S) \in [1..Cardinality(S) -> S]
         /\ \A m, n \in 1..Cardinality(S) :
              m < n => Older(NewestFirst(S)[n], NewestFirst(S)[m])
         /\ \A p \in S : \E n \in 1..Cardinality(S) : NewestFirst(S)[n] = p
<1> DEFINE N == Cardinality(S)
           s == NewestFirst(S)
<1>1. N \in Nat
  BY FS_CardinalityType
<1>2. s \in [1..N -> S] /\ \A m, n \in 1..N : m < n => Older(s[n], s[m])
  <2>1. PICK w : Descends(w, S)
    BY ListingExists
  <2>2. /\ w \in [1..Cardinality(S) -> S]
        /\ \A m, n \in DOMAIN w : m < n => Older(w[n], w[m])
    BY <2>1 DEF Descends
  <2>3. /\ s \in [1..Cardinality(S) -> S]
        /\ \A m, n \in DOMAIN s : m < n => Older(s[n], s[m])
    BY <2>2 DEF NewestFirst
  <2> HIDE DEF s
  <2> QED BY <2>3
<1> HIDE DEF s, N
<1>3. s \in Injection(1..N, S)
  <2>1. ASSUME NEW m \in 1..N, NEW n \in 1..N, s[m] = s[n] PROVE m = n
    <3>1. s[m] \in Places
      BY <1>2
    <3>2. ~(m < n) /\ ~(n < m)
      BY <1>2, <2>1, <3>1, OlderIsAnOrder
    <3> QED BY <1>1, <3>2
  <2> QED BY <1>2, <2>1 DEF Injection, IsInjective
<1>4. Cardinality(1..N) = N
  BY <1>1, FS_Interval
<1>5. s \in Surjection(1..N, S)
  BY <1>3, <1>4, FS_Injection DEF N
<1> QED BY <1>1, <1>2, <1>5 DEF Surjection, N, s
-----------------------------------------------------------------------------
(* The inductive invariant of a client that reads page by page: what it    *)
(* was given descends and ends at or above the cursor, and what it was not *)
(* given yet of the incidents that were there is below the cursor.  It     *)
(* needs IncidentInv, by which a row is never replaced: an incident that   *)
(* has a position keeps it.                                                *)
IndexInv ==
  /\ IsFiniteSet(Positions)
  /\ listed \in Seq(Places)
  /\ \A m, n \in DOMAIN listed : m < n => Older(listed[n], listed[m])
  /\ present \subseteq Positions
  /\ cursor = NoCursor => listed = <<>>
  /\ cursor = LastPage => present \subseteq ToSet(listed)
  /\ cursor \notin {NoCursor, LastPage} =>
       /\ cursor \in Places
       /\ \A n \in DOMAIN listed : ~Older(listed[n], cursor)
       /\ \A p \in present : p \in ToSet(listed) \/ Older(p, cursor)
(* createIncident only ever adds to the index.                             *)
LEMMA IncidentRowStep ==
  ASSUME IncidentInv, [Next]_vars
  PROVE  \/ incident' = incident
         \/ \E c \in Calls :
              /\ incident[Row(c)] \in {NoRequest, Request[c]}
              /\ \A i \in Ids : incident'[i] =
                   IF i = Row(c) THEN Request[c] ELSE incident[i]
<1>1. ASSUME NEW c \in Calls, pc[c] = "persisting", Persisted(c)
      PROVE  \/ incident' = incident
             \/ /\ incident[Row(c)] \in {NoRequest, Request[c]}
                /\ \A i \in Ids : incident'[i] =
                     IF i = Row(c) THEN Request[c] ELSE incident[i]
  <2>1. CASE held[c].at = 2
    <3>1. incident[Row(c)] \in {NoRequest, Request[c]}
      BY <1>1, <2>1, RequestsAreRequests DEF IncidentInv, CallInv, RowsOfOneRequest
    <3> QED BY <1>1, <2>1, <3>1, PersistedEffect
  <2>2. CASE held[c].at # 2
    BY <1>1, <2>2 DEF Persisted
  <2> QED BY <2>1, <2>2
<1>2. ASSUME NEW c \in Calls, Commits(c)
      PROVE  \/ incident' = incident
             \/ /\ incident[Row(c)] \in {NoRequest, Request[c]}
                /\ \A i \in Ids : incident'[i] =
                     IF i = Row(c) THEN Request[c] ELSE incident[i]
  BY <1>1, <1>2 DEF Commits, Affected
<1>3. CASE \E v \in Versions : Collect(v)
  BY <1>3 DEF Collect, rows
<1>4. CASE \E c \in Calls : Arrive(c)
  BY <1>4 DEF Arrive, rows
<1>5. ASSUME NEW c \in Calls, Create(c)
      PROVE  \/ incident' = incident
             \/ /\ incident[Row(c)] \in {NoRequest, Request[c]}
                /\ \A i \in Ids : incident'[i] =
                     IF i = Row(c) THEN Request[c] ELSE incident[i]
  <2>1. CASE Persist(c)
    BY <1>1, <2>1 DEF Persist, At
  <2>2. CASE Fails(c)
    BY <1>2, <2>2 DEF Fails, rows
  <2>3. CASE Check(c) \/ Resolve(c) \/ Confirm(c) \/ Affect(c) \/ Verify(c)
    BY <2>3 DEF Check, Resolve, Confirm, Affect, Affected, Verify, rows
  <2> QED BY <1>5, <2>1, <2>2, <2>3 DEF Create
<1>6. CASE Stop
  <2>1. Head(lane) \in Calls
    BY <1>6, FirstIsWaiting DEF Stop, IncidentInv
  <2> QED BY <1>2, <1>6, <2>1 DEF Stop, rows
<1>7. CASE UNCHANGED vars
  BY <1>7 DEF vars, rows
<1> QED BY <1>3, <1>4, <1>5, <1>6, <1>7 DEF Next

LEMMA PositionsArePlaces ==
  ASSUME IncidentTypeOK
  PROVE  Positions \in SUBSET Places
<1>1. ASSUME NEW i \in Ids, incident[i] # NoRequest PROVE Position(i) \in Places
  BY <1>1, IncidentAssumption DEF Position, Places, Ids, IncidentTypeOK
<1> QED BY <1>1 DEF Positions

LEMMA PositionsGrow ==
  ASSUME IncidentInv, IsFiniteSet(Positions), [Next]_vars
  PROVE  Positions \subseteq Positions' /\ IsFiniteSet(Positions')
<1>1. CASE incident' = incident
  BY <1>1 DEF Positions, Position
<1>2. ASSUME NEW c \in Calls,
             incident[Row(c)] \in {NoRequest, Request[c]},
             \A i \in Ids : incident'[i] =
               IF i = Row(c) THEN Request[c] ELSE incident[i]
      PROVE  Positions \subseteq Positions' /\ IsFiniteSet(Positions')
  <2> DEFINE added == <<Observed[Request[c]], Row(c)>>
  <2>1. \A i \in Ids : Position(i)' = IF i = Row(c) THEN added ELSE Position(i)
    BY <1>2 DEF Position
  <2>2. \A i \in Ids : incident[i] # NoRequest =>
          incident'[i] # NoRequest /\ Position(i)' = Position(i)
    BY <1>2, RequestsAreRequests DEF Position
  <2>3. Positions \subseteq Positions'
    BY <2>2 DEF Positions
  <2>4. Positions' \subseteq Positions \cup {added}
    BY <1>2, <2>1 DEF Positions
  <2>5. IsFiniteSet(Positions \cup {added})
    BY FS_AddElement
  <2>6. IsFiniteSet(Positions')
    BY <2>4, <2>5, FS_Subset
  <2> QED BY <2>3, <2>6
<1> QED BY <1>1, <1>2, IncidentRowStep

(* A page is the newest of what is left, and all of it unless there is a   *)
(* further one.                                                            *)
LEMMA PageIsNewest ==
  ASSUME NEW S \in SUBSET Places, IsFiniteSet(S)
  PROVE  /\ Page(S) \in Seq(S)
         /\ \A m, n \in DOMAIN Page(S) : m < n => Older(Page(S)[n], Page(S)[m])
         /\ ~Truncated(S) => S \subseteq ToSet(Page(S))
         /\ Truncated(S) =>
              /\ Last(Page(S)) \in S
              /\ \A n \in DOMAIN Page(S) : ~Older(Page(S)[n], Last(Page(S)))
              /\ \A p \in S : p \in ToSet(Page(S)) \/ Older(p, Last(Page(S)))
<1> DEFINE N == Cardinality(S)
           s == NewestFirst(S)
           k == IF Truncated(S) THEN Limit ELSE N
           page == Page(S)
<1>1. /\ N \in Nat /\ s \in [1..N -> S]
      /\ \A m, n \in 1..N : m < n => Older(s[n], s[m])
      /\ \A p \in S : \E n \in 1..N : s[n] = p
  BY NewestFirstIsAll
<1>2. k \in Nat /\ k <= N /\ (Truncated(S) => k \in 1..N /\ k = Limit)
      /\ (~Truncated(S) => k = N)
  BY <1>1, IndexAssumption DEF Truncated
<1>3. page = SubSeq(s, 1, k)
  BY DEF Page
<1> HIDE DEF N, s, k, page
<1>4. s \in Seq(S) /\ Len(s) = N
  BY <1>1
<1>5. page \in Seq(S) /\ Len(page) = k /\ DOMAIN page = 1..k
      /\ \A n \in 1..k : page[n] = s[n]
  BY <1>2, <1>3, <1>4
<1>6. \A m, n \in DOMAIN page : m < n => Older(page[n], page[m])
  BY <1>1, <1>2, <1>5
<1>7. ASSUME ~Truncated(S) PROVE S \subseteq ToSet(page)
  BY <1>1, <1>2, <1>5, <1>7 DEF ToSet
<1>8. ASSUME Truncated(S)
      PROVE  /\ Last(page) \in S
             /\ \A n \in DOMAIN page : ~Older(page[n], Last(page))
             /\ \A p \in S : p \in ToSet(page) \/ Older(p, Last(page))
  <2>1. k \in 1..N /\ Last(page) = s[k] /\ s[k] \in S
    BY <1>1, <1>2, <1>5, <1>8 DEF Last
  <2>2. ASSUME NEW n \in DOMAIN page PROVE ~Older(page[n], Last(page))
    <3>1. n \in 1..k /\ n \in 1..N /\ page[n] = s[n] /\ s[n] \in S
      BY <1>1, <1>2, <1>5
    <3>2. CASE n = k
      BY <2>1, <3>1, <3>2, OlderIsAnOrder
    <3>3. CASE n < k
      BY <1>1, <2>1, <3>1, <3>3, OlderIsAnOrder
    <3> QED BY <1>2, <3>1, <3>2, <3>3
  <2>3. ASSUME NEW p \in S PROVE p \in ToSet(page) \/ Older(p, Last(page))
    <3>1. PICK n \in 1..N : s[n] = p
      BY <1>1
    <3>2. CASE n <= k
      BY <1>2, <1>5, <3>1, <3>2 DEF ToSet
    <3>3. CASE n > k
      BY <1>1, <2>1, <3>1, <3>3
    <3> QED BY <1>2, <3>2, <3>3
  <2> QED BY <2>1, <2>2, <2>3
<1> QED BY <1>5, <1>6, <1>7, <1>8 DEF page

LEMMA ReadPageHolds ==
  ASSUME IncidentInv, IndexInv, ReadPage
  PROVE  IndexInv'
<1> DEFINE rest == {p \in Positions : Below(p)}
           page == Page(rest)
<1>1. /\ cursor # LastPage
      /\ listed' = listed \o page
      /\ cursor' = IF Truncated(rest) THEN Last(page) ELSE LastPage
      /\ present' = IF cursor = NoCursor THEN Positions ELSE present
      /\ Positions' = Positions
  BY DEF ReadPage, vars, rows, Positions, Position
<1>2. Positions \in SUBSET Places /\ IsFiniteSet(Positions)
  BY PositionsArePlaces DEF IncidentInv, IndexInv
<1>3. rest \in SUBSET Places /\ rest \subseteq Positions /\ IsFiniteSet(rest)
  BY <1>2, FS_Subset
<1>4. /\ \A p \in rest : cursor # NoCursor => Older(p, cursor)
      /\ \A p \in Positions : cursor = NoCursor \/ Older(p, cursor) => p \in rest
  BY DEF Below
<1> HIDE DEF rest
<1>5. /\ page \in Seq(rest)
      /\ \A m, n \in DOMAIN page : m < n => Older(page[n], page[m])
      /\ ~Truncated(rest) => rest \subseteq ToSet(page)
      /\ Truncated(rest) =>
           /\ Last(page) \in rest
           /\ \A n \in DOMAIN page : ~Older(page[n], Last(page))
           /\ \A p \in rest : p \in ToSet(page) \/ Older(p, Last(page))
  BY <1>3, PageIsNewest
<1> HIDE DEF page
<1>6. /\ listed \in Seq(Places)
      /\ \A m, n \in DOMAIN listed : m < n => Older(listed[n], listed[m])
      /\ present \subseteq Positions
      /\ cursor = NoCursor => listed = <<>>
      /\ cursor # NoCursor =>
           /\ cursor \in Places
           /\ \A n \in DOMAIN listed : ~Older(listed[n], cursor)
           /\ \A p \in present : p \in ToSet(listed) \/ Older(p, cursor)
  BY <1>1 DEF IndexInv
<1>7. page \in Seq(Places)
  BY <1>3, <1>5
<1>8. /\ listed' \in Seq(Places)
      /\ \A n \in DOMAIN listed : n \in DOMAIN listed' /\ listed'[n] = listed[n]
      /\ \A n \in DOMAIN page :
           Len(listed) + n \in DOMAIN listed' /\ listed'[Len(listed) + n] = page[n]
      /\ \A n \in DOMAIN listed' :
           n \in DOMAIN listed \/ (n - Len(listed) \in DOMAIN page /\ n > Len(listed))
  BY <1>1, <1>6, <1>7
<1>9. ToSet(listed') = ToSet(listed) \cup ToSet(page)
  <2>1. ToSet(listed') \subseteq ToSet(listed) \cup ToSet(page)
    <3> SUFFICES ASSUME NEW n \in DOMAIN listed'
                 PROVE  listed'[n] \in ToSet(listed) \cup ToSet(page)
      BY DEF ToSet
    <3>1. CASE n \in DOMAIN listed
      BY <1>8, <3>1 DEF ToSet
    <3>2. CASE n - Len(listed) \in DOMAIN page /\ n > Len(listed)
      <4>1. n \in Int /\ Len(listed) \in Nat /\ Len(listed) + (n - Len(listed)) = n
        BY <1>6, <1>8
      <4>2. listed'[n] = page[n - Len(listed)]
        BY <1>8, <3>2, <4>1
      <4> QED BY <3>2, <4>2 DEF ToSet
    <3> QED BY <1>8, <3>1, <3>2
  <2> QED BY <1>8, <2>1 DEF ToSet
<1>10. \A n \in DOMAIN page : page[n] \in rest
  BY <1>5
<1>11. \A m \in DOMAIN listed, p \in rest : Older(p, listed[m])
  <2> SUFFICES ASSUME NEW m \in DOMAIN listed, NEW p \in rest
               PROVE  Older(p, listed[m])
    OBVIOUS
  <2>1. cursor # NoCursor
    BY <1>6
  <2>2. /\ p \in Places /\ listed[m] \in Places /\ cursor \in Places
        /\ Older(p, cursor) /\ ~Older(listed[m], cursor)
    BY <1>3, <1>4, <1>6, <2>1
  <2> QED BY <2>2, OlderIsAnOrder
<1>12. \A m, n \in DOMAIN listed' : m < n => Older(listed'[n], listed'[m])
  <2> SUFFICES ASSUME NEW m \in DOMAIN listed', NEW n \in DOMAIN listed', m < n
               PROVE  Older(listed'[n], listed'[m])
    OBVIOUS
  <2>0. m \in Nat /\ n \in Nat /\ Len(listed) \in Nat
        /\ DOMAIN listed = 1..Len(listed)
    BY <1>6, <1>8
  <2>1. CASE n \in DOMAIN listed
    <3>1. m \in DOMAIN listed
      BY <1>8, <2>0, <2>1
    <3> QED BY <1>6, <1>8, <2>1, <3>1
  <2>2. CASE n \notin DOMAIN listed
    <3>1. n - Len(listed) \in DOMAIN page /\ listed'[n] = page[n - Len(listed)]
      <4>1. Len(listed) + (n - Len(listed)) = n
        BY <2>0
      <4> QED BY <1>8, <2>2, <4>1
    <3>2. CASE m \in DOMAIN listed
      BY <1>8, <1>10, <1>11, <3>1, <3>2
    <3>3. CASE m \notin DOMAIN listed
      <4>1. Len(listed) + (m - Len(listed)) = m
        BY <2>0
      <4>2. m - Len(listed) \in DOMAIN page /\ listed'[m] = page[m - Len(listed)]
        BY <1>8, <3>3, <4>1
      <4>3. m - Len(listed) < n - Len(listed)
        BY <2>0
      <4> QED BY <1>5, <3>1, <4>2, <4>3
    <3> QED BY <3>2, <3>3
  <2> QED BY <2>1, <2>2
<1>13. \A p \in present' : p \in ToSet(listed) \/ p \in rest
  BY <1>1, <1>4, <1>6
<1>14. present' \subseteq Positions
  BY <1>1, <1>6
<1>15. CASE ~Truncated(rest)
  <2>1. cursor' = LastPage /\ LastPage # NoCursor
    BY <1>1, <1>15 DEF LastPage, NoCursor
  <2>2. present' \subseteq ToSet(listed')
    BY <1>5, <1>9, <1>13, <1>15
  <2> QED BY <1>1, <1>2, <1>8, <1>12, <1>14, <2>1, <2>2 DEF IndexInv
<1>16. CASE Truncated(rest)
  <2>1. cursor' = Last(page) /\ cursor' \in rest /\ cursor' \in Places
    BY <1>1, <1>3, <1>5, <1>16
  <2>2. cursor' # NoCursor /\ cursor' # LastPage
    BY <2>1 DEF Places, NoCursor, LastPage
  <2>3. ASSUME NEW n \in DOMAIN listed' PROVE ~Older(listed'[n], cursor')
    <3>1. CASE n \in DOMAIN listed
      <4>1. Older(cursor', listed[n]) /\ listed[n] \in Places
        BY <1>6, <1>11, <2>1, <3>1
      <4> QED BY <1>8, <2>1, <3>1, <4>1, OlderIsAnOrder
    <3>2. CASE n \notin DOMAIN listed
      <4>1. Len(listed) + (n - Len(listed)) = n
        BY <1>6, <1>8
      <4> QED BY <1>5, <1>8, <1>16, <2>1, <3>2, <4>1
    <3> QED BY <3>1, <3>2
  <2>4. \A p \in present' : p \in ToSet(listed') \/ Older(p, cursor')
    BY <1>5, <1>9, <1>13, <1>16, <2>1
  <2> QED BY <1>1, <1>2, <1>8, <1>12, <1>14, <2>1, <2>2, <2>3, <2>4 DEF IndexInv
<1> QED BY <1>15, <1>16

LEMMA IndexStepHolds ==
  ASSUME IncidentInv, IndexInv, [IndexNext]_<<vars, indexVars>>
  PROVE  IndexInv'
<1>1. CASE ReadPage
  BY <1>1, ReadPageHolds
<1>2. CASE [Next]_vars /\ UNCHANGED indexVars
  <2>1. Positions \subseteq Positions' /\ IsFiniteSet(Positions')
    BY <1>2, PositionsGrow DEF IndexInv
  <2> QED BY <1>2, <2>1 DEF IndexInv, indexVars
<1> QED BY <1>1, <1>2 DEF IndexNext

LEMMA IndexInitHolds == IndexInit => IndexInv
<1> SUFFICES ASSUME IndexInit PROVE IndexInv
  OBVIOUS
<1>1. Positions = {}
  BY DEF IndexInit, Init, Positions
<1>2. NoCursor # LastPage
  BY DEF NoCursor, LastPage
<1> QED BY <1>1, <1>2, FS_EmptySet DEF IndexInit, IndexInv

(* A client that follows nextCursor to the end has been given every        *)
(* incident that was there when it began, each once and in the order of    *)
(* the index, whatever was created meanwhile and however large the pages.  *)
THEOREM PagesLoseNothingHolds == IndexSpec => []PagesLoseNothing
<1>1. IndexSpec => []IncidentInv
  BY IndexImplementsService, IncidentInvariant
<1>2. IncidentInv /\ IndexInv /\ [IndexNext]_<<vars, indexVars>> => IndexInv'
  BY IndexStepHolds
<1>3. IndexInv => PagesLoseNothing
  BY DEF IndexInv, PagesLoseNothing
<1> QED BY <1>1, <1>2, <1>3, IndexInitHolds, PTL DEF IndexSpec

(* The promises of createIncident while pages are read.                    *)
THEOREM IndexKeepsPromises ==
  IndexSpec => []OneRequestOrNothing /\ AnswerIsComplete
<1> QED BY IndexImplementsService, OneRequestOrNothingHolds, AnswerIsCompleteHolds

=============================================================================
