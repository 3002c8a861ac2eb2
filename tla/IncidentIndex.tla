---------------------------- MODULE IncidentIndex -----------------------------
(***************************************************************************)
(* GET /incidents (incidents/incident-list-store.ts) read page by page by  *)
(* one client while POST /incidents writes.  One query, with no lock and   *)
(* no snapshot, decides which incidents a page has; the queries after it   *)
(* count each incident's AFFECTS edges.  observed_at comes from the client *)
(* that reports an incident, so a new one may sort anywhere.               *)
(***************************************************************************)
EXTENDS IncidentService, SequencesExt

CONSTANTS Limit   \* the page size the client asks for

ASSUME IndexAssumption == Limit \in Nat \ {0}

VARIABLES
  cursor,   \* the position the next page starts below, LastPage after the last
  listed,   \* the positions the client has been given, in order
  present   \* the positions in the index when it asked for the first page

indexVars == <<cursor, listed, present>>

(* The index is ordered by observed_at and then id, newest first.          *)
Position(i) == <<Observed[incident[i]], i>>
Positions == {Position(i) : i \in {j \in Ids : incident[j] # NoRequest}}
Older(p, q) == p[1] < q[1] \/ (p[1] = q[1] /\ p[2] < q[2])
NoCursor == <<"none">>
LastPage == <<"last">>

(* A fault, used only to see that the property notices it: a cursor of     *)
(* observed_at alone.                                                      *)
BelowByTime(p) == cursor = NoCursor \/ p[1] < cursor[1]

Below(p) == cursor = NoCursor \/ Older(p, cursor)

(* LIMIT + 1 rows are fetched to see whether there are more.               *)
Truncated(rest) == Cardinality(rest) > Limit

NewestFirst(rest) ==
  CHOOSE s \in [1..Cardinality(rest) -> rest] :
    \A m, n \in DOMAIN s : m < n => Older(s[n], s[m])

Page(rest) ==
  SubSeq(NewestFirst(rest), 1, IF Truncated(rest) THEN Limit ELSE Cardinality(rest))

(* A query that fails is a 503, and the client asks again.                 *)
ReadPage ==
  /\ cursor # LastPage
  /\ LET rest == {p \in Positions : Below(p)}
     IN  /\ listed' = listed \o Page(rest)
         /\ cursor' = IF Truncated(rest) THEN Last(Page(rest)) ELSE LastPage
  /\ present' = IF cursor = NoCursor THEN Positions ELSE present
  /\ UNCHANGED vars

IndexInit ==
  /\ Init
  /\ cursor = NoCursor /\ listed = <<>> /\ present = {}

IndexNext ==
  \/ Next /\ UNCHANGED indexVars
  \/ ReadPage

IndexSpec == IndexInit /\ [][IndexNext]_<<vars, indexVars>> /\ Fairness

-----------------------------------------------------------------------------
(* A client that follows nextCursor to the end has seen every incident     *)
(* that was there when it began, and none twice, in the order of the       *)
(* index, though incidents were created on both sides of its cursor.       *)
PagesLoseNothing ==
  /\ \A m, n \in DOMAIN listed : m < n => Older(listed[n], listed[m])
  /\ cursor = LastPage => present \subseteq ToSet(listed)

=============================================================================
