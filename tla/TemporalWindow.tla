----------------------------- MODULE TemporalWindow -----------------------------
(***************************************************************************)
(* Which services resolved an affected version while the compromise        *)
(* interval was open (analysis/core/temporal-window.ts and                 *)
(* temporal-projection.ts): the validity of the resolutions on a path, of  *)
(* the paths of a service, and where that lies.  Instants are numbers, an  *)
(* interval includes both of its ends, and Absent is an end never recorded *)
(* or an interval still open.                                              *)
(***************************************************************************)
EXTENDS Traversal

CONSTANTS
  ValidFrom, ValidUntil,  \* of DEPENDS_ON edges
  Absent

ASSUME WindowAssumption ==
  /\ Absent \notin Nat
  /\ ValidFrom \in [Edges -> Nat \cup {Absent}]
  /\ ValidUntil \in [Edges -> Nat \cup {Absent}]
  /\ \A e \in Edges : ValidUntil[e] # Absent =>
       ValidFrom[e] # Absent /\ ValidFrom[e] <= ValidUntil[e]

Dated(item) == {item.path[i] : i \in {j \in DOMAIN item.path : ValidFrom[item.path[j]] # Absent}}

(* A fault, used only to see that a property notices it: the interval that *)
(* all paths of a service share.                                           *)
NarrowestWindow(windows) ==
  [from |-> Max({w.from : w \in windows}),
   until |-> IF \A w \in windows : w.until = Absent THEN Absent
             ELSE Min({w.until : w \in windows} \ {Absent})]

(* Every hop of a path must have been in force: it opens last and closes   *)
(* first.                                                                  *)
PathWindow(item) ==
  LET closed == {e \in Dated(item) : ValidUntil[e] # Absent}
  IN  [from |-> Max({ValidFrom[e] : e \in Dated(item)}),
       until |-> IF closed = {} THEN Absent ELSE Min({ValidUntil[e] : e \in closed})]

(* The widest interval the paths of a service recorded.                    *)
WidestWindow(windows) ==
  [from |-> Min({w.from : w \in windows}),
   until |-> IF \E w \in windows : w.until = Absent THEN Absent
             ELSE Max({w.until : w \in windows})]

(* summarizeCandidate: the paths that recorded nothing do not count.       *)
ServiceWindow(paths) ==
  LET recorded == {p \in paths : Dated(p) # {}}
  IN  IF recorded = {} THEN [from |-> Absent, until |-> Absent]
      ELSE WidestWindow({PathWindow(p) : p \in recorded})

(* Inclusive at both ends.                                                 *)
Overlap(window, incident) ==
  /\ incident.end = Absent \/ window.from <= incident.end
  /\ window.until = Absent \/ incident.start <= window.until

(* classifyWindowOverlap, with the windows it refuses.                     *)
Classify(window, incident) ==
  IF window.until # Absent /\ window.until < window.from THEN "INVALID_RESOLUTION_WINDOW"
  ELSE IF window.from = Absent THEN "unknown-window"
  ELSE IF Overlap(window, incident) THEN "resolved-during-window"
  ELSE "resolved-outside-window"

(* assertIncidentWindow, classifyWindowOverlap for every service: one that *)
(* is refused takes the whole result with it.                              *)
Standing(paths, incident) ==
  [s \in {p.node : p \in paths} |->
     Classify(ServiceWindow({p \in paths : p.node = s}), incident)]

InvalidIncident(incident) == incident.end # Absent /\ incident.end < incident.start

Refused(paths, incident) ==
  \/ InvalidIncident(incident)
  \/ \E s \in {p.node : p \in paths} :
       Standing(paths, incident)[s] = "INVALID_RESOLUTION_WINDOW"

(* buildTemporalWindow: complete when every path of every service has a    *)
(* place on the time axis and none is missing.                             *)
HistoryComplete(paths, truncated) == ~truncated /\ \A p \in paths : Dated(p) # {}

-----------------------------------------------------------------------------
(* The reference: a path is in force at an instant when every resolution   *)
(* on it that is dated is.                                                 *)
InForceAt(item, x) ==
  \A e \in Dated(item) : ValidFrom[e] <= x /\ (ValidUntil[e] = Absent \/ x <= ValidUntil[e])

(* One instant beyond all that is recorded stands for the open end.        *)
Instants(incident) ==
  LET last == Max({0, incident.start} \cup (({ValidFrom[e] : e \in Edges}
                    \cup {ValidUntil[e] : e \in Edges}) \ {Absent})) + 1
  IN  {x \in 0..last : incident.start <= x /\ (incident.end = Absent \/ x <= incident.end)}

ExposedDuring(item, incident) ==
  Dated(item) # {} /\ \E x \in Instants(incident) : InForceAt(item, x)

=============================================================================
