---------------------------- MODULE TyposquatService ----------------------------
(***************************************************************************)
(* TyposquattingService (typosquatting/service.ts): lockfile scans and the *)
(* reviews of what they find.  The detection of a scan runs in one piece,  *)
(* over a lockfile that nobody else has; all that others see of it is the  *)
(* Finding row, which TyposquatReview!Scan writes.  One of the two is      *)
(* looked at at a time.                                                    *)
(***************************************************************************)
EXTENDS TyposquatReview, TyposquatDetector

serviceVars == <<vars, detectorVars>>

Scanning == DetectionInit
NotScanning == detection = NoDetection /\ scan = CHOOSE s \in Scans : TRUE

ServiceInit == Init /\ (Scanning \/ NotScanning)

ServiceNext ==
  \/ detection.status = "none" /\ Next /\ UNCHANGED detectorVars
  \/ DetectionNext /\ UNCHANGED vars

ServiceSpec ==
  /\ ServiceInit /\ [][ServiceNext]_serviceVars
  /\ \A c \in Calls : WF_serviceVars(Settle(c) /\ UNCHANGED detectorVars)

(* Types of the detection; of the reviews, ReviewTypeOK.                   *)
ServiceTypeOK ==
  /\ ReviewTypeOK /\ scan \in Scans
  /\ detection.status \in {"none", "scanning", "done"}
  /\ Len(detection.left) + Len(detection.results) <= Len(scan.packages)

=============================================================================
