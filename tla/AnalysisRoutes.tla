----------------------------- MODULE AnalysisRoutes -----------------------------
(***************************************************************************)
(* The analyses of the API (api/routes/analysis.ts and the runners it has  *)
(* by injection): of live data, of one verified batch, and of a release    *)
(* snapshot; and the investigations of a finding and of a package          *)
(* (api/routes/typosquatting.ts, api/routes/packages.ts).  They share      *)
(* nothing but the shape of the graph, so that one request is looked at at *)
(* a time: `kind` says of which sort.                                      *)
(***************************************************************************)
EXTENDS LiveAnalysis, Containment, ReleaseInfluenceStore, FindingDetail, PackageOverview

VARIABLE kind

rowVars == <<graphVars, detail, overview>>
routeVars == <<kind, liveVars, containmentVars, storeVars, rowVars>>

LiveIdle == /\ request = CHOOSE r \in Requests : TRUE
            /\ graph = [nodes |-> {}, edges |-> {}, index |-> {}]
            /\ phase = "idle" /\ affected = [versions |-> {}, evidence |-> {}, truncated |-> FALSE]
            /\ search = Fresh(<<>>) /\ asked = {}
            /\ evidence = [funnel |-> {}, catalog |-> {}] /\ answer = [code |-> 0, cause |-> "none"]
ContainmentIdle == /\ batch = [nodes |-> {}, edges |-> {}] /\ plan = CHOOSE p \in Plans : TRUE
                   /\ report = [status |-> "idle"]
StoreIdle == /\ case = CHOOSE c \in Cases : TRUE
             /\ snapshot = NoSnapshot /\ entities = {} /\ edges = {} /\ late = {}
             /\ writer = [w \in Writers |-> [at |-> "idle", outcome |-> "none"]]
             /\ reader = [NewReader EXCEPT !.at = "idle"]

GraphIdle == Holding(CHOOSE s \in Situations : TRUE)
DetailIdle == detail = [NewDetail(CHOOSE lim \in DetailLimits : TRUE) EXCEPT !.at = "answered"]
OverviewIdle == overview = [NewOverview(CHOOSE r \in OverviewRequests : TRUE) EXCEPT !.at = "answered"]

RoutesInit ==
  \/ /\ kind = "live" /\ LiveInit /\ ContainmentIdle /\ StoreIdle
     /\ GraphIdle /\ DetailIdle /\ OverviewIdle
  \/ /\ kind = "batch" /\ LiveIdle /\ ContainmentInit /\ StoreIdle
     /\ GraphIdle /\ DetailIdle /\ OverviewIdle
  \/ /\ kind = "release" /\ LiveIdle /\ ContainmentIdle /\ StoreInit
     /\ GraphIdle /\ DetailIdle /\ OverviewIdle
  \/ /\ kind = "finding" /\ LiveIdle /\ ContainmentIdle /\ StoreIdle
     /\ DetailInit /\ OverviewIdle
  \/ /\ kind = "package" /\ LiveIdle /\ ContainmentIdle /\ StoreIdle
     /\ OverviewInit /\ DetailIdle

RoutesNext ==
  \/ kind = "live" /\ LiveNext /\ UNCHANGED <<kind, containmentVars, storeVars, rowVars>>
  \/ kind = "batch" /\ ContainmentNext /\ UNCHANGED <<kind, liveVars, storeVars, rowVars>>
  \/ kind = "release" /\ StoreNext /\ UNCHANGED <<kind, liveVars, containmentVars, rowVars>>
  \/ /\ kind = "finding" /\ DetailNext
     /\ UNCHANGED <<kind, liveVars, containmentVars, storeVars, overview>>
  \/ /\ kind = "package" /\ OverviewNext
     /\ UNCHANGED <<kind, liveVars, containmentVars, storeVars, detail>>

(* A database statement has a timeout; what follows is computed at once.   *)
RoutesSpec ==
  /\ RoutesInit /\ [][RoutesNext]_routeVars
  /\ LiveFairness /\ StoreFairness /\ DetailFairness /\ OverviewFairness

-----------------------------------------------------------------------------
(* Types.                                                                  *)
RoutesTypeOK ==
  /\ kind = "live" => LiveTypeOK
  /\ kind = "batch" => batch \in Batches /\ plan \in Plans
  /\ kind = "release" => StoreTypeOK
  /\ kind \in {"finding", "package"} => StoredTypeOK

(* Every request that is sent is answered: a search ends within its        *)
(* limits, and no writer and no failure keeps a reader waiting.            *)
Settled ==
  /\ kind = "live" => phase = "answered"
  /\ kind = "release" => /\ reader.at = "answered"
                         /\ \A w \in Writers : writer[w].at \in {"idle", "ended"}
  /\ kind = "finding" => detail.at = "answered"
  /\ kind = "package" => overview.at = "answered"
EveryAnalysisSettles == <>Settled

(* What an investigation shows of rows that are being written and          *)
(* rewritten is real, and what it leaves out it leaves out at a limit.     *)
InvestigationsAreReal == ExposureIsReal /\ OverviewIsBounded

=============================================================================
