\* A service that depends on a version whose own resolution was closed before.
CONSTANTS
  Absent = Absent
  Nobody = Nobody
  Nodes <- McNodes
  Edges <- McEdges
  NodeKind <- McNodeKind
  EdgeKind <- McEdgeKind
  Source <- McSource
  Target <- McTarget
  EdgeEvidence <- McEdgeEvidence
  EvidenceSource <- McEvidenceSource
  EvidenceConfidence <- McEvidenceConfidence
  NodeEvidence <- McNodeEvidence
  HighConfidence = 8
  MaxEvidenceIds = 4
  ValidFrom <- MixedFrom
  ValidUntil <- MixedUntil
  Incident = 1
  Stored <- MixedStored
  Written <- McWritten
  Requests <- McRequests
  Batches <- McBatches
  Controls <- McControls
  Plans <- McPlans
  Writers = {1, 2}
  Cases <- McCases
  MaxNodes = 8
  MaxEdges = 6
  PackageOf <- McPackageOf
  Situations <- McSituations
  FindingId = 26
  FindingEvidence = {9, 33, 34, 35}
  Synthetic = {34}
  VersionOrder <- McVersionOrder
  DetailLimits <- McDetailLimits
  OverviewRequests <- McOverviewRequests
SPECIFICATION RoutesSpec
INVARIANT HistoryIsNoFailure
CHECK_DEADLOCK FALSE
