\* One release with a cyclic influence.
CONSTANTS
  Absent = Absent
  Nobody = Nobody
  Nodes <- McNodes
  Edges <- McEdges
  NodeKind <- McNodeKind
  EdgeKind <- McEdgeKind
  Source <- McSource
  Target <- McTarget
  EdgeEvidence <- McEdgeEvidence
  EvidenceSource <- McEvidenceSource
  EvidenceConfidence <- McEvidenceConfidence
  NodeEvidence <- McNodeEvidence
  HighConfidence = 8
  MaxEvidenceIds = 4
  ValidFrom <- McValidFrom
  ValidUntil <- McValidUntil
  Incident = 1
  Stored <- McStored
  Written <- McWritten
  Requests <- McRequests
  Batches <- McBatches
  Controls <- McControls
  Plans <- McPlans
  Writers = {1, 2}
  Cases <- CycleCases
  MaxNodes = 8
  MaxEdges = 6
  PackageOf <- McPackageOf
  Situations <- McSituations
  FindingId = 26
  FindingEvidence = {9, 33, 34, 35}
  Synthetic = {34}
  VersionOrder <- McVersionOrder
  DetailLimits <- McDetailLimits
  OverviewRequests <- McOverviewRequests
SPECIFICATION RoutesSpec
INVARIANT AllowedIsTrusted
CHECK_DEADLOCK FALSE
