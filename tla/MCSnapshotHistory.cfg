\* One worker: late, repeated, failing and interrupted ingestions.
CONSTANTS
  s1 = s1  s2 = s2  a = a  b = b  c = c
  Services = {s1, s2}
  Contents = {a, b, c}
  Jobs = {1, 2, 3, 4, 5, 6}
  Service <- McService
  Content <- McContent
  At <- McAt
  Lockfile <- McLockfile
  None = None
  MaxPackages = 8
  MaxWorkers = 1
  MaxSuperseded = 2
  MaxClosed = 2
SPECIFICATION Spec
INVARIANTS HistoryIsCoherent DependsOnWhatLoads
PROPERTY ClosedIsHistory
CHECK_DEADLOCK FALSE
