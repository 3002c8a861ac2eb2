\* Two workers: the sweep of one races the ingestion of another.
CONSTANTS
  s1 = s1  s2 = s2  a = a  b = b  c = c
  Services = {s1, s2}
  Contents = {a, b, c}
  Jobs = {1, 2, 3}
  Service <- McService
  Content <- McContent
  At <- McAt
  Lockfile <- McLockfile
  None = None
  MaxPackages = 8
  MaxWorkers = 2
  MaxSuperseded = 2
  MaxClosed = 2
SPECIFICATION Spec
INVARIANTS RowsReadable
CHECK_DEADLOCK FALSE
