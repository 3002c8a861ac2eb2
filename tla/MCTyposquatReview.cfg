\* Two keys: a promotion and its retry against a dismissal and a promotion
\* under the dismissal's key; scans before, between and after.  And what a scan
\* detects, for some 400 names next to four trusted ones.
CONSTANTS
  k1 = k1  k2 = k2
  Calls = {1, 2, 3, 4}
  Keys = {k1, k2}
  Key <- McKey
  Action <- McAction
  Request <- McRequest
  NoRequest = NoRequest
  ScanTimes = {1, 3}
  Times = {2, 4}
  MaxLane = 2
  Targets <- McTargets
  Allowlist <- McAllowlist
  Blocklist <- McBlocklist
  Watchlist <- McWatchlist
  Scans <- McScans
SPECIFICATION ServiceSpec
INVARIANTS ReviewsAreBacked AnswerIsInGraph AlarmsAreExact
PROPERTIES DecidesWhatWasRead EveryReviewSettles
CHECK_DEADLOCK FALSE
