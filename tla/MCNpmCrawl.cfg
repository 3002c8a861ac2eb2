\* Every set of roots of five packages, two hops, at most four packages; and
\* every batch of six other fragments in every order.
CONSTANTS
  Absent = Absent
  Fragments = {1, 2, 3, 4, 5, 6, 7, 8, 9, 10, 11}
  Packages = {1, 2, 3, 4, 5}
  Names <- McNames
  Content <- McContent
  Ends <- McEnds
  Index <- McIndex
  Allowed <- McAllowed
  Fields = {"handle", "publishedAt"}
  Values = {1, 2}
  Deps <- McDeps
  MaxDepth = 2
  MaxPackages = 4
  Concurrency = 2
  Retries = 1
SPECIFICATION CrawlSpec
INVARIANTS SelectionIsDeterministic BatchIsWhatWasCollected MergedOrRefused
PROPERTY CrawlEnds
CHECK_DEADLOCK FALSE
