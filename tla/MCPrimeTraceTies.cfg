\* Four hits, all of them at one distance, each met at most once.
SPECIFICATION Spec
CONSTANTS
  h1 = h1
  h2 = h2
  h3 = h3
  h4 = h4
  MCInstances = {0, 1}
  MCDistances = {4}
  IntMax = 2
  Hits <- MCHits
  Models <- MCModels
  TMin = 2
  TMax = 8
  MayRepeat = FALSE
INVARIANTS
  HitsAllReported
