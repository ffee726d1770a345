\* Every model of four hits at distances before, at the start of, inside
\* and behind the ray's interval, with every way the GPU may meet them.
SPECIFICATION Spec
CONSTANTS
  h1 = h1
  h2 = h2
  h3 = h3
  h4 = h4
  MCInstances = {0}
  MCDistances = {2, 4, 6, 8, 10, 14}
  IntMax = 2
  Hits <- MCHits
  Models <- MCModels
  TMin = 4
  TMax = 12
  MayRepeat = TRUE
INVARIANTS
  TypeOK
  DistinctHitsAllReported
PROPERTIES
  SequenceSpec
