SPECIFICATION Spec
CONSTANTS
  NumEntrypoints = 3
  NumTargets = 3
  TotalCaps = {0, 2, 4}
  PerEntrypointCaps = {0, 2}
  Scorings <- MCScorings
INVARIANTS
  TypeOK
  ResultIsRankedAndCapped
  LeftOutForAReason
PROPERTY ImplementsSelection
CHECK_DEADLOCK FALSE
