SPECIFICATION Spec
CONSTANTS
  Auditors = {a1}
  Reasoners = {r1}
  Patchers = {p1}
  MaxRuns = 3
  MaxEdits = 1
  MaxFaults = 1
INVARIANTS
  TypeOK
  GenerationsDescend
  SuccessIsComplete
  DerivedFromOneAudit
  DerivedIsCurrent
PROPERTY EveryCommandEnds
CHECK_DEADLOCK FALSE
