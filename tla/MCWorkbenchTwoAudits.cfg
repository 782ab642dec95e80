SPECIFICATION Spec
CONSTANTS
  Auditors = {a1, a2}
  Reasoners = {}
  Patchers = {}
  MaxRuns = 3
  MaxEdits = 1
  MaxFaults = 0
INVARIANT IdenticalAuditsConverge
CHECK_DEADLOCK FALSE
