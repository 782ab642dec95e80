SPECIFICATION Spec
CONSTANTS
  Repositories <- MCRepositories
  Names = {n1, n2}
  Terms <- MCTerms
  None = None
INVARIANTS
  TypeOK
  EveryMatchIsKept
  DetectionsAreDistinct
  EveryDetectionIsClassified
CHECK_DEADLOCK FALSE
