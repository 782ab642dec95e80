SPECIFICATION Spec
CONSTANTS
  Diffs <- AllDiffs
  AuditsOf <- MCAuditsOf
  Window = 1
  MaxCorrelations = 3
  MaxVariants = 2
INVARIANTS
  PlainHunksAreExact
  FilesAreExact
  OnlyLocalPaths
  AddedLinesStayInHunk
  TypeOK
  LinksAreJustified
  NothingNearIsMissed
  EveryLinkHasItsItem
CHECK_DEADLOCK FALSE
