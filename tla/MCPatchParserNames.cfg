SPECIFICATION ParserSpec
CONSTANT Diffs <- NamedDiffs
INVARIANT EveryFileIsNamed
CHECK_DEADLOCK FALSE
