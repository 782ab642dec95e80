SPECIFICATION ParserSpec
CONSTANT Diffs <- SmallDiffs
INVARIANT EveryHunkIsExact
CHECK_DEADLOCK FALSE
