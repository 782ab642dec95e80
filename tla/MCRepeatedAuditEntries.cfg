SPECIFICATION Spec
CONSTANTS
  Repo <- MCRepo
  Cwd <- MCHome
  Home <- MCHome
  SourceFiles <- MCSourceFiles
  DefaultIgnoreDirs <- MCIgnoreDirs
  DefaultMaxBytes = 1
  Patterns = {}
  Malformed = Malformed
  None = None
  OwnFiles <- DotSlash
  CommandLines <- NoOptions
  OutputDirs <- TildeOutputDirs
  MaxCommands = 3
  MaxEdits = 1
INVARIANTS
  IgnoredPathsAreLocal
CHECK_DEADLOCK FALSE
