SPECIFICATION Spec
CONSTANTS
  Repo <- MCRepo
  Cwd <- MCRepo
  Home <- MCHome
  SourceFiles <- MCSourceFiles
  DefaultIgnoreDirs <- MCIgnoreDirs
  DefaultMaxBytes = 1
  Patterns = {}
  Malformed = Malformed
  None = None
  OwnFiles <- OnlyDefaults
  CommandLines <- NoOptions
  OutputDirs <- TildeOutputDirs
  MaxCommands = 3
  MaxEdits = 1
INVARIANTS
  RepeatedAuditIsStable
CHECK_DEADLOCK FALSE
