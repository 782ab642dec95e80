SPECIFICATION Spec
CONSTANTS
  Repo <- MCRepo
  Cwd <- MCHome
  Home <- MCHome
  SourceFiles <- MCSourceFiles
  DefaultIgnoreDirs <- MCIgnoreDirs
  DefaultMaxBytes = 1
  Patterns = {}
  Malformed = Malformed
  None = None
  OwnFiles <- MCOwnFiles
  CommandLines <- MCCommandLines
  OutputDirs <- MCOutputDirs
  MaxCommands = 3
  MaxEdits = 1
INVARIANTS
  RepeatedAuditIsStable
  IndexedAsConfigured
CHECK_DEADLOCK FALSE
