SPECIFICATION PipelineSpec
CONSTANTS
  Words <- MCWords
  Short = {"get"}
  StopWords = {"get"}
  Begins <- MCBegins
  NoMethod = NoMethod
  Audits <- MCAudits
  MaxResolverEdges = 2
  MaxSameFileEdges = 2
  MaxHandlerEdges = 2
  MaxLowSignalEdges = 3
  Texts = {"dispatch", "resolved", "same_file_correlation", "handler_name_correlation"}
  IdWidth = 1
  BriefEdges = 4
  ViewerEdges = 9
  MaxItems = 3
INVARIANTS
  TypeOK
  NothingLinkedTwice
  GraphIsComplete
  CorrelationsKeepTheirCaps
  LeftOutForAReason
  EvidenceLinksAreExact
  ConfidenceFollowsTheClass
  IndexFindsWhatScores
  FocusOnlyReorders
  FocusCountsAreTheQueues
  PreviewsKeepTheOrder
  EveryReferenceResolves
  ReasoningOmitsOnlyWhenFull
CHECK_DEADLOCK FALSE
