SPECIFICATION Spec
CONSTANTS
  SignalTypes <- Types
  Values = {"com.a.b", "com/a/b", "cart", "save", "do"}
  Token <- MCToken
  NoToken = "none"
  TermScore <- Score
  SignalCap <- Cap
  ProximityScore = 20
  MinScore = 60
  MaxSourceTerms = 3
  MaxTargetTerms = 2
  TermLists <- RawTerms
  Texts <- TargetTexts
INVARIANTS
  ScoreIsReproducible
  SignalsExplainScore
CHECK_DEADLOCK FALSE
