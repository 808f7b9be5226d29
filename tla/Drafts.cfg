CONSTANTS
  m1 = m1
  m2 = m2
  Messages = {m1}
  Parsed <- OneLacking
  FieldCount = 2
  Handlers = {h1, h2}
  MaxTrades = 3
  MaxCrashes = 2
  MayLoseAnswers = TRUE
SPECIFICATION FairSpec
INVARIANTS OneTradeUnlessAdrift UnsavedMeansNoTrade
PROPERTIES SavedIsFinal ClaimsEnd
CHECK_DEADLOCK FALSE
