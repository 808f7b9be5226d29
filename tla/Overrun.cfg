CONSTANTS
  m1 = m1
  m2 = m2
  Messages = {m1}
  Parsed <- OneLacking
  FieldCount = 2
  Handlers = {h1, h2}
  MaxTrades = 2
  MaxCrashes = 0
  MayLoseAnswers = FALSE
SPECIFICATION Spec
INVARIANTS OneTradePerDraft
CHECK_DEADLOCK FALSE
