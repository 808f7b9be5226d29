CONSTANTS
  Trades = {t1}
  ExitIds = {e1, e2, e3}
  Volumes = {1, 2}
  Pnls <- Gain
  Labels = {a}
  Null = Null
  Keep = Keep
  NoRow = NoRow
  Sessions = {s1, s2}
  Patches <- Edits
  MaxVersion = 4
SYMMETRY Interchangeable
\* The instance stops when its trades and exit ids are used up.
CHECK_DEADLOCK FALSE
SPECIFICATION Spec
INVARIANTS AllocationIsExact ProjectionIsReplay
PROPERTIES NoBlindOverwrite RefinesAtomicLedger
