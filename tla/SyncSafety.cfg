CONSTANTS
  p1 = p1
  i1 = i1
  i2 = i2
  o1 = o1
  Accounts = {1}
  Positions = {p1}
  Holder <- OneHolder
  Deals <- ScaledDeals
  Runs = {r1, r2}
  JobAttempts = 1
  TickLimit = 1
  Lookback = 2
  Broken = {}
  MaxTime = 2
  MaxJobs = 2
  MaxFaults = 1
SYMMETRY Interchangeable
SPECIFICATION Spec
INVARIANTS TypeOK CursorCoversHistory TradesAreWhole AssessmentIsCurrent
PROPERTIES LeaseIsRespected
CHECK_DEADLOCK FALSE
