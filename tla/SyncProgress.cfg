CONSTANTS
  p1 = p1
  i1 = i1
  i2 = i2
  o1 = o1
  Accounts = {1, 2}
  Positions = {p1}
  Holder <- SecondHolds
  Deals <- OneDeal
  Runs = {r1}
  JobAttempts = 2
  TickLimit = 2
  Lookback = 1
  Broken = {1}
  MaxTime = 1
  MaxJobs = 1
  MaxFaults = 2
SPECIFICATION FairSpec
PROPERTIES EveryDealIsSynced
CHECK_DEADLOCK FALSE
