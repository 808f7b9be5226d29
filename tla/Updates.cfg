SPECIFICATION FairSpec
CONSTANTS
  r1 = r1
  r2 = r2
  w1 = w1
  w2 = w2
  LastUpdate = 3
  Malformed <- SecondIsMalformed
  Requests = {r1, r2}
  Runs = {w1, w2}
  MaxAttempts = 2
  MaxFaults = 2
INVARIANTS
  TypeOK
  NothingIsDropped
PROPERTIES
  RefinesOneShot
  StoredJobIsStarted
  StreamAdvances
CHECK_DEADLOCK FALSE
