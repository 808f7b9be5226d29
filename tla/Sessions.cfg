CONSTANTS
  Requests = {r1, r2}
  Actors = {"owner", "admin"}
  NewRoles = {"admin"}
  MaxSessions = 1
  MaxTurns = 2
  MaxLinks = 1
  MaxOrders = 2
  MaxCrashes = 1
SYMMETRY Interchangeable
\* Requests that meet a bound wait for ever.
CHECK_DEADLOCK FALSE
SPECIFICATION Spec
INVARIANTS TypeOK OneSuccessor LinkIsSpentOnce DueSessionsEnd RecoveryLocksOut
