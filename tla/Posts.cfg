CONSTANTS
  Bodies = {b1, b2}
  Handlers = {h1, h2}
  MaxAttempts = 3
  MaxFaults = 2
  NoBody = NoBody
SPECIFICATION FairSpec
INVARIANT OneMessage
PROPERTIES SentIsApproved PublishedIsFinal InFlightEnds
