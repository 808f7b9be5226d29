CONSTANTS
  Signals = {s1}
  Followers = {f1, f2}
  Ticks = {t1, t2}
  Runs = {h1, h2}
  MaxAttempts = 1
  JobAttempts = 2
  MayDie = FALSE
SYMMETRY Interchangeable
SPECIFICATION Spec
INVARIANTS SettledServesSteadyFollowers DeliveryNeedsConsent AttemptsAreDistinct
PROPERTIES AckIsFinal
