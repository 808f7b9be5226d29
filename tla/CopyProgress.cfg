CONSTANTS
  Signals = {s1}
  Followers = {f1}
  Ticks = {t1, t2}
  Runs = {h1}
  MaxAttempts = 2
  JobAttempts = 2
  MayDie = TRUE
SPECIFICATION FairSpec
PROPERTIES EmittedIsSettled
