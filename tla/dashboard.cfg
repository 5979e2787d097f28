SPECIFICATION FairSpec
CONSTANTS
  Sockets = {s1, s2, s3}
  Timers = {t1, t2, t3}
  StaleMs = 3
  RetryMs = 1
  None = None
INVARIANTS
  OneConnection
  BadgeTruthful
PROPERTIES
  SilenceShown
  Reconnects
