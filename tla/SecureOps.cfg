SPECIFICATION FairSpec
CONSTANTS
  a1 = a1
  a2 = a2
  a3 = a3
  good = good
  wrong = wrong
  NoKey = NoKey
  Severity <- Sev
  Keys = {good, wrong}
  ValidKeys = {good}
  Alerts = {a1, a2}
  MaxBatch = 2
  MaxStarts = 2
  MayCrash = TRUE
  MayTimeOut = TRUE
CHECK_DEADLOCK FALSE
INVARIANTS
  NothingLost
  NoResend
  HaltsOnBadKey
PROPERTIES
  ImplementsOutbox
  QueuedAlertsSettle
