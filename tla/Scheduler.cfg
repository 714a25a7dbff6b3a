SPECIFICATION FairSpec
CONSTANTS
  None = None
  Spent = Spent
  Jobs = {j1}
  Threads = {t1, t2, t3, t4}
  MaxCalls = 6
CHECK_DEADLOCK FALSE
INVARIANTS
  ChainAlive
  CancelReaches
PROPERTIES
  EnabledJobsRun
  OffSettles
