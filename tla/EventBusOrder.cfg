SPECIFICATION Spec
CONSTANTS
  e1 = e1
  e2 = e2
  e3 = e3
  wild = wild
  picky = picky
  NoEvent = NoEvent
  NoSubscriber = NoSubscriber
  Priority <- Prio
  Wants <- Filter
  MaxQueueSize = 2
  Workers = 1
  DlqMaxSize = 1
  Events = {e1, e2, e3}
  Publishers = {p1, p2}
  Subscribers = {wild}
  Batches <- OneBatch
  MaxStarts = 1
  MayUnsubscribe = TRUE
  MayTimeOut = TRUE
CHECK_DEADLOCK FALSE
INVARIANTS
  Accounting
  AtMostOnce
PROPERTIES
  KeepsPromise
