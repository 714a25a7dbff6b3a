SPECIFICATION FairSpec
CONSTANTS
  e1 = e1
  e2 = e2
  e3 = e3
  wild = wild
  picky = picky
  NoEvent = NoEvent
  NoSubscriber = NoSubscriber
  Priority <- Prio
  Wants <- Filter
  MaxQueueSize = 2
  Workers = 1
  DlqMaxSize = 1
  Events = {e1, e2, e3}
  Publishers = {p1}
  Subscribers = {wild, picky}
  Batches <- OneBatch
  MaxStarts = 1
  MayUnsubscribe = FALSE
  MayTimeOut = FALSE
CHECK_DEADLOCK FALSE
INVARIANTS
  NothingSkipped
  GracefulStop
PROPERTIES
  QueuedEventsSettle
