CONSTANTS
  t1 = t1
  t2 = t2
  e1 = e1
  e2 = e2
  Threads <- MCThreads
  Events <- MCEvents
  NoEvent = NoEvent
  HandlersThrow = TRUE
  MaxNotifications = 4
  MaxDeferred = 1
SPECIFICATION FairSpec
PROPERTY EveryEventHandled
CHECK_DEADLOCK FALSE
