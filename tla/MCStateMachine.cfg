CONSTANTS
  t1 = t1
  t2 = t2
  e1 = e1
  e2 = e2
  Threads <- MCThreads
  Events <- MCEvents
  NoEvent = NoEvent
  HandlersThrow = TRUE
  MaxNotifications = 5
  MaxDeferred = 2
SPECIFICATION FairSpec
INVARIANTS TypeOK Serial FirstComeFirstServed IInv
PROPERTIES ImplementsExecutor HandledUnlessThrown
CHECK_DEADLOCK FALSE
