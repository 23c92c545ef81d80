CONSTANTS
  w1 = w1
  w2 = w2
  Workers <- OneWorker
  FinishIsLast = TRUE
  MaxSessions = 2
  MaxSends = 4
  MaxReceives = 2
SPECIFICATION CooperativeSpec
INVARIANTS TypeOK SendOrder ReceiveOrder OnePoller CleanAfterClose
PROPERTIES OneWriteAtATime SentIsWritten CloseEnds
CHECK_DEADLOCK FALSE
