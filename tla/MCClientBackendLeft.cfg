CONSTANTS
  w1 = w1
  w2 = w2
  Workers <- OneWorker
  FinishIsLast = TRUE
  MaxSessions = 1
  MaxSends = 3
  MaxReceives = 1
SPECIFICATION Spec
INVARIANT NothingLeftToWrite
CHECK_DEADLOCK FALSE
