CONSTANTS
  w1 = w1
  w2 = w2
  Workers <- OneWorker
  FinishIsLast = TRUE
  MaxSessions = 1
  MaxSends = 2
  MaxReceives = 1
SPECIFICATION FairSpec
PROPERTY CloseEnds
CHECK_DEADLOCK FALSE
