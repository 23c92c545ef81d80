CONSTANTS
  w1 = w1
  w2 = w2
  Workers <- TwoWorkers
  FinishIsLast = FALSE
  MaxSessions = 1
  MaxSends = 4
  MaxReceives = 3
SPECIFICATION Spec
SYMMETRY Symmetry
PROPERTY OneWriteAtATime
CHECK_DEADLOCK FALSE
