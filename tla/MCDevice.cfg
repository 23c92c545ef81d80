CONSTANTS
  c1 = c1
  c2 = c2
  Channels <- MCChannels
  Faults = TRUE
  Refuses = TRUE
  MaxAttaches = 2
  MaxOperations = 2
  MaxBeats = 2
SPECIFICATION FairSpec
INVARIANTS TypeOK UserKnowsChannels NoMissingChannel
  Agreement HeartbeatsAnswered
PROPERTIES ReleaseEnds AttachEnds
CHECK_DEADLOCK FALSE
