CONSTANTS
  c1 = c1
  c2 = c2
  c3 = c3
  Channels <- MCChannels
  Faults = TRUE
  Refuses = TRUE
  CoreFaults = TRUE
  MaxAttaches = 1
  MaxOperations = 3
  MaxBeats = 1
SPECIFICATION ProgramSpec
INVARIANTS ProgramTypeOK TrafficFindsChannel
PROPERTIES Served
CHECK_DEADLOCK FALSE
