CONSTANTS
  p1 = p1
  p2 = p2
  c1 = c1
  c8 = c8
  Nobody = Nobody
  Pilots <- MCPilots
  Channels <- MCChannels
  Users <- MCUsers
  Requests = {{c1}, {c8}}
  Faults = TRUE
  CoreFaults = TRUE
  MaxCalls <- MCMaxCalls
  Own = p1
  Closed <- MCClosed
  Controlled = c1
SPECIFICATION ProgramSpec
INVARIANTS SetupHasSession
PROPERTIES ProgramEnds RequestsEnd
CHECK_DEADLOCK FALSE
