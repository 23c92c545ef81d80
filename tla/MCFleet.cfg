CONSTANTS
  p1 = p1
  p2 = p2
  c1 = c1
  c2 = c2
  Nobody = Nobody
  Pilots <- MCPilots
  Channels = {c1, c2}
  Users <- AnyUser
  Requests <- OneByOne
  Faults = TRUE
  MaxCalls <- Thrice
SPECIFICATION Spec
SYMMETRY Symmetry
INVARIANTS TypeOK UserKnowsChannels NoMissingChannel ControlIsGranted
  AnswersExpected Agreement
PROPERTIES ImplementsLock
CHECK_DEADLOCK FALSE
