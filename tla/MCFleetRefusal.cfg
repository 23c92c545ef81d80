CONSTANTS
  p1 = p1
  p2 = p2
  c1 = c1
  c2 = c2
  Nobody = Nobody
  Pilots <- MCPilots
  Channels = {c1}
  Users <- AnyUser
  Requests = {{c1}}
  Faults = FALSE
  MaxCalls <- Twice
SPECIFICATION Spec
INVARIANT RefusalHonoured
CHECK_DEADLOCK FALSE
