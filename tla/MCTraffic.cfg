CONSTANTS
  c1 = c1
  c2 = c2
  NoChannel = NoChannel
  Channels <- MCChannels
  Faults = TRUE
  MaxOpens = 2
  MaxPackets = 4
SPECIFICATION FairSpec
INVARIANTS TypeOK PacketsHeld ReceivedInOrder
PROPERTIES HandlersReturn TrafficSettles
CHECK_DEADLOCK FALSE
