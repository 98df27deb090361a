SPECIFICATION FairSpec
CONSTANTS
  p1 = p1
  p2 = p2
  Monitor = Monitor
  NoPeer = NoPeer
  Peers <- MCPeers
  MaxHandles = 2
  MaxFrames = 2
  MaxFaults = 2
INVARIANTS
  TypeOK
  MapMatchesHandles
PROPERTIES
  OpenStreamsStay
  HubRejoined
  LoneHandleWakes
  ConnectEnds
CHECK_DEADLOCK FALSE
