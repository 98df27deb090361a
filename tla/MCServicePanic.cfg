SPECIFICATION Spec
CONSTANTS
  p1 = p1
  p2 = p2
  Monitor = Monitor
  NoPeer = NoPeer
  Peers <- MCPeers
  MaxHandles = 2
  MaxFrames = 1
  MaxFaults = 0
INVARIANTS
  NoPanic
CHECK_DEADLOCK FALSE
