SPECIFICATION Spec
CONSTANTS
  Conn = {"c1", "c2"}
  IsConnect = {"c1"}
  Bytes = 2
  NumThreads = 1
  kMaxQueuedRequests = 1
  Arguments <- CommandLines
  DefaultPort = 1
  MaxPort = 4
INVARIANT TunnelKeepsBytes
INVARIANT AcceptedAreServed
PROPERTY StopEnds
CHECK_DEADLOCK FALSE
