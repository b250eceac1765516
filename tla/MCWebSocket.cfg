SPECIFICATION FairSpec
CONSTANTS
  p1 = p1
  p2 = p2
  Peers <- MCPeers
  MessageSizes <- MCMessageSizes
  MaxAstray = 1
  MaxStarts = 2
INVARIANTS
  FramesReadable
  FramesInOrder
  NoSocketLost
PROPERTY StopReturns
\* The server may be gone, or its process.
CHECK_DEADLOCK FALSE
