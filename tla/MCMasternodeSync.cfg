CONSTANTS
  p1 = p1
  p2 = p2
  Peers <- MCPeers
  Capable <- MCNewer
  Threshold = 1
  Enforced = TRUE
SPECIFICATION SyncFairSpec
INVARIANT SyncedHasData
PROPERTY StagesInOrder
PROPERTY FailedIsRetried
