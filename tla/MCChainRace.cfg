CONSTANTS
  g = g
  a1 = a1
  a2 = a2
  a3 = a3
  b1 = b1
  b2 = b2
  c2 = c2
  none = none
  nobody = nobody
  Blocks = {g, a1, a2, b1, b2}
  Genesis = g
  Parent <- MCParent
  Anc <- MCAnc
  Work <- MCWork
  BadContext = {}
  BadConnect = {b2}
  BadDisk = {}
  NoVerdict = {}
  ForkRisk = {}
  Disputed = {}
  Checkpointed = {}
  Threads = {t1, t2}
  Ops = {"invalidate"}
  nBlocks = 0
  NoBlock = none
  NoThread = nobody

SPECIFICATION LiveSpec
INVARIANTS
  ActiveChainUsable
  TargetStaysCandidate
  BestChainWhenQuiet
PROPERTY
  ActivationReturns
