CONSTANTS
  g = g
  a1 = a1
  a2 = a2
  a3 = a3
  b1 = b1
  b2 = b2
  c2 = c2
  none = none
  nobody = nobody
  Blocks = {g, a1, a2, a3, b1, b2}
  Genesis = g
  Parent <- MCParent
  Anc <- MCAnc
  Work <- MCWork
  BadContext = {a3}
  BadConnect = {b2}
  BadDisk = {b1}
  NoVerdict = {a1}
  ForkRisk = {b1}
  Disputed = {a2}
  Checkpointed = {a1}
  Threads = {t1}
  Ops = {"invalidate", "reconsider", "reprocess"}
  nBlocks = 0
  NoBlock = none
  NoThread = nobody

SPECIFICATION Spec
INVARIANTS
  IndexConsistent
