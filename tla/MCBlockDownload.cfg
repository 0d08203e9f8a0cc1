CONSTANTS
  g = g
  m1 = m1
  m2 = m2
  m3 = m3
  m4 = m4
  m5 = m5
  m6 = m6
  r1 = r1
  r2 = r2
  r3 = r3
  p1 = p1
  p2 = p2
  none = none
  Blocks = {g, m1, m2, m3, m4, m5, m6, r1, r2, r3}
  Genesis = g
  Parent <- MCParent
  Anc <- MCAnc
  Refusable = {r1, r2, r3}
  Peers = {p1, p2}
  Preferred = {p1, p2}
  Worlds <- MCWorlds
  Batch = 2
  BLOCK_DOWNLOAD_WINDOW = 2
  MAX_BLOCKS_IN_TRANSIT_PER_PEER = 2
  Recent = 4
  None = none
SPECIFICATION Spec
INVARIANTS
  FlightAgrees
  SyncCounted
  CommonStored
PROPERTIES
  SyncCompletes
CHECK_DEADLOCK FALSE
