CONSTANTS
  g = g
  a1 = a1
  a2 = a2
  a3 = a3
  b1 = b1
  b2 = b2
  t1 = t1
  t2 = t2
  t3 = t3
  t4 = t4
  s1 = s1
  s2 = s2
  none = none
  Blocks = {g, a1, a2, a3, b1, b2}
  Genesis = g
  Parent <- MCParent
  Anc <- MCAnc
  Txs = {t1, t2, t3, t4}
  Spends <- MCSpends
  Serial <- MCSerial
  CheckDepth = 1
  Envs <- Machines
  MaxLog = 2
  None = none
SPECIFICATION Spec
INVARIANTS
  CoinsBlockStored
  AlwaysStarts
  
  
  RefusedSpendsTwice
CHECK_DEADLOCK FALSE
