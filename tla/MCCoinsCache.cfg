CONSTANTS
  t1 = t1
  t2 = t2
  full = full
  part = part
  gone = gone
  b0 = b0
  b1 = b1
  b2 = b2
  b3 = b3
  Txids = {t1, t2}
  Coins = {full, gone}
  Pruned = gone
  Blocks = {b0, b1, b2}
  MaxDepth = 2
  CoinsAt <- MCCoinsAt
  NoEntry = NoEntry
  NoTx = NoTx
  NoBlock = NoBlock
SPECIFICATION Spec
INVARIANTS FlagsRight DbDescribesItsBlock
PROPERTIES ImplementsView
