CONSTANTS
  t1 = t1
  t2 = t2
  i0 = i0
  i1 = i1
  m1 = m1
  m2 = m2
  Txs <- MCTxs
  Own <- MCOwn
  Inputs <- MCInputs
  InputsOf <- MCInputsOf
  Masternodes = {m1, m2}
  Required = 1
  Self = m2
  NoLock = NoLock
  Nobody = Nobody
SPECIFICATION FairSpec
INVARIANT CountedOnce
 
PROPERTY LocksGoAway
CHECK_DEADLOCK FALSE
