SPECIFICATION UndoSpec
CONSTANTS
    g = g
    h = h
    k = k
    a = a
    b = b
    s = s
    Txs <- MCTxs
    CoinBase <- MCCoinBase
    CoinStake <- MCCoinStake
    vin <- MCvin
    nOut <- MCnOut
    Blocks <- MCBlocks
    Maturity = 2
    MaxHeight = 7
INVARIANTS
    OutputsFollowChain
    CoinbaseSpendsMature
