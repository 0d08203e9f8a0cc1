SPECIFICATION RpcSpec
CONSTANTS
    g = g
    a = a
    y = y
    c = c
    d = d
    k = k
    v = v
    w = w
    x = x
    z1 = z1
    z2 = z2
    RpcTxs = {a}
    NoTx = NoTx
    NoPeer = NoPeer
    Peers = {p1}
    Txs <- ReorgTxs
    Outs <- ReorgOuts
    Spends <- ReorgSpends
    Minted <- ReorgMinted
    CoinStake <- JustK
    Zerocoin = {}
    Serial <- NoSerial
    LockTime <- ReorgLock
    Standard <- ReorgStandard
    Bad = {}
    Large = {}
    Genesis <- MCGenesis
    Blocks <- SmallBlocks
    Maturity = 2
    MaxOrphans = 1
    MaxHeight = 4
INVARIANTS
    InputsAvailable
CHECK_DEADLOCK FALSE
