SPECIFICATION Spec
CONSTANTS
    g = g
    a = a
    y = y
    c = c
    d = d
    k = k
    v = v
    w = w
    x = x
    z1 = z1
    z2 = z2
    RpcTxs = {}
    NoTx = NoTx
    NoPeer = NoPeer
    Peers = {p1, p2}
    Txs <- ReorgTxs
    Outs <- ReorgOuts
    Spends <- ReorgSpends
    Minted <- ReorgMinted
    CoinStake <- JustK
    Zerocoin = {}
    Serial <- NoSerial
    LockTime <- ReorgLock
    Standard <- ReorgStandard
    Bad = {v}
    Large = {c}
    Genesis <- MCGenesis
    Blocks <- SmallBlocks
    Maturity = 2
    MaxOrphans = 2
    MaxHeight = 5
SYMMETRY PeerSymmetry
INVARIANTS
    PoolChecked
    OrphansIndexed
PROPERTIES
    ReAdded
    OrphansResolved
