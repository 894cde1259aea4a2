SPECIFICATION Spec
CONSTANTS
    x = x
    y = y
    z = z
    g = g
    a1 = a1
    a2 = a2
    l2 = l2
    b1 = b1
    b2 = b2
    b3 = b3
    c0 = c0
    c1 = c1
    c2 = c2
    c3 = c3
    c4 = c4
    c5 = c5
    t1 = t1
    t2 = t2
    t3 = t3
    t4 = t4
    NoTip = NoTip
    Unspendable = Unspendable
    HashX = {x, y, z}
    Tx = {c0, c1, c2, c3, c4, c5, t1, t2, t3, t4}
    Block = {g, a1, a2, l2, b1, b2, b3}
    Ins <- MCIns
    Outs <- MCOuts
    Names <- MCNames
    Short <- MCShort
    Prev <- MCPrev
    Txs <- MCTxs
    FirstTx <- MCFirstTx
    Unspent <- MCUnspent
    ReorgLimit = 2
    ChunkSize = 2
    MaxHeight = 3
INVARIANTS
    TypeOK
    TablesExact
    CacheExact
    HistoryExact
PROPERTIES
    ReorgsSucceed
