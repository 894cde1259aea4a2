SPECIFICATION FairSpec
CONSTANTS
    x = x
    y = y
    z = z
    g = g
    a1 = a1
    a2 = a2
    b2 = b2
    b3 = b3
    r = r
    t1 = t1
    t2 = t2
    t3 = t3
    t4 = t4
    HashX = {x, y, z}
    Tx = {r, t1, t2, t3, t4}
    Pay <- MCPay
    Ins <- MCIns
    Block = {g, a1, a2, b2, b3}
    Genesis = g
    NoTip = NoTip
    Prev <- MCPrev
    Txs <- MCTxs
    ChunkTxs = 2
    MaxIterations = 1
    MaxEvents = 2
    StartPools = {{}, {t1, t2}}
PROPERTY
    AllInformed
