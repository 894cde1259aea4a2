SPECIFICATION Spec
CONSTANTS
    NoTip = NoTip
    x = x
    y = y
    g = g
    a1 = a1
    a2 = a2
    a3 = a3
    b1 = b1
    b2 = b2
    HashX = {x, y}
    Block = {g, a1, a2, b1}
    Prev <- MCPrev
    Txs <- MCTxs
    FirstTx <- MCFirstTx
    ChunkSize = 2
    MaxFlushId = 3
    FlushBound = 4
INVARIANTS
    KilledLosesNothing
