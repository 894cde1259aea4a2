SPECIFICATION Spec
CONSTANTS
    x = x
    y = y
    g = g
    a1 = a1
    a2 = a2
    a3 = a3
    b2 = b2
    b3 = b3
    r = r
    null = null
    t0 = t0
    t1 = t1
    t2 = t2
    HashX = {x, y}
    Tx = {r, null, t0, t1, t2}
    Pay <- MCPay
    Ins <- MCIns
    Block = {g, a1, a2, a3, b2, b3}
    Genesis = g
    NoTip = NoTip
    Prev <- MCPrev
    Txs <- MCTxs
    Limit = 2
    Wanted = {y}
    MaxRequests = 1
    Prompt = TRUE
INVARIANTS
    TypeOK
    
    
    ToldHeader
CHECK_DEADLOCK FALSE
