SPECIFICATION FairSpec
CONSTANTS
    NoTip = NoTip
    g = g
    a1 = a1
    a2 = a2
    a3 = a3
    a4 = a4
    b2 = b2
    b3 = b3
    b4 = b4
    b5 = b5
    c4 = c4
    c5 = c5
    c6 = c6
    Block = {g, a1, a2, a3, a4, b2, b3, b4, b5, c4, c5, c6}
    Prev <- MCPrev
    Tips = {a4, b5, c6}
    MaxFetch = 3
    CacheBlocks = 3
    ChunkSize = 2
    Decred = FALSE
    ReorgCounts = {1, 9}
    MaxForces = 1
    MaxMoves = 2
INVARIANTS
    TypeOK
    QueueAligned
PROPERTIES
    RangeExact
    Follows
CHECK_DEADLOCK FALSE
