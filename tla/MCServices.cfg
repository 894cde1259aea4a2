SPECIFICATION Spec
CONSTANTS
    c1 = c1
    c2 = c2
    g1 = g1
    NoGroup = nogroup
    Client = {c1, c2}
    GroupName = {g1}
    GroupOf <- MCGroupOf
    Service = {s1}
    MaxCost = 3
    MaxAccepts = 3
    MaxNotices = 1
    Key = {k1, k2}
    FeeRequest = {r1, r2}
    MaxTips = 3
    Chains <- MCChains
    ReorgLimit = 3
    ProofRequest = {r1}
    NumUrls = 3
    InitRetry = 1
    MaxRetry = 4
    MaxWorkqueue = 1
    RpcRequest = {r1}
    MaxEvents = 3
    a = a
    ip = ip
    NoAddress = none
    Host = {a, ip}
    TorHost = {}
    Address = {ip}
    AddressOf <- MCAddressOf
    CoinPeers = {a}
    Listable = {ip}
    ForceProxy = FALSE
    BadTries = 1
    GoodTries = 2
    NoteLimit = 2
    PeerId = {1, 2}
    Txs <- MCTxs
    HeaderTx <- MCHeaderTx
INVARIANTS
    FeeCurrent
    
    CacheExact
    AnswersRight
    IdsRight
    
PROPERTIES
    CostSurvives
    NotifyEnds
    ShutdownEnds
    Answered
    Forgets
CHECK_DEADLOCK FALSE
