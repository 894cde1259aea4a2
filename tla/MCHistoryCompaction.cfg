SPECIFICATION Spec
CONSTANTS
    NumPrefixes = 2
    MaxRowEntries = 2
    Careful = TRUE
    MaxFlushId = 3
    MaxTx = 5
INVARIANTS
    TypeOK
    HistoryExact
    FlushIdsFresh
    CursorHonest
