SPECIFICATION FairCalmSpec
CONSTANTS
    d1 = d1
    d2 = d2
    d3 = d3
    d4 = d4
    w1 = w1
    w2 = w2
    Docs = {d1, d2, d3, d4}
    Workers = {w1, w2}
    NoDoc = NoDoc
    NoWorker = NoWorker
    Roots = {d1}
    RootKinds <- Everything
    MaxQty = 2
    EditQtys = {0, 1}
    FbrSettings = {FALSE}

CHECK_DEADLOCK FALSE
INVARIANTS
    LedgersMatchDocument
    ClosedWhileFulfilled
    ConvertedLinesStillMatch
    GoodsMovedOnce
PROPERTIES
    FinalizedLinesAreFixed
    ImplementsLifecycle
    EveryRequestEnds
