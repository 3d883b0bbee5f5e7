SPECIFICATION Spec
CONSTANTS
    d1 = d1
    d2 = d2
    d3 = d3
    d4 = d4
    w1 = w1
    w2 = w2
    Docs = {d1}
    Workers = {w1, w2}
    NoDoc = NoDoc
    NoWorker = NoWorker
    Roots = {d1}
    RootKinds <- Invoices
    MaxQty = 1
    EditQtys = {2}
    FbrSettings = {FALSE}

CHECK_DEADLOCK FALSE
PROPERTIES
    FinalizedLinesAreFixed
