SPECIFICATION Spec
CONSTANTS
    d1 = d1
    d2 = d2
    d3 = d3
    d4 = d4
    w1 = w1
    w2 = w2
    Docs = {d1, d2, d3, d4}
    Workers = {w1, w2}
    NoDoc = NoDoc
    NoWorker = NoWorker
    Roots = {d1}
    RootKinds <- Orders
    MaxQty = 1
    EditQtys = {2}
    FbrSettings = {FALSE, TRUE}
SYMMETRY Symmetry
CHECK_DEADLOCK FALSE
INVARIANTS
    IInv
    OneActiveDependent
    SourceStandsBehindDependent
    NeverMovedTwice
    PaidIsNotVoid
    FiledInvoiceIsNotVoid
