SPECIFICATION FairSpec
CONSTANTS
    item = item
    hall = hall
    shelf = shelf
    s1 = s1
    sale = sale
    purchase = purchase
    return = return
    w1 = w1
    w2 = w2
    NoOne = NoOne
    Items = {item}
    Places = {hall, shelf}
    Serials = {s1}
    Docs = {sale, purchase, return}
    Workers = {w1, w2}
    Bins = {shelf}
    SerialsOf <- SerialsOfMC
    PlaceOrder <- PlaceOrderMC
    DocType <- DocTypeMC
    Lines <- LinesMC
    Quantities = {1}
    Openings <- OpeningsMC
    Costs = {1, 2}
    MaxReceived = 1
CHECK_DEADLOCK FALSE
INVARIANTS
    LevelIsLedger
    UnitsAreCovered
    OpeningIsAsEntered
    VoidUndoesMovements
    DeletedBinIsUnused
PROPERTIES
    OpeningComesFirst
    EveryRequestEnds

