SPECIFICATION FewRowsSpec
CONSTANTS
    i1 = i1
    i2 = i2
    p1 = p1
    p2 = p2
    c1 = c1
    c2 = c2
    w1 = w1
    w2 = w2
    Invoices = {i1}
    Payments = {p1, p2}
    Notes = {c1, c2}
    Workers = {w1, w2}
    NoOne = NoOne
    MaxTotal = 2
    Total <- EvenTotal
    Allocations <- ToOneInvoice
    CreditAmounts <- Credits
CHECK_DEADLOCK FALSE
INVARIANTS
    PaidWithinTotal
    CreditedIsNotes
PROPERTIES
    EveryRequestEnds
