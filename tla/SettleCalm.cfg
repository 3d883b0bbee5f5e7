SPECIFICATION CalmSpec
CONSTANTS
    i1 = i1
    i2 = i2
    p1 = p1
    p2 = p2
    c1 = c1
    c2 = c2
    w1 = w1
    w2 = w2
    Invoices = {i1, i2}
    Payments = {p1, p2}
    Notes = {c1}
    Workers = {w1, w2}
    NoOne = NoOne
    MaxTotal = 2
    Total <- EvenTotal
    Allocations <- ToAllInvoices
    CreditAmounts <- Credits
SYMMETRY Symmetry
CHECK_DEADLOCK FALSE
INVARIANTS
    PaidIsBooked
    BooksMatchPayments
    PaidInvoiceStands
    StatusTellsSettlement
