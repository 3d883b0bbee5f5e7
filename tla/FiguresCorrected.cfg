SPECIFICATION FiguresSpec
CONSTANTS
    ali = ali
    b1 = b1
    k1 = k1
    m1 = m1
    Absent = Absent
    Folk = {ali}
    Debts = {b1}
    Returns = {}
    Tills = {k1}
    Remits = {m1}
    Shares = {}
    PartyOf <- PartyOfMC
    TermsOf <- TermsOfMC
    ReturnTerms = {}
    Settling = {0, 4}
    RemitSum = 4
    ShareSum = 1
    OpeningSum = 2
    Dates = {40, 75}
    Terms = {10, Absent}
    AsOf = {40, 75, 140}
    Today = 75
    FiscalFrom = {0}
CHECK_DEADLOCK FALSE
INVARIANT CorrectedOpeningIsReported
