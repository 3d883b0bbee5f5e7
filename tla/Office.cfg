SPECIFICATION OfficeSpec
CONSTANTS
    c1 = c1
    c2 = c2
    cash = cash
    bank = bank
    hbl = hbl
    ar = ar
    ap = ap
    equity = equity
    sales = sales
    rent = rent
    ali = ali
    e1 = e1
    y1 = y1
    y2 = y2
    ann = ann
    s1 = s1
    s2 = s2
    t1 = t1
    t2 = t2
    t3 = t3
    u1 = u1
    a1 = a1
    i1 = i1
    i2 = i2
    i3 = i3
    l1 = l1
    l2 = l2
    kg = kg
    pc = pc
    cup = cup
    set = set
    hall = hall
    clerk = clerk
    brand = brand
    kilo = kilo
    gst = gst
    boss = boss
    mia = mia
    noa = noa
    q1 = q1
    bob = bob
    b1 = b1
    b2 = b2
    n1 = n1
    k1 = k1
    m1 = m1
    NoOne = NoOne
    Nobody = Nobody
    None = None
    NoneMark = NoneMark
    Nought = Nought
    Papers <- PapersMC
    Prices = {0, 60}
    Accounts = {cash, bank, hbl, ar, ap, equity, sales, rent}
    Parties = {ali}
    Clerks = {c1, c2}
    AccountType <- AccountTypeMC
    AccountBucket <- AccountBucketMC
    Control = {ar, ap}
    Header = {}
    Role <- RoleMC
    BankAccount = hbl
    Movable = {rent}
    Folders = {bank, NoOne}
    Journals <- JournalsMC
    Amounts = {0, 2}
    Days = {1, 2}
    MaxVouchers = 3
    MaxJournals = 1
    MaxTurns = 1
    Expenses = {e1}
    Payouts = {y1, y2}
    People = {ann}
    Sales = {s1, s2}
    SaleOf <- SaleOfMC
    Rates = {2, 4}
    Sums = {2, 4}
    Desks = {c1, c2}
    MaxClaims = 2
    Tokens = {t1, t2, t3}
    Holders = {u1, a1}
    Admins = {a1}
    Handlers = {c1, c2}
    Invoices = {i1, i2, i3}
    CreditNotes = {i2, i3}
    Unreasoned = {i3}
    Lists = {l1, l2}
    Codes = {kg, pc}
    Filers = {c1, c2}
    BatchSize = 3
    MaxFilings = 3
    MaxAnswers = 2
    Masters = {cup, set, ali, hall, ann, clerk, brand, kilo, gst}
    KindOf <- KindOfMC
    Variants = {cup}
    Keepers = {c1, c2}
    MaxRows = 3
    Modules = {"orgs", "users", "roles", "invoices"}
    Users = {boss, mia, noa}
    Owner = boss
    CustomRoles = {q1}
    Wishes <- WishesMC
    Callers = {c1, c2}
    MaxCalls = 3
    MaxByHand = 1
    Nil = Nil
    Folk = {ali, bob}
    Debts = {b1, b2}
    Returns = {n1}
    Tills = {k1}
    Remits = {m1}
    Shares = {y1}
    PartyOf <- PartyOfMC
    TermsOf <- TermsOfMC
    ReturnTerms <- ReturnTermsMC
    Settling = {0, 4}
    RemitSum = 4
    ShareSum = 1
    OpeningSum = 2
    Dates = {40, 75}
    Terms = {10, Absent}
    AsOf = {40, 75, 140}
    Today = 75
    FiscalFrom = {0}
    Absent = Absent
CHECK_DEADLOCK FALSE
SYMMETRY Symmetry
INVARIANTS
    PostingsFollowDocuments
    StatementsTie
    BooksFollowVouchers
    PartyOwesOpening
    ClaimsMatchBooks
    CommissionWithinEarned
    OneLiveToken
    DeadFamilyStaysDead
    FiledIsTraced
    CachedListIsWhole
    HistoryKeepsItsRecord
    PermissionsAreVouched
    FiguresAgree
