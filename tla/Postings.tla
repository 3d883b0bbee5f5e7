------------------------------ MODULE Postings ------------------------------
(***************************************************************************)
(* What a document is worth and what the books get of it: the pricing of     *)
(* lines and totals in documents/service.py, the money of an expense          *)
(* (expenses/totals.py), the journal lines that LedgerPoster                  *)
(* (accounting/poster.py) builds for each kind of source, and the test         *)
(* PostingService.validate_lines puts them to.                                *)
(*                                                                          *)
(* A behaviour takes one chain of papers, each converted from the one before  *)
(* and finalized (an invoice from a delivery, a credit note from it), while    *)
(* the item's purchase price and the filing of invoices may change, and        *)
(* voids them from the last.  Which conversions and voids are allowed is       *)
(* DocumentFlow's matter, payments are Settlement's.                           *)
(*                                                                          *)
(* Money is counted in 0.00001, a quantity of 0.001 times a price of 0.01, so   *)
(* that every rounding of the code is an operation on integers.               *)
(***************************************************************************)
EXTENDS Integers, Sequences, FiniteSets, SequencesExt

CONSTANTS
    Papers,     \* the chains of papers and what is written on them
    Prices      \* the purchase prices the item may have, in 0.01

\* What follows what in CONVERSIONS, and the papers that stand alone.
Chains ==
    {<<"delivery_challan", "invoice", "credit_note">>, <<"invoice", "credit_note">>,
     <<"credit_note">>, <<"sales_receipt">>, <<"goods_receipt", "bill">>, <<"bill">>}

Cent == 1000
Tick == 10      \* 0.0001, the last digit of an amount in the books

\* What is written on a line: quantity in 0.001, price and discount in 0.01 or a
\* percentage, a rate of tax in percent or in 0.01 a unit.
WrittenLines ==
    [quantity : Nat, price : Nat, percent : BOOLEAN, off : Nat, rate : Nat,
     perUnit : BOOLEAN, tracked : BOOLEAN]

\* Nothing is less than zero on a line or an expense, which are in whole cents.
ASSUME PostingAssumption ==
    /\ Prices \subseteq Nat
    /\ \A p \in Papers :
        \/ p.chain \in Chains /\ p.lines \in Seq(WrittenLines) /\ p.extra \in Int
        \/ /\ p.chain = <<"expense">> /\ p.inclusive \in BOOLEAN
           /\ p.tax \in Nat /\ p.tax % Cent = 0
           /\ p.amounts \in Seq(Nat) /\ \A i \in DOMAIN p.amounts : p.amounts[i] % Cent = 0
        \/ p.chain \in {<<"stock_adjustment">>, <<"stock_opening">>} /\ p.value \in Int
        \/ p.chain = <<"commission">> /\ p.value \in Nat \ {0}

VARIABLES
    paper,      \* the chain at hand
    papers,     \* the papers of it that are finalized
    books,      \* books[a]: debits less credits of account a
    price,      \* Product.purchase_price
    filing      \* how further tax is charged: "off", "registered", "unregistered"

postingVars == <<paper, papers, books, price, filing>>

BookAccounts ==
    {"accounts_receivable", "accounts_payable", "sales_revenue", "sales_returns",
     "sales_tax_payable", "input_tax", "cogs", "inventory", "grni", "cash", "bank",
     "operating_expenses", "inventory_adjustment", "opening_balance_equity",
     "sales_commission"}

HalfEven(n, d) ==
    LET q == n \div d
        r == n % d
    IN  IF 2 * r > d \/ (2 * r = d /\ q % 2 = 1) THEN q + 1 ELSE q

\* _q, quantize: n / d to whole cents, halves to the even one.
Cents(n, d) == Cent * HalfEven(n, d * Cent)

\* _money: to 0.0001, halves away from zero.
Money(v) ==
    IF v >= 0 THEN Tick * ((2 * v + Tick) \div (2 * Tick))
              ELSE - Tick * ((Tick - 2 * v) \div (2 * Tick))

Total(seq) == FoldSeq(LAMBDA x, y : x + y, 0, seq)
Each(op(_), seq) == [i \in DOMAIN seq |-> op(seq[i])]

(***************************************************************************)
(* Pricing                                                                   *)
(***************************************************************************)

Base(l) == Cents(l.quantity * l.price, 1)

Discount(l) ==
    LET asked == IF l.percent THEN Cents(Base(l) * l.off, 100) ELSE Cent * l.off
    IN  IF asked > Base(l) THEN Base(l) ELSE asked

Taxable(l) == Base(l) - Discount(l)

LineTax(l) == Cents(Taxable(l) * l.rate, 100)

\* _fbr_line_tax: the authority's rate is a percentage or so much a unit.
FbrLineTax(l) ==
    IF l.perUnit THEN Cents(l.rate * l.quantity, 1) ELSE LineTax(l)

FurtherRate == IF filing = "registered" THEN 0 ELSE 3

FurtherTax(l) == Cents(Taxable(l) * FurtherRate, 100)

\* The taxes of a document of this type, as its draft is made.
TaxTotal(type, lines) ==
    IF type \in {"invoice", "credit_note"} /\ filing # "off"
      THEN Total(Each(FbrLineTax, lines)) + Total(Each(FurtherTax, lines))
      ELSE Total(Each(LineTax, lines))

DocumentTotal(type, p) ==
    Total(Each(Taxable, p.lines)) + TaxTotal(type, p.lines) + Cent * p.extra

(***************************************************************************)
(* The goods a paper moves                                                   *)
(***************************************************************************)

Direction(type) ==
    CASE type \in {"delivery_challan", "invoice", "sales_receipt"} -> -1
      [] type \in {"credit_note", "goods_receipt", "bill"}         -> 1
      [] OTHER                                                     -> 0

PricedAtCost(type) == type \in {"goods_receipt", "bill"}

\* Mutant: whatever way the source took them.
SourceMovedAnyWay(type) == papers # <<>> /\ Last(papers).movesGoods

\* _source_moved_stock: the paper this one was made from took the same way.
SourceMovedGoods(type) ==
    /\ papers # <<>>
    /\ Last(papers).movesGoods
    /\ Direction(Last(papers).type) = Direction(type)

MovesGoods(type) == Direction(type) # 0 /\ ~SourceMovedGoods(type)

\* _stock_value: the cost of what moved in, negative for what moved out.
StockValue(type, lines) ==
    LET Cost(l) == IF l.tracked
                     THEN l.quantity * (IF PricedAtCost(type) THEN l.price ELSE price)
                     ELSE 0
    IN  IF MovesGoods(type) THEN Direction(type) * Total(Each(Cost, lines)) ELSE 0

(***************************************************************************)
(* Journal lines                                                             *)
(***************************************************************************)

Dr(a, x) == [account |-> a, debit |-> x, credit |-> 0]
Cr(a, x) == [account |-> a, debit |-> 0, credit |-> x]

\* A line that is only written for an amount other than zero.
IfAny(line) == IF line.debit = 0 /\ line.credit = 0 THEN <<>> ELSE <<line>>

CostLines(cost) == IfAny(Dr("cogs", cost)) \o IfAny(Cr("inventory", cost))

SaleLines(into, d) ==
    <<Dr(into, d.total)>>
        \o IfAny(Cr("sales_revenue", d.total - d.tax))
        \o IfAny(Cr("sales_tax_payable", d.tax))
        \o CostLines(- d.worth)

CreditNoteLines(d) ==
    <<Cr("accounts_receivable", d.total)>>
        \o IfAny(Dr("sales_returns", d.total - d.tax))
        \o IfAny(Dr("sales_tax_payable", d.tax))
        \o IfAny(Dr("inventory", d.worth)) \o IfAny(Cr("cogs", d.worth))

GoodsReceiptLines(d) == IfAny(Dr("inventory", d.worth)) \o IfAny(Cr("grni", d.worth))

PurchaseTarget(d) ==
    IF d.worth # 0 THEN "inventory"
    ELSE IF SourceMovedGoods("bill") THEN "grni"
    ELSE "operating_expenses"

BillLines(d) ==
    IfAny(Dr(PurchaseTarget(d), d.total - d.tax))
        \o IfAny(Dr("input_tax", d.tax))
        \o <<Cr("accounts_payable", d.total)>>

\* An adjustment or an opening balance of stock: against this account.
ValueLines(offset, value) ==
    IF value > 0 THEN <<Dr("inventory", value), Cr(offset, value)>>
    ELSE IF value < 0 THEN <<Dr(offset, - value), Cr("inventory", - value)>>
    ELSE <<>>

PayoutLines(amount) == <<Dr("sales_commission", amount), Cr("cash", amount)>>

\* net_amounts: the tax inside the amounts taken out of each, and what the
\* rounding leaves over put on the last.
EvenSplit(amounts, tax) ==
    LET gross == Total(amounts)
        Net(a) == Cents(a * gross - tax * a, gross)
    IN  Each(Net, amounts)

NetAmounts(amounts, tax, inclusive) ==
    LET gross == Total(amounts)
        net   == EvenSplit(amounts, tax)
        n     == Len(amounts)
    IN  IF ~inclusive \/ tax <= 0 \/ gross <= 0 THEN amounts
        ELSE [net EXCEPT ![n] = @ + (gross - tax - Total(net))]

ExpenseTotal(p) == Total(p.amounts) + IF p.inclusive THEN 0 ELSE p.tax

ExpenseLines(p) ==
    LET Line(a) == IfAny(Dr("operating_expenses", a))
    IN  IF ExpenseTotal(p) <= 0 THEN <<>>
        ELSE FlattenSeq(Each(Line, NetAmounts(p.amounts, p.tax, p.inclusive)))
                \o IfAny(Dr("input_tax", p.tax))
                \o <<Cr("bank", ExpenseTotal(p))>>

JournalOf(d) ==
    CASE d.type = "invoice"          -> SaleLines("accounts_receivable", d)
      [] d.type = "sales_receipt"    -> SaleLines("cash", d)
      [] d.type = "delivery_challan" -> CostLines(- d.worth)
      [] d.type = "credit_note"      -> CreditNoteLines(d)
      [] d.type = "goods_receipt"    -> GoodsReceiptLines(d)
      [] d.type = "bill"             -> BillLines(d)
      [] d.type = "expense"          -> ExpenseLines(paper)
      [] d.type = "stock_adjustment" -> ValueLines("inventory_adjustment", d.worth)
      [] d.type = "stock_opening"    -> ValueLines("opening_balance_equity", d.worth)
      [] d.type = "commission"       -> PayoutLines(d.total)

\* validate_lines: each line has one amount, none is negative, and the two
\* sides are equal.  A paper without lines is not booked at all.
Accepted(lines) ==
    LET Debit(l)  == Money(l.debit)
        Credit(l) == Money(l.credit)
    IN  \/ lines = <<>>
        \/ /\ Len(lines) >= 2
           /\ \A i \in DOMAIN lines :
                /\ Debit(lines[i]) >= 0 /\ Credit(lines[i]) >= 0
                /\ (Debit(lines[i]) > 0) # (Credit(lines[i]) > 0)
           /\ Total(Each(Debit, lines)) = Total(Each(Credit, lines))

Booked(bk, lines, sign) ==
    LET Of(a) == Total(Each(LAMBDA l : IF l.account = a
                                         THEN Money(l.debit) - Money(l.credit)
                                         ELSE 0, lines))
    IN  [a \in BookAccounts |-> bk[a] + sign * Of(a)]

(***************************************************************************)
(* Steps                                                                     *)
(***************************************************************************)

\* The next paper as it is drafted and finalized.
Draft(type) ==
    CASE Direction(type) # 0 ->
            [type |-> type, total |-> DocumentTotal(type, paper),
             tax |-> TaxTotal(type, paper.lines),
             worth |-> StockValue(type, paper.lines), movesGoods |-> MovesGoods(type),
             cost |-> price]
      [] type = "expense" ->
            [type |-> type, total |-> ExpenseTotal(paper), tax |-> paper.tax,
             worth |-> 0, movesGoods |-> FALSE, cost |-> price]
      [] type = "commission" ->
            [type |-> type, total |-> Cent * paper.value, tax |-> 0,
             worth |-> 0, movesGoods |-> FALSE, cost |-> price]
      [] OTHER ->
            [type |-> type, total |-> 0, tax |-> 0,
             worth |-> paper.value, movesGoods |-> FALSE, cost |-> price]

NextPaper == Draft(paper.chain[Len(papers) + 1])

WithJournal(d, lines) ==
    [type |-> d.type, total |-> d.total, tax |-> d.tax, worth |-> d.worth,
     movesGoods |-> d.movesGoods, cost |-> d.cost, journal |-> lines]

PostingInit ==
    /\ paper \in Papers
    /\ papers = <<>>
    /\ books = [a \in BookAccounts |-> 0]
    /\ price \in Prices
    /\ filing \in {"off", "registered", "unregistered"}

\* finalize, submit: a paper whose lines the books refuse stays a draft.
BookPaper ==
    /\ Len(papers) < Len(paper.chain)
    /\ LET d == NextPaper IN
        /\ Accepted(JournalOf(d))
        /\ papers' = Append(papers, WithJournal(d, JournalOf(d)))
        /\ books' = Booked(books, JournalOf(d), 1)
    /\ UNCHANGED <<paper, price, filing>>

\* void, cancel: the voucher's own lines, mirrored.  A sale over the counter
\* is paid when it is finalized, and an adjustment has no way back.
VoidPaper ==
    /\ papers # <<>>
    /\ Last(papers).type \notin {"sales_receipt", "stock_adjustment", "stock_opening"}
    /\ books' = Booked(books, Last(papers).journal, -1)
    /\ papers' = Front(papers)
    /\ UNCHANGED <<paper, price, filing>>

ChangeCost(c) ==
    /\ papers # <<>>
    /\ price' = c
    /\ UNCHANGED <<paper, papers, books, filing>>

SwitchFiling(f) ==
    /\ papers # <<>> /\ (f = "off") # (filing = "off")
    /\ filing' = f
    /\ UNCHANGED <<paper, papers, books, price>>

PostingNext ==
    \/ BookPaper
    \/ VoidPaper
    \/ \E c \in Prices : ChangeCost(c)
    \/ \E f \in {"off", "unregistered"} : SwitchFiling(f)

PostingSpec == PostingInit /\ [][PostingNext]_postingVars

(***************************************************************************)
(* What the books hold                                                       *)
(***************************************************************************)

\* Sum of f over the finalized papers of these types.
Over(types, f(_)) ==
    Total([i \in DOMAIN papers |-> IF papers[i].type \in types THEN f(papers[i]) ELSE 0])

TotalOf(d) == d.total
WorthOf(d) == Money(d.worth)
NoCost     == {"stock_adjustment", "stock_opening", "goods_receipt", "bill"}

PartiesOweTotals ==
    /\ books["accounts_receivable"] =
            Over({"invoice"}, TotalOf) - Over({"credit_note"}, TotalOf)
    /\ books["accounts_payable"] = - Over({"bill"}, TotalOf)

\* Goods leave once in a chain, however many of its papers could move them,
\* and what they cost is neither lost nor counted twice.
GoodsAreCostedOnce ==
    /\ Cardinality({i \in DOMAIN papers : papers[i].worth < 0 /\ papers[i].movesGoods}) <= 1
    /\ books["cogs"] = - Over({papers[i].type : i \in DOMAIN papers} \ NoCost, WorthOf)
    /\ paper.chain[1] \notin NoCost => books["inventory"] = - books["cogs"]

\* What is sold and credited at one cost leaves the inventory as it was.
GoodsComeBack ==
    \A i, j \in DOMAIN papers :
        /\ papers[i].movesGoods /\ papers[j].type = "credit_note"
        /\ i < j /\ papers[i].cost = papers[j].cost
        => papers[i].worth + papers[j].worth = 0

\* Written at list price, for goods that are stocked, and with nothing added.
IsPlain(p) == p.extra = 0 /\ \A i \in DOMAIN p.lines :
                /\ p.lines[i].tracked /\ p.lines[i].off = 0
                /\ Base(p.lines[i]) = p.lines[i].quantity * p.lines[i].price

\* Goods received and not invoiced are owed until their bill, and not after it.
ReceiptsAreCleared ==
    paper.chain[1] = "goods_receipt" /\ IsPlain(paper) =>
        books["grni"] = IF Len(papers) = 1 THEN - Money(papers[1].worth) ELSE 0

ExpenseIsSplit ==
    paper.chain = <<"expense">> /\ papers # <<>> =>
        /\ books["bank"] = - ExpenseTotal(paper)
        /\ books["operating_expenses"] = ExpenseTotal(paper) - books["input_tax"]

\* The papers that double entry can express: something is owed, what is left
\* after the tax is not negative, and the goods are worth a tick or nothing.
IsBookable(d) ==
    LET priced    == d.total > 0 /\ d.total >= d.tax
        cancelled == d.worth = 0 \/ Money(d.worth) # 0
    IN  CASE d.type \in {"invoice", "sales_receipt", "credit_note"} -> priced /\ cancelled
          [] d.type = "bill" -> priced
          [] d.type = "expense" ->
                \A i \in DOMAIN paper.amounts :
                    NetAmounts(paper.amounts, paper.tax, paper.inclusive)[i] >= 0
          [] OTHER -> cancelled

RefusedIsUnbookable ==
    Len(papers) < Len(paper.chain) =>
        (Accepted(JournalOf(NextPaper)) <=> IsBookable(NextPaper))

\* Whatever chain of papers is finalized and voided, with prices and filing
\* changing on the way: the books hold what the standing papers say and
\* nothing of the voided ones; goods are costed once and come back at that
\* cost; a receipt is cleared by its bill; and the books refuse exactly the
\* papers that cannot be booked (LedgerPoster's builders and validate_lines
\* against the totals, the stock value and net_amounts).
PostingsFollowDocuments ==
    /\ \A a \in BookAccounts : papers = <<>> => books[a] = 0
    /\ MapThenSumSet(LAMBDA a : books[a], BookAccounts) = 0
    /\ PartiesOweTotals
    /\ GoodsAreCostedOnce
    /\ GoodsComeBack
    /\ ReceiptsAreCleared
    /\ ExpenseIsSplit
    /\ RefusedIsUnbookable
=============================================================================
