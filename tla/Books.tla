------------------------------- MODULE Books -------------------------------
(***************************************************************************)
(* The general ledger: vouchers and the entries they post, fiscal years and   *)
(* periods, the chart of accounts, opening balances, and the statements read  *)
(* from the entries.  backend/app/modules/accounting (service, vouchers,       *)
(* fiscal, setup, accounts, reports) and banks/service.py.                     *)
(*                                                                          *)
(* A request that works on a voucher reads it without a lock and writes it     *)
(* later; in between another request may do the same.  A voucher written from  *)
(* a stale read is recorded in "raced", a history variable.  Amounts are       *)
(* signed: a debit is positive.  Which lines are balanced, and what each       *)
(* source books, is Postings' matter; here a voucher is booked as it is.       *)
(***************************************************************************)
EXTENDS Integers, Sequences, FiniteSets, FiniteSetsExt

CONSTANTS
    Accounts, Parties, Clerks,
    NoOne,          \* no parent account, no party
    AccountType,    \* AccountType[a]: asset, liability, equity, income, expense
    AccountBucket,  \* AccountBucket[a]: the part of the cash flow a belongs to
    Control,        \* the accounts only documents may post to
    Header,         \* the accounts nothing may post to
    Role,           \* Role[r]: the account mapped to role r
    BankAccount,    \* an account that is made for a bank and deleted with it
    Movable,        \* the accounts a clerk files under other accounts or retires
    Journals,       \* the lines of the journals a clerk writes
    Amounts,        \* the opening balances entered for a party
    Days,           \* the posting dates; each is a period and a fiscal year
    Folders,        \* what they are filed under
    MaxVouchers,    \* bound: vouchers ever written
    MaxJournals,    \* bound: those of them a clerk writes as journals
    MaxTurns        \* bound: changes of the calendar, the chart and the parties

ASSUME BooksAssumption ==
    /\ NoOne \notin Accounts \cup Parties /\ IsFiniteSet(Accounts)
    /\ BankAccount \in Accounts /\ Control \cup Header \cup Movable \subseteq Accounts
    /\ AccountType \in [Accounts -> {"asset", "liability", "equity", "income", "expense"}]
    /\ AccountBucket \in [Accounts -> {"operating", "investing", "financing"}]
    /\ {"bank", "cash", "cogs", "opening_balance_equity", "inventory", "accounts_receivable",
        "accounts_payable"} \subseteq DOMAIN Role
    /\ \A r \in DOMAIN Role : Role[r] \in Accounts
    /\ Days \subseteq Nat \ {0} /\ {MaxVouchers, MaxJournals, MaxTurns} \subseteq Nat
    /\ Amounts \subseteq Int /\ Folders \subseteq Accounts \cup {NoOne}
    /\ Journals \subseteq Seq([account : Accounts, amount : Int, party : Parties \cup {NoOne}])

VARIABLES
    account,    \* account[a]: [kept, active, parent]
    year,       \* year[d]: whether day d's fiscal year exists
    open,       \* open[d]: whether its period is open
    voucher,    \* the vouchers, in the order of their ids
    entered,    \* entered[p]: the opening balance last entered for p, signed
    vendor,     \* vendor[p]: p is a vendor and no customer
    turns,      \* the changes counted for MaxTurns
    job,        \* job[c]: the request of clerk c and what it read
    raced       \* the vouchers and parties written from a stale read, and the
                \* parties whose opening balance was reversed as a voucher

bookVars == <<account, year, open, voucher, entered, vendor, turns, job, raced>>

Resting == [kind |-> "idle"]

BooksInit ==
    /\ \E made \in BOOLEAN :
        account = [a \in Accounts |->
                    [kept |-> a = BankAccount => made, active |-> TRUE,
                     parent |-> IF a = BankAccount THEN Role.bank ELSE NoOne]]
    /\ \E latest \in Days : year = [d \in Days |-> d <= latest]
    /\ open = [d \in Days |-> TRUE]
    /\ voucher = <<>>
    /\ entered = [p \in Parties |-> 0]
    /\ vendor = [p \in Parties |-> FALSE]
    /\ turns = 0
    /\ job = [c \in Clerks |-> Resting]
    /\ raced = {}

(***************************************************************************)
(* The ledger                                                                *)
(***************************************************************************)

\* The sum of f over S.
TotalOver(S, f(_)) == MapThenSumSet(f, S)

\* The rows of ledger_entries: <<v, i>> is the i-th entry of voucher v.
Entries == UNION {{<<v, i>> : i \in DOMAIN voucher[v].entries} : v \in DOMAIN voucher}

EntryAt(e) == voucher[e[1]].entries[e[2]]
AmountOf(e) == EntryAt(e).amount

HasEntries(a) == \E e \in Entries : EntryAt(e).account = a
InAnyVoucher(a) == \E v \in DOMAIN voucher : \E i \in DOMAIN voucher[v].lines :
                        voucher[v].lines[i].account = a

(***************************************************************************)
(* PostingService                                                            *)
(***************************************************************************)

PeriodIsOpen(d) == d \in Days /\ year[d] /\ open[d]

LinesTotal(lines) == TotalOver(DOMAIN lines, LAMBDA i : lines[i].amount)

ValidLines(lines, controlToo) ==
    /\ Len(lines) >= 2
    /\ LinesTotal(lines) = 0
    /\ \A i \in DOMAIN lines :
        /\ lines[i].amount # 0
        /\ account[lines[i].account].kept /\ account[lines[i].account].active
        /\ lines[i].account \notin Header
        /\ controlToo \/ lines[i].account \notin Control

NewVoucher(type, d, lines, source, from) ==
    [type |-> type, status |-> "draft", day |-> d, year |-> d, lines |-> lines,
     source |-> source, from |-> from, entries |-> <<>>]

EntriesOf(lines, d) ==
    [i \in DOMAIN lines |-> [account |-> lines[i].account, amount |-> lines[i].amount,
                             party |-> lines[i].party, day |-> d]]

\* post_draft: one entry per line, beside any that are there.
Posted(v) ==
    [v EXCEPT !.status = "posted", !.year = v.day,
              !.entries = @ \o EntriesOf(v.lines, v.day)]

Mirror(lines) == [i \in DOMAIN lines |-> [lines[i] EXCEPT !.amount = - @]]

ReversalOf(v, d) ==
    Posted(NewVoucher("reversal", d, Mirror(voucher[v].lines), voucher[v].source, v))

RoomFor(n) == Len(voucher) + n <= MaxVouchers

Turn == turns < MaxTurns /\ turns' = turns + 1

\* What a request is about: a voucher, or the party whose opening it is.
Subject(v) == IF voucher[v].source \in Parties THEN voucher[v].source ELSE v

Read(c, request) ==
    /\ job[c] = Resting
    /\ job' = [job EXCEPT ![c] = request]
    /\ UNCHANGED <<account, year, open, voucher, entered, vendor, turns, raced>>

\* The request of c ends; what the others about its subject read is stale, and the
\* lines they hold may be gone.  Requests about other subjects touch nothing of it.
Written(c, linesGone) ==
    job' = [o \in Clerks |->
              IF o = c \/ job[o] = Resting THEN Resting
              ELSE IF job[o].subject # job[c].subject THEN job[o]
              ELSE [job[o] EXCEPT !.stale = TRUE, !.linesGone = @ \/ linesGone]]

\* What is recorded in raced when c has written voucher v.
Noted(c, v) ==
    raced \cup (IF job[c].stale THEN {v, Subject(v)} ELSE {})
          \cup (IF job[c].kind = "reverse" THEN {voucher[v].source} \cap Parties ELSE {})

(***************************************************************************)
(* Vouchers                                                                  *)
(***************************************************************************)

WriteJournal(lines, d) ==
    /\ RoomFor(1) /\ PeriodIsOpen(d) /\ ValidLines(lines, FALSE)
    /\ Cardinality({v \in DOMAIN voucher : voucher[v].type = "journal"}) < MaxJournals
    /\ voucher' = Append(voucher, NewVoucher("journal", d, lines, NoOne, 0))
    /\ UNCHANGED <<account, year, open, entered, vendor, turns, job, raced>>

\* Mutant: any voucher that is booked may be reversed.
BookedStatus(kind) == IF kind = "reverse" THEN {"posted", "reversed"} ELSE {"draft"}

\* The status a voucher must have for this request.
StatusFor(kind) == IF kind = "reverse" THEN {"posted"} ELSE {"draft"}

ReadVoucher(c, kind, v) ==
    /\ voucher[v].status \in StatusFor(kind)
    /\ Read(c, [kind |-> kind, subject |-> Subject(v), voucher |-> v,
                stale |-> FALSE, linesGone |-> FALSE])

\* update_journal_voucher: the lines that were read are deleted and others written,
\* so another request that holds the old ones can no longer post them; of two
\* overlapping updates, both sets stay.  The period is not looked at until the
\* voucher is posted.
UpdateVoucher(c, lines, d) ==
    LET v    == job[c].voucher
        kept == IF job[c].linesGone THEN voucher[v].lines ELSE <<>>
    IN
    /\ job[c].kind = "update"
    /\ ValidLines(lines, FALSE)
    /\ voucher' = [voucher EXCEPT ![v].lines = kept \o lines, ![v].day = d]
    /\ Written(c, TRUE)
    /\ raced' = Noted(c, v)
    /\ UNCHANGED <<account, year, open, entered, vendor, turns>>

PostVoucher(c) ==
    LET v == job[c].voucher IN
    /\ job[c].kind = "post" /\ ~job[c].linesGone
    /\ PeriodIsOpen(voucher[v].day) /\ ValidLines(voucher[v].lines, FALSE)
    /\ voucher' = [voucher EXCEPT ![v] = Posted(voucher[v])]
    /\ Written(c, FALSE)
    /\ raced' = Noted(c, v)
    /\ UNCHANGED <<account, year, open, entered, vendor, turns>>

CancelVoucher(c) ==
    LET v == job[c].voucher IN
    /\ job[c].kind = "cancel"
    /\ voucher' = [voucher EXCEPT ![v].status = "cancelled"]
    /\ Written(c, FALSE)
    /\ raced' = Noted(c, v)
    /\ UNCHANGED <<account, year, open, entered, vendor, turns>>

\* reverse_voucher, of any voucher: a document's, an opening, a reversal.
ReverseVoucher(c) ==
    LET v == job[c].voucher IN
    /\ job[c].kind = "reverse" /\ RoomFor(1)
    /\ PeriodIsOpen(voucher[v].day) /\ ValidLines(voucher[v].lines, TRUE)
    /\ voucher' = Append([voucher EXCEPT ![v].status = "reversed"],
                         ReversalOf(v, voucher[v].day))
    /\ Written(c, FALSE)
    /\ raced' = Noted(c, v)
    /\ UNCHANGED <<account, year, open, entered, vendor, turns>>

Abandon(c) ==
    /\ job[c] # Resting
    /\ job' = [job EXCEPT ![c] = Resting]
    /\ UNCHANGED <<account, year, open, voucher, entered, vendor, turns, raced>>

(***************************************************************************)
(* Opening balances                                                          *)
(***************************************************************************)

\* create_opening_balances: once, and not while one stands; what does not
\* balance goes to opening_balance_equity.
OpeningStands ==
    \E v \in DOMAIN voucher :
        /\ voucher[v].type = "opening" /\ voucher[v].status = "posted"
        /\ voucher[v].source = NoOne

EnterOpening(a, x, d) ==
    LET lines == <<[account |-> a, amount |-> x, party |-> NoOne],
                   [account |-> Role.opening_balance_equity, amount |-> - x,
                    party |-> NoOne]>>
    IN  /\ RoomFor(1) /\ ~OpeningStands
        /\ a \notin {Role.inventory, Role.accounts_receivable, Role.accounts_payable}
        /\ PeriodIsOpen(d) /\ ValidLines(lines, TRUE)
        /\ voucher' = Append(voucher, Posted(NewVoucher("opening", d, lines, NoOne, 0)))
        /\ UNCHANGED <<account, year, open, entered, vendor, turns, job, raced>>

\* Mutant: any posted voucher of the party's opening balance.
AnyOpeningOf(p) == {v \in DOMAIN voucher : voucher[v].source = p /\ voucher[v].status = "posted"}

\* The opening balance that set_party_opening_balance replaces.
OpeningOf(p) ==
    {v \in DOMAIN voucher :
        /\ voucher[v].source = p /\ voucher[v].status = "posted"
        /\ voucher[v].type # "reversal"}

ReadPartyOpening(c, p) ==
    \E old \in IF OpeningOf(p) = {} THEN {0} ELSE OpeningOf(p) :
        Read(c, [kind |-> "opening", subject |-> p, existing |-> old,
                 stale |-> FALSE, linesGone |-> FALSE])

OpeningLines(p, x) ==
    IF vendor[p]
      THEN <<[account |-> Role.opening_balance_equity, amount |-> x, party |-> NoOne],
             [account |-> Role.accounts_payable, amount |-> - x, party |-> p]>>
      ELSE <<[account |-> Role.accounts_receivable, amount |-> x, party |-> p],
             [account |-> Role.opening_balance_equity, amount |-> - x, party |-> NoOne]>>

\* The voucher in force is reversed on the new date and the new one posted,
\* or none for an amount of zero.
SetPartyOpening(c, x, d) ==
    LET p   == job[c].subject
        old == job[c].existing
        undone == IF old = 0 THEN voucher
                  ELSE Append([voucher EXCEPT ![old].status = "reversed"],
                              ReversalOf(old, d))
    IN  /\ job[c].kind = "opening"
        /\ RoomFor((IF old = 0 THEN 0 ELSE 1) + (IF x = 0 THEN 0 ELSE 1))
        /\ old # 0 \/ x # 0 => PeriodIsOpen(d)
        /\ old # 0 => ValidLines(voucher[old].lines, TRUE)
        /\ x # 0 => ValidLines(OpeningLines(p, x), TRUE)
        /\ voucher' = IF x = 0 THEN undone
                      ELSE Append(undone, Posted(NewVoucher("opening", d, OpeningLines(p, x), p, 0)))
        /\ entered' = [entered EXCEPT ![p] = IF vendor[p] THEN - x ELSE x]
        /\ raced' = IF job[c].stale THEN raced \cup {p, old} ELSE raced
        /\ Written(c, FALSE)
        /\ UNCHANGED <<account, year, open, vendor, turns>>

ChangePartyRole(p) ==
    /\ Turn
    /\ vendor' = [vendor EXCEPT ![p] = ~ @]
    /\ UNCHANGED <<account, year, open, voucher, entered, job, raced>>

(***************************************************************************)
(* Fiscal years, periods and accounts                                        *)
(***************************************************************************)

Years == {d \in Days : year[d]}
LatestYear == CHOOSE d \in Years : \A o \in Years : o <= d

CreateNextYear ==
    /\ Turn
    /\ LatestYear + 1 \in Days
    /\ year' = [year EXCEPT ![LatestYear + 1] = TRUE]
    /\ open' = [open EXCEPT ![LatestYear + 1] = TRUE]
    /\ UNCHANGED <<account, voucher, entered, vendor, job, raced>>

\* Not the only one, and none a voucher is written in; its periods go with it.
DeleteYear(d) ==
    /\ Turn
    /\ year[d] /\ Cardinality(Years) > 1
    /\ \A v \in DOMAIN voucher : voucher[v].year # d
    /\ year' = [year EXCEPT ![d] = FALSE]
    /\ UNCHANGED <<account, open, voucher, entered, vendor, job, raced>>

SetPeriod(d, status) ==
    /\ Turn
    /\ year[d] /\ open[d] # status
    /\ open' = [open EXCEPT ![d] = status]
    /\ UNCHANGED <<account, year, voucher, entered, vendor, job, raced>>

\* update_account checks that the parent exists and is another account; it
\* looks neither at its type nor for a circle.
MoveAccount(a, parent) ==
    /\ Turn
    /\ a \in Movable /\ account[a].kept /\ parent # a
    /\ parent \in Accounts => account[parent].kept
    /\ account' = [account EXCEPT ![a].parent = parent]
    /\ UNCHANGED <<year, open, voucher, entered, vendor, job, raced>>

SetAccountActive(a, b) ==
    /\ Turn
    /\ a \in Movable /\ account[a].kept /\ account[a].active # b
    /\ ~b => ~HasEntries(a)
    /\ account' = [account EXCEPT ![a].active = b]
    /\ UNCHANGED <<year, open, voucher, entered, vendor, job, raced>>

\* A bank gets an account of its own under Bank; it is deleted with the bank
\* while nothing is booked on it and, by the foreign key, no line names it.
AddBank ==
    /\ Turn
    /\ ~account[BankAccount].kept
    /\ account' = [account EXCEPT ![BankAccount] =
                     [kept |-> TRUE, active |-> TRUE, parent |-> Role.bank]]
    /\ UNCHANGED <<year, open, voucher, entered, vendor, job, raced>>

DeleteBank ==
    /\ Turn
    /\ account[BankAccount].kept
    /\ ~HasEntries(BankAccount) /\ ~InAnyVoucher(BankAccount)
    /\ account' = [a \in Accounts |->
                    IF a = BankAccount THEN [account[a] EXCEPT !.kept = FALSE]
                    ELSE IF account[a].parent = BankAccount
                      THEN [account[a] EXCEPT !.parent = NoOne] ELSE account[a]]
    /\ UNCHANGED <<year, open, voucher, entered, vendor, job, raced>>

BooksNext ==
    \/ \E lines \in Journals, d \in Days : WriteJournal(lines, d)
    \/ \E c \in Clerks :
        \/ \E kind \in {"update", "post", "cancel", "reverse"}, v \in DOMAIN voucher :
                ReadVoucher(c, kind, v)
        \/ \E lines \in Journals, d \in Days : UpdateVoucher(c, lines, d)
        \/ PostVoucher(c) \/ CancelVoucher(c) \/ ReverseVoucher(c) \/ Abandon(c)
        \/ \E p \in Parties : ReadPartyOpening(c, p)
        \/ \E x \in Amounts, d \in Days : SetPartyOpening(c, x, d)
    \/ \E a \in Movable, x \in Amounts, d \in Days : EnterOpening(a, x, d)
    \/ \E p \in Parties : ChangePartyRole(p)
    \/ CreateNextYear \/ AddBank \/ DeleteBank
    \/ \E d \in Days : DeleteYear(d) \/ \E s \in BOOLEAN : SetPeriod(d, s)
    \/ \E a \in Accounts : \/ \E b \in BOOLEAN : SetAccountActive(a, b)
                           \/ \E q \in Folders : MoveAccount(a, q)

BooksSpec == BooksInit /\ [][BooksNext]_bookVars

(***************************************************************************)
(* Statements: ReportsService                                                *)
(***************************************************************************)

\* configured_subtree_ids: the accounts of these roles and all beneath them.
Subtree(roots) ==
    LET Below(found) == {a \in Accounts : account[a].kept /\ account[a].parent \in found}
        reach[n \in 0..Cardinality(Accounts)] ==
            IF n = 0 THEN roots
            ELSE LET found == reach[n - 1] IN found \cup Below(found)
    IN  reach[Cardinality(Accounts)]

CashAccounts == Subtree({Role.cash, Role.bank})

Within(s, t) == {e \in Entries : EntryAt(e).day \in s..t}
Before(s)    == {e \in Entries : EntryAt(e).day < s}
On(S, A)     == {e \in S : EntryAt(e).account \in A}

Net(S) == TotalOver(S, AmountOf)
OfType(types) == {a \in Accounts : AccountType[a] \in types}

TrialBalance(t) ==
    LET booked == Within(1, t)
        net(a) == Net(On(booked, {a}))
    IN  [debit  |-> TotalOver({a \in Accounts : net(a) > 0}, net),
         credit |-> - TotalOver({a \in Accounts : net(a) < 0}, net)]

NetProfit(s, t) ==
    LET costOfSales == Subtree({Role.cogs})
        income      == - Net(On(Within(s, t), OfType({"income"})))
        expenses    == OfType({"expense"})
        cost        == Net(On(Within(s, t), expenses \cap costOfSales))
        operating   == Net(On(Within(s, t), expenses \ costOfSales))
    IN  income - cost - operating

BalanceSheet(t) ==
    LET earnings == - Net(On(Within(1, t), OfType({"income", "expense"})))
    IN  [assets      |-> Net(On(Within(1, t), OfType({"asset"}))),
         liabilities |-> - Net(On(Within(1, t), OfType({"liability"}))),
         equity      |-> earnings - Net(On(Within(1, t), OfType({"equity"}))),
         earnings    |-> earnings]

\* _opening_balance and _statement_rows: the balance carried forward and what
\* it closes with.
Statement(S, sign, s, t) ==
    LET opening == sign * Net({e \in S : EntryAt(e).day < s})
    IN  [opening |-> opening,
         closing |-> opening + sign * Net({e \in S : EntryAt(e).day \in s..t})]

SignOf(a) == IF AccountType[a] \in {"liability", "equity", "income"} THEN -1 ELSE 1
AccountStatement(a, s, t) == Statement(On(Entries, {a}), SignOf(a), s, t)
PartyStatement(p, s, t) ==
    Statement({e \in Entries : EntryAt(e).party = p}, IF vendor[p] THEN -1 ELSE 1, s, t)

GeneralLedger(s, t) ==
    [debit  |-> TotalOver({e \in Within(s, t) : AmountOf(e) > 0}, AmountOf),
     credit |-> - TotalOver({e \in Within(s, t) : AmountOf(e) < 0}, AmountOf)]

\* The accounts in the cash book, and what it says they received, paid and
\* closed with altogether.
CashBookAccounts(s, t) ==
    {a \in CashAccounts : a \notin Header \/ On(Within(s, t), {a}) # {}}
CashBook(s, t) ==
    LET shown  == CashBookAccounts(s, t)
        booked == On(Within(s, t), shown)
    IN  [received |-> TotalOver({e \in booked : AmountOf(e) > 0}, AmountOf),
         paid     |-> - TotalOver({e \in booked : AmountOf(e) < 0}, AmountOf),
         closing  |-> Net(On(Before(s), shown)) + Net(booked)]

\* Mutant: the entries of the vouchers rather than what faces the cash.
CashMoved(S) == Net(S)

\* cash_flow: of each voucher that moved cash, the lines that are not cash.
MovedCash(s, t) == {e[1] : e \in On(Within(s, t), CashAccounts)}
FacingCash(S) == Net(S \ On(S, CashAccounts))
CashFlow(s, t) ==
    LET moved     == MovedCash(s, t)
        facing(b) == {e \in Entries : e[1] \in moved /\ AccountBucket[EntryAt(e).account] = b}
        part(b)   == - FacingCash(facing(b))
        net       == part("operating") + part("investing") + part("financing")
        opening   == Net(On(Before(s), CashAccounts))
    IN  [opening |-> opening, net |-> net, closing |-> opening + net]

\* _expenses_by_category, and the cash of the dashboard: on hand, and what came
\* in and went out in a period.
ExpensesByCategory(s, t) ==
    LET booked == Within(s, t)
        spent(a) == Net(On(booked, {a}))
    IN  TotalOver({a \in OfType({"expense"}) : spent(a) # 0}, spent)
CashOnHand == Net(On(Entries, CashAccounts))
CashInOut(s, t) ==
    LET moved == On(Within(s, t), CashAccounts)
    IN  [inflow  |-> TotalOver({e \in moved : AmountOf(e) > 0}, AmountOf),
         outflow |-> - TotalOver({e \in moved : AmountOf(e) < 0}, AmountOf)]

(***************************************************************************)
(* Properties                                                                *)
(***************************************************************************)

\* The statements tell one story, whatever is being written beside them and
\* however accounts are filed: trial balance, balance sheet and general ledger
\* tie, the profit of all time is the earnings in the balance sheet, the cash
\* flow closes with what the cash book closes with, and the dashboard has the same
\* cash; the expenses by category are those of the profit and loss; a statement
\* opens with what the one before it closed with (ReportsService, DashboardService).
\* Without vouchers all of them are empty.
StatementsTie ==
    voucher # <<>> /\ (\A c \in Clerks : job[c] = Resting) =>
    \A s, t \in Days : s <= t =>
        /\ TrialBalance(t).debit = TrialBalance(t).credit
        /\ BalanceSheet(t).assets = BalanceSheet(t).liabilities + BalanceSheet(t).equity
        /\ NetProfit(1, t) = BalanceSheet(t).earnings
        /\ GeneralLedger(s, t).debit = GeneralLedger(s, t).credit
        /\ CashFlow(s, t).closing = CashBook(s, t).closing
        /\ CashInOut(s, t) = [inflow |-> CashBook(s, t).received, outflow |-> CashBook(s, t).paid]
        /\ CashFlow(s, t).net = CashInOut(s, t).inflow - CashInOut(s, t).outflow
        /\ (\A d \in Days : d <= t) => CashBook(s, t).closing = CashOnHand
        /\ NetProfit(s, t) + ExpensesByCategory(s, t) = - Net(On(Within(s, t), OfType({"income"})))
        /\ \A a \in {EntryAt(e).account : e \in Entries} :
            AccountStatement(a, t + 1, t + 1).opening = AccountStatement(a, s, t).closing
        /\ \A p \in Parties :
            PartyStatement(p, t + 1, t + 1).opening = PartyStatement(p, s, t).closing

\* Unless two requests overlapped on it, a voucher that is posted has its own
\* lines in the ledger, once; one that is a draft or cancelled has none; one
\* that is reversed has exactly one reversal, and that is its mirror
\* (post_draft, reverse_voucher, update and cancel of journals).
BooksFollowVouchers ==
    \A v \in DOMAIN voucher \ raced :
        LET w == voucher[v]
            reversals == {r \in DOMAIN voucher : voucher[r].from = v}
        IN  /\ w.entries = IF w.status \in {"posted", "reversed"}
                             THEN EntriesOf(w.lines, w.day) ELSE <<>>
            /\ Cardinality(reversals) = IF w.status = "reversed" THEN 1 ELSE 0
            /\ \A r \in reversals :
                voucher[r].entries = EntriesOf(Mirror(w.lines), voucher[r].day)

\* What a party's opening balance put on its account is what was last entered,
\* however often it was corrected and whichever way the party was turned
\* meanwhile, unless the entries were reversed as vouchers or two requests
\* overlapped (set_party_opening_balance).
PartyOwesOpening ==
    \A p \in Parties \ raced :
        Net({e \in Entries : voucher[e[1]].source = p /\ EntryAt(e).party = p}) = entered[p]
=============================================================================
