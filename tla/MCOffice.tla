------------------------------ MODULE MCOffice ------------------------------
(* Small instances of the modules that share no state: one run checks the     *)
(* accounts, the claims, the sessions, the filings and the master records,    *)
(* each on its own. "part" tells which; the variables of the others rest.     *)
(* The requests of every part are the interchangeable c1 and c2.              *)
EXTENDS Postings, Books, Claims, Sessions, Filing, Records, Members, Figures

CONSTANTS
    c1, c2,
    cash, bank, hbl, ar, ap, equity, sales, rent, ali,    \* Books
    e1, y1, y2, ann, s1, s2,                              \* Claims
    t1, t2, t3, u1, a1,                                   \* Sessions
    i1, i2, i3, l1, l2, kg, pc,                           \* Filing
    cup, set, hall, clerk, brand, kilo, gst,              \* Records
    boss, mia, noa, q1,                                   \* Members
    bob, b1, b2, n1, k1, m1                               \* Figures

VARIABLE part

-----------------------------------------------------------------------------
PaperLine(q, p, isPercent, d, r, perUnit, tracked) ==
    [quantity |-> q, price |-> p, percent |-> isPercent, off |-> d, rate |-> r,
     perUnit |-> perUnit, tracked |-> tracked]

PaperLinesMC ==
    { <<PaperLine(1000, 100, TRUE, 0, 17, FALSE, TRUE)>>,
      <<PaperLine(1, 1, TRUE, 0, 17, FALSE, TRUE)>>,
      <<PaperLine(2500, 1, TRUE, 10, 18, TRUE, TRUE),
        PaperLine(1500, 33, FALSE, 90, 5, FALSE, FALSE)>>,
      <<PaperLine(333, 5, FALSE, 0, 17, FALSE, FALSE)>> }

ChainsMC == { <<"invoice", "credit_note">>, <<"credit_note">>,
              <<"delivery_challan", "invoice", "credit_note">>,
              <<"sales_receipt">>, <<"goods_receipt", "bill">>, <<"bill">> }

PapersMC ==
    [chain : ChainsMC, lines : PaperLinesMC, extra : {0, 10, -15, -150}]
    \cup { [chain |-> <<"expense">>, amounts |-> a, tax |-> Cent * t, inclusive |-> i] :
             a \in {<<Cent, Cent, Cent, Cent, Cent>>, <<3 * Cent, 5 * Cent>>},
             t \in 0..3, i \in BOOLEAN }
    \cup { [chain |-> <<"stock_adjustment">>, value |-> v] : v \in {-5000, -3, 0, 4, 7000} }
    \cup { [chain |-> <<"stock_opening">>, value |-> v] : v \in {-5000, 7000} }
    \cup { [chain |-> <<"commission">>, value |-> 5] }

-----------------------------------------------------------------------------
AccountTypeMC ==
    cash :> "asset" @@ bank :> "asset" @@ hbl :> "asset" @@ ar :> "asset"
    @@ ap :> "liability" @@ equity :> "equity" @@ sales :> "income" @@ rent :> "expense"

AccountBucketMC == [a \in Accounts |-> IF a = equity THEN "financing" ELSE "operating"]

RoleMC ==
    [cash |-> cash, bank |-> bank, accounts_receivable |-> ar, accounts_payable |-> ap,
     opening_balance_equity |-> equity, cogs |-> rent, inventory |-> ar]

LineOf(a, x) == [account |-> a, amount |-> x, party |-> NoOne]
JournalsMC   == { <<LineOf(hbl, 3), LineOf(rent, 1), LineOf(sales, -4)>> }

SaleOfMC == s1 :> [who |-> ann, net |-> 100, sign |-> 1]
            @@ s2 :> [who |-> ann, net |-> 50, sign |-> -1]

KindOfMC == cup :> "item" @@ set :> "item" @@ ali :> "party" @@ hall :> "location"
            @@ ann :> "salesperson" @@ clerk :> "role" @@ brand :> "brand" @@ kilo :> "unit"
            @@ gst :> "rate"

-----------------------------------------------------------------------------
WishesMC == { {<<"users", "update">>, <<"roles", "update">>},
              {<<"roles", "update">>, <<"orgs", "delete">>} }

WorthMC(l, e, t, c) == [lines |-> l, extra |-> e, tax |-> t, commission |-> c]

PartyOfMC     == b1 :> ali @@ b2 :> bob
TermsOfMC     == b1 :> WorthMC(3, 1, 1, 2) @@ b2 :> WorthMC(2, 0, 0, 0) @@ k1 :> WorthMC(2, 0, 1, 1)
ReturnTermsMC == {WorthMC(1, 0, 1, 1), WorthMC(3, 1, 1, 2)}

-----------------------------------------------------------------------------
restOfPostings == <<bookVars, claimVars, sessionVars, filingVars,
                     recordVars, memberVars, figureVars>>
restOfBooks    == <<postingVars, claimVars, sessionVars, filingVars,
                     recordVars, memberVars, figureVars>>
restOfClaims   == <<postingVars, bookVars, sessionVars, filingVars,
                     recordVars, memberVars, figureVars>>
restOfSessions == <<postingVars, bookVars, claimVars, filingVars,
                     recordVars, memberVars, figureVars>>
restOfFiling   == <<postingVars, bookVars, claimVars, sessionVars,
                     recordVars, memberVars, figureVars>>
restOfRecords  == <<postingVars, bookVars, claimVars, sessionVars,
                     filingVars, memberVars, figureVars>>
restOfMembers  == <<postingVars, bookVars, claimVars, sessionVars,
                     filingVars, recordVars, figureVars>>
restOfFigures  == <<postingVars, bookVars, claimVars, sessionVars,
                     filingVars, recordVars, memberVars>>

\* Bounds: expenses and payouts do not meet, nor do the sessions of two holders.
OneKind   == \E kind \in {Expenses, Payouts} : \A k \in kind : claim'[k] = Unmade
OneHolder == \E u \in Holders : \A t \in Tokens : owner'[t] \in {u, None}

\* Bound: requests about vouchers run side by side, and once only with a collision,
\* while the calendar, the chart and the parties are as they were set up; these
\* change beside one request.
OneCollision ==
    /\ \A c, o \in Clerks : job[c] = Resting /\ job'[c] # Resting =>
            /\ job'[c].subject \notin raced
            /\ job[o] # Resting => raced = {} /\ turns = 0 /\ job[o].subject = job'[c].subject
    /\ turns' # turns =>
            /\ raced = {}
            /\ \A c, o \in Clerks : job[c] # Resting /\ job[o] # Resting => c = o

\* Bound: once claims were crossed, or a person lost a sale, no request begins.
OneCrossing == \A d \in Desks : desk[d] = Vacant /\ desk'[d] # Vacant => crossed = {}

\* Bound: all documents to file but one are untouched drafts.
OneFiled ==
    \E only \in Invoices : \A d \in Invoices \ {only} :
        /\ invoice'[d].status = "draft" /\ attempts'[d] = <<>> /\ held'[d] = 0
        /\ \A f \in Filers : filer'[f] # Away => filer'[f].doc # d

\* Bound: so many of the documents, payments, payouts and openings that are
\* reported on are there at a time, or were.
MaxReported == 3
FewReported ==
    Cardinality({x \in DOMAIN doc : doc'[x] # Unsent})
    + Cardinality({m \in Remits : remit'[m] # Unsent})
    + Cardinality({y \in Shares : share'[y] # Unsent})
    + Cardinality({p \in Folk : opening'[p] # Absent}) <= MaxReported

Postings_ == part = "postings" /\ PostingNext /\ UNCHANGED <<part, restOfPostings>>
Books_    == part = "books" /\ BooksNext /\ OneCollision /\ UNCHANGED <<part, restOfBooks>>
Claims_   == /\ part = "claims" /\ ClaimsNext /\ OneKind /\ OneCrossing
             /\ UNCHANGED <<part, restOfClaims>>
Sessions_ == part = "sessions" /\ SessionsNext /\ OneHolder /\ UNCHANGED <<part, restOfSessions>>
Filing_   == part = "filing" /\ FilingNext /\ OneFiled /\ UNCHANGED <<part, restOfFiling>>
Lists_    == part = "lists" /\ ListsNext /\ UNCHANGED <<part, restOfFiling>>
Records_  == part = "records" /\ RecordsNext /\ UNCHANGED <<part, restOfRecords>>
Members_  == part = "members" /\ MembersNext /\ UNCHANGED <<part, restOfMembers>>
Figures_  == part = "figures" /\ FiguresNext /\ FewReported /\ UNCHANGED <<part, restOfFigures>>

Parts ==
    {"postings", "books", "claims", "sessions", "filing", "lists", "records", "members", "figures"}

\* A bound: books that start without a bank start with one year.
\* The variables of the other parts are left at one of their initial values.
OfficeInit ==
    /\ part \in Parts
    /\ PostingInit
    /\ part # "postings" => /\ paper = [chain |-> <<"commission">>, value |-> 5]
                            /\ price = 0 /\ filing = "off"
    /\ BooksInit
    /\ account[BankAccount].kept <=> \A d \in Days : year[d]
    /\ part # "books" => account[BankAccount].kept
    /\ ClaimsInit
    /\ \A p \in People : rate[p] = 4
    /\ SessionsInit
    /\ FilingInit
    /\ answer[l1] \in {{}, Codes} /\ answer[l2] \in {{kg}, Codes}
    /\ part # "lists" => \A l \in Lists : answer[l] = Codes
    /\ RecordsInit
    /\ part # "records" => alive = {brand}
    /\ MembersInit
    /\ FiguresInit
    /\ part # "figures" => side = "sales"

OfficeNext ==
    \/ Postings_ \/ Books_ \/ Claims_ \/ Sessions_ \/ Filing_ \/ Lists_
    \/ Records_ \/ Members_ \/ Figures_

OfficeSpec ==
    OfficeInit /\ [][OfficeNext]_<<part, postingVars, restOfPostings>>

Symmetry == Permutations({c1, c2})
=============================================================================
