# TLA+ models of Vinesflow

Vinesflow is a multi-tenant sales, purchase and bookkeeping application: a FastAPI
backend (`src/backend/app`) over Postgres, with a web client. This directory holds
TLA+ modules translated from the backend, TLC configurations that check them on
small instances, and TLAPS proofs about them.

## How the program runs

Every API request is one SQLAlchemy session and, but for a few exceptions, one
Postgres transaction at READ COMMITTED (`db/session.py`; `autoflush=False`). There is
no retry and no queue. Concurrency therefore means requests whose transactions
overlap, and four facts decide what can go wrong:

1. A plain `SELECT` sees what is committed and locks nothing. `SELECT ... FOR UPDATE`
   waits for the row lock and keeps it to the end of the transaction.
2. An `UPDATE` waits for the row lock and then stores values the request computed
   earlier, from whatever it had read.
3. An object already in the session is not refreshed by a later locked read.
4. Numbers are `max + 1` under a unique constraint (`documents/numbering.py`), so the
   second of two requests that take a number of one kind waits for the first to end.

## Inventory

| Part | State | Operations | What is hard | What makes it correct | Modelled in |
|---|---|---|---|---|---|
| documents, lifecycle (`documents/service.py`) | document rows: type, status, source, lines, stock_posted, filed number | create, convert, finalize, void, update, delete | locked and unlocked handlers overlap; decisions on the source's and the dependents' rows | an order is fulfilled once; nothing stands on a void document; goods move once; ledgers match finalized documents | `DocumentFlow` |
| settlement and payments (`payments/service.py`, `_apply_credit`, `_reverse_credit`) | payments, allocations, amount_paid, amount_credited, payment_status | create, update, submit, cancel, delete; finalize and void of credit notes | read-modify-write on unlocked reads; stale session objects; a deadlock | amounts on documents are those of standing payments and notes, within the total | `Settlement` |
| line pricing and tax (`documents/service.py`, `expenses/totals.py`) | none | line totals, discounts, sales tax, FBR tax, split of an expense | rounding at three precisions, order of discounts | the parts of a voucher add up to the total | `Postings` |
| document poster (`accounting/poster.py`) | none | journal lines of each kind of source | which paper of a chain carries the cost of goods | parties owe the totals; goods are costed once | `Postings` |
| stock (`inventory/service.py`) | level rows, movements | movements of documents, adjust, transfer, opening stock | preflight reads against locked writes; lock order of transfers; first insert of a level | level = sum of movements, never below zero | `StockLedger` |
| serials, bins (`tracking_service.py`, `bin_service.py`) | serial states, bins | movements, returns, transfers, deactivation | a serial's state against its movements | units never outnumber the stock | `StockLedger` |
| vouchers (`accounting/service.py`, `vouchers.py`) | vouchers, ledger entries | write, edit, post, cancel, reverse, opening balances | a voucher read without a lock and written later; periods closing | a posted voucher is in the ledger once, a reversed one has one mirror | `Books` |
| years, periods, chart (`fiscal.py`, `accounts.py`, `setup.py`, `banks/service.py`) | years, periods, the account tree | create, delete, lock, file under another account | accounts move under statements | the statements tie | `Books` |
| statements (`accounting/reports.py`, `reports/definitions/financial.py`) | none of their own | trial balance, profit and loss, balance sheet, cash flow, cash book, ledgers | read from entries in different ways | they tell one story | `Books` |
| expenses, commissions | claims, payouts, rates | create, update, submit, cancel, delete | expenses without any lock; balance and posting unlocked | one standing voucher per submitted claim; paid at most what was earned | `Claims` |
| refresh tokens (`auth/service.py`, super admin alike) | token families | login, rotate, revoke, logout, prune | reuse, rotation against revocation | at most one live token of a family; a revoked family stays dead | `Sessions` |
| FBR filing (`fbr/service.py`, `client.py`) | filing attempts, the filed number | validate, post, record | lost answers, a failed commit after acceptance, crashes | a filing leaves a trace; a number has an attempt | `Filing` |
| FBR reference lists (`fbr/sync.py`) | cached rows | fetch, sync in batches | a batch is committed, the job cut off | what is cached contains a whole answer | `Filing` |
| master data (parties, products, locations, brands, ...) | single rows and the rows that name them | delete, drop a variant | history is looked for without a lock; foreign keys clear, cascade or refuse | history keeps its record | `Records` |
| organisations, roles (`orgs`, `rbac`, `api/deps.py`, `cli.py`) | memberships, roles | add, move, remove members; create, edit, delete roles | the caller's permissions are loaded once and used later | nobody passes on what was not vouched for | `Members` |
| reports and dashboard (`reports/`, `dashboard/service.py`) | none of their own | receivables, payables, ageing, sales, commissions, key figures | as of past days; two sources, documents and ledger | they agree with the ledger and each other | `Figures` |
| numbering (`documents/numbering.py`) | the numbers in use | assign, preview, explicit number | retries under contention, reuse after delete | unique, assigned or refused | side effects only (`Settlement`) |
| settings, activities, printing, media, clients | single rows, files | update, render, upload | little | | not modelled |

The parts meet in `finalize` and `void`, which in one transaction write stock (inventory),
vouchers (accounting), the settlement of another document, the order the document came
from, and the authority's number (FBR); and in `submit` and `cancel` of payments, which
write the settlement of documents and vouchers. `DocumentFlow` and `Settlement` have those
compositions at the level of rows and amounts; `Postings`, `StockLedger`, `Books` and
`Filing` have each side in detail. `PROJECT.json` lists every part with its files, and
under `hazards` what is hard to test, at its line, with the properties that cover it.

## Modules

| Module | Models | Checked by |
|---|---|---|
| `DocumentFlow` | `DocumentService`: the life of documents | `MCDocumentFlow`, `Flow*.cfg` |
| `DocumentLifecycle` | what those handlers promise, each request at once | refined by `DocumentFlow` (`ImplementsLifecycle`) |
| `Settlement` | `PaymentService`, and credit notes and voids on the invoices they settle | `MCSettlement`, `Settle*.cfg` |
| `StockLedger` | `InventoryService`, `TrackingService`, `BinService`, the stock side of finalize and void | `MCStock`, `Stock.cfg` |
| `Postings` | prices, taxes, totals and the journal lines of each kind of source | `MCOffice`, part "postings" |
| `Books` | vouchers, the ledger, years, periods, the chart, opening balances, statements | `MCOffice`, part "books" |
| `Claims` | expenses and commission payouts | `MCOffice`, part "claims" |
| `Sessions` | refresh tokens of users and super admins | `MCOffice`, part "sessions" |
| `Filing` | filing with the tax authority; its cached lists | `MCOffice`, parts "filing", "lists" |
| `Records` | deletion of master data against the rows that name it | `MCOffice`, part "records" |
| `Members` | members, roles and permissions | `MCOffice`, part "members" |
| `Figures` | what reports and dashboard make of documents, payments and entries | `MCOffice`, part "figures" |
| `DocumentFlow_proofs`, `Settlement_proofs`, `StockLedger_proofs`, `Filing_proofs`, `Books_proofs` | theorems about those modules | TLAPS |
| `Organization_proofs` | theorems about `Sessions`, `Members` and `Records` | TLAPS |
| `Bookings_proofs` | theorems about `Claims` and `Postings` | TLAPS |
| `Sums_proofs` | what sums over finite sets are, for the proofs of `Settlement`, `StockLedger`, `Claims`, `Postings` and `Books` | TLAPS |

### DocumentFlow

State: the columns of `documents` that decide something (`kind`, `status`, `source`,
`posted`, `filed`, `paid`), the quantity on the document's `lines`, what the document has
left in the stock ledger (`moved`) and the books (`booked`), the holder of each row lock
(`lock`) and the request every worker is running (`req`: its next step and what it
remembers from its reads). A handler is cut where another transaction can come between
two of its reads and writes:

| Code | Actions |
|---|---|
| `create` | `Create` |
| `convert` | `ConvertBegin` (lock and guards), `ConvertWrite` (insert, commit) |
| `finalize` | `FinalizeBegin` (lock), `FinalizeGuard` (unlocked read of the source), `FinalizeWrite` (stock, ledger, order, filing, commit) |
| `void` | `VoidBegin` (lock, guards), `VoidRead` (unlocked read of the order), `VoidWrite` (reversals, commit) |
| `update` | `UpdateRead` (draft check), `UpdateWrite` (lines, commit) |
| `delete` | `DeleteBegin` (draft check), `DeleteRead` (read of the order), `DeleteWrite` (commit, `ON DELETE SET NULL`) |
| a guard fails, a write finds no row | `Refuse` |
| any other failure or crash before commit | `Abort` |
| payments | `PaymentSettles`, `PaymentReleases` (in full in `Settlement`) |

`Spec` has every interleaving. `CalmSpec` leaves out the schedules on which an edit or a
delete of a draft overlaps another request on that draft: `update` and `delete` read the
draft without a lock, and on those schedules several promises fail. Two runs expect that
failure (`flow_edit_race`, `flow_delete_race`); the properties that depend on it are
checked under `CalmSpec`, and all others under `Spec`.

`DocumentLifecycle` has whole requests only, no locks and no reads. `flow_calm` checks
that every step of the interleaved handlers is one of its steps or a stutter.

### Settlement

State: of each finalized invoice `status`, `amountPaid`, `amountCredited`, `payStatus`; of
each payment its status, allocations and what its posted vouchers settle (`booked`); of
each credit note its status, source, total and `settled`, what its finalization credited;
`overwritten`, the notes an edit wrote after they were finalized; row locks; `reversing`,
the request that holds the next reversal number. A request remembers the invoices as it
`seen` them.

| Code | Actions |
|---|---|
| `create`, `update`, `delete` of payments | `Create`; `EditRead`, `EditWrite`; `DeleteRead`, `DeleteWrite` |
| `submit` | `SubmitLock` (payment), `SubmitSettle` (lock documents, check, settle, post, commit) |
| `cancel` | `CancelDraft`; `CancelLock`, `CancelRead` (post the reversal, read documents), `CancelWrite` |
| `convert` to a credit note | `DraftNote` |
| `update`, `delete` of a credit note | `NoteEditRead` (draft check, unlocked), `NoteEditWrite`; `NoteDeleteRead` (the same), `NoteDeleteWrite` |
| `finalize` of a credit note | `CreditRead` (guard on the source), `CreditWrite` (lock, check, credit, commit) |
| `void` of a credit note | `UncreditRead`, `UncreditWrite` (the flush takes the invoice's row), `UncreditCommit` |
| `void` of an invoice | `VoidLock`, `VoidCommit` |

`CalmSpec` admits the schedules on which what a request has read is still so when it
writes (`FreshReads`). The books and the documents agree on those; the runs that expect a
violation show, one cause at a time, what breaks without it. An edit or a delete of a credit
note that found a draft may write after the note was finalized, on either: the note then
comes to another amount than it credited, or is gone while its credit stays, and a void of
the note still takes back what it credited. `CreditedIsNotes` is therefore about `settled`.

### StockLedger

State: `level` and the `rows` that exist, the sums of the movements (`moved`, `opening`), `unit` (the serial
units), `bin`, tracking mode and price of each item, documents with what they `posted`,
and the locks: exclusive on level rows, exclusive and shared on the item (a flushed row
that names it takes the shared one by its foreign key). A request works through a list of
movements, one at a time: lock or insert the level row, compute, flush, go on; all of it
is seen by others at the commit.

| Code | Actions |
|---|---|
| `adjust_stock` in its two modes, `revalue`, `transfer_stock`, `set_opening_stock` | `Receive`, `Remove`, `Revalue`, `Transfer`, `SetOpening` start a request with its movements |
| `_validate_tracking`, `_preflight_outbound_stock`, `_post_stock` | `Finalize`, `Void` |
| `_lock_level`, its first insert, the flush of a movement | `LockLevel`, `MissLevel`, `InsertLevel`, `Flush`, `Refuse` |
| end of the transaction, failure | `Commit`, `Abort`, `BreakDeadlock` |
| bins | `DeactivateBin`, `ActivateBin`, `DeleteBin` |
| the item's master data | `ChangePrice`, `ChangeTracking` |

### Postings

A behaviour takes one chain of papers (an order of documents converted from each other,
a credit note that stands alone, an expense, an adjustment, an opening, a payout), each
booked as `LedgerPoster` does (`BookPaper`), while the purchase price (`ChangeCost`) and
the filing of invoices (`SwitchFiling`) change, and voids them from the last
(`VoidPaper`). Money is counted in 0.00001 so that each `quantize` of the code is
integer arithmetic (`HalfEven`). `Accepted` is `PostingService.validate_lines`.

### Books

State: `voucher`, a sequence of vouchers with their lines and, once posted, their entries;
`year` and `open` periods; `account`, the tree; `job`, what each clerk has read.

| Code | Actions |
|---|---|
| journals: create, update, post, cancel | `WriteJournal`, then `ReadVoucher` and `UpdateVoucher`, `PostVoucher`, `CancelVoucher` |
| `reverse_voucher` | `ReadVoucher`, `ReverseVoucher` |
| opening balances of the chart and of a party | `EnterOpening`; `ReadPartyOpening`, `SetPartyOpening`, `ChangePartyRole` |
| years and periods, accounts, banks | `CreateNextYear`, `DeleteYear`, `SetPeriod`; `MoveAccount`, `SetAccountActive`; `AddBank`, `DeleteBank` |
| a request fails | `Abandon` |

The statements are operators on the entries, each translated from its own query:
`TrialBalance`, `NetProfit`, `BalanceSheet`, `Statement`, `GeneralLedger`, `CashBook`,
`CashFlow`, `ExpensesByCategory`, `CashOnHand`, `CashInOut`. A voucher that two requests
overlapped on is recorded in `raced`: the code promises nothing there, and the invariants
leave it out.

### Claims, Sessions, Filing, Records, Members

In each a request reads and later writes, as the handlers do, and the locks are those of
the code: a payout's row during submit and cancel, the presented token's row during a
rotation, the document's row during a filing or a void, none elsewhere.

| Module | Code | Actions |
|---|---|---|
| `Claims` | expenses and payouts; commission of a sale, rate | `CreateClaim`, `ReadClaim`, `UpdateClaim`, `SubmitClaim`, `CancelClaim`, `DeleteClaim`, `GiveUp`; `SendSale`, `VoidSale`, `ChangeRate` |
| `Sessions` | login; `rotate_refresh_token`; logout, logout all, a new password; prune; disabled admins | `Login`; `RotateBegin`, `RotateCommit`, `RejectToken`, `Replay`; `Logout`, `RevokeAll`, `RevokeCommit`; `Prune`; `SetActive`; `Expire`, `Drop` |
| `Filing` | `_file_with_fbr`, `_commit_filed`, `void` and `delete` beside them, the authority, lists and the two syncs | one action per call to the authority, its reply or its loss, the commit, the failed commit and the trace it leaves, a crash; `VoidDocument` (of a filed document only a credit note, which keeps its number); `DeleteRead`, `DeleteWrite` (takes the attempts along, also of a document filed since the read); fetching a list, a sync's batches, the lists changing |
| `Records` | the delete methods and the foreign keys | `NameRecord`, `FindUnused`, `DeleteRecord`, `ChangePercent`, `LeaveRecord`, `DropVariant`; the kinds of rows, what they name and what their foreign key does are the tables `Names` and `OnDelete` |
| `Members` | `require_permission`, `orgs` and `rbac` services, operator's commands | `Admit`; `CheckAdd` ... `CheckDelete`; `WriteAdd` ... `WriteDelete`; `Dismiss`; `SetSuperuser`, `AddByHand`, `GrantByHand`, `SetStatus` |

A revocation is one UPDATE: it revokes the rows that were live and committed when it began
and misses a token inserted after that. `Sessions` records in `ended` the families that
were revoked while nothing rotated in them; only those are promised to stay dead.

### Figures

Requests come one at a time here and each has its day. Documents keep `paid` and
`credited` as the handlers leave them, the ledger (`book`) gets what they post; the
reports are operators on those, translated from their queries: open items as of a day
(`OpenItems`), ageing (`AgingRows`, `BucketOf`), filters and grand totals, date ranges
(`RangeOf`), sales by customer and item, sales buckets, commissions, and the dashboard's
`Kpis`, `DashboardAging`, `StatusCounts`, `RevenueSeries`.

For each party and day the reports must meet the ledger (`LedgerIsReported`), but for what
differs by design: settlements dated before or beyond their invoice, and credit notes on
none. `FiguresAgree` asks it of all whose opening balance was not corrected;
`CorrectedOpeningIsReported` asks it of the others, and fails.

## Runs

| Run | Question | Instance |
|---|---|---|
| `flow_all` | With every interleaving: is an order fulfilled once, does anything stand on a void document, do goods leave once, is a paid or filed document void? Also the inductive invariant of the proofs. | a sales or a purchase order, four documents, two workers, edits that change the quantity, filing switched on and off |
| `flow_calm` | When drafts are edited alone: do ledgers and converted lines match, do orders close and reopen with their fulfilment, do goods move once per chain, do the handlers implement `DocumentLifecycle`, does every request end? | all eight kinds by hand, four documents, two workers, quantities to 2, edits to 0 or 1 |
| `flow_edit_race`, `flow_delete_race` | Violations of "Only draft documents can be edited / deleted" | one invoice |
| `settle_all` | With every interleaving, edits and deletes of notes included: do payments stay within the invoice, is the credited amount what its notes credited, does every request end, deadlocks included? | one invoice of 2, two payments and two credit notes, at most three of the four, two workers |
| `settle_calm` | With fresh reads: do documents, payments and books agree, is a paid invoice void, does the status tell the settlement? | two invoices of 2, two payments that settle either or both, one credit note |
| `settle_stale_credit`, `settle_lost_update` | The violations of settlement listed under `findings` | the smallest instance that has them |
| `figures_corrected_opening` | A violation of "can never disagree with the entries behind it" and "replaces rather than doubles" | one party whose opening balance is entered and corrected |
| `stock` | Is a level the sum of its movements and never negative, do units ever outnumber the stock, is the opening what was entered, does a void put back what was posted, does every request end although transfers lock in either order? | one item, tracked or not, a hall and a bin, one serial, a sale, a purchase and a return, two requests |
| `stock_two_prices` | A violation of "A reversal must undo the value it originally posted" | the same, with a purchase of the item at two prices |
| `office` | For each of the parts that share no state, the properties below | `part` chooses one of nine; the others rest at one initial value |

What `office` asks of each part:

| Part | Distinct states | Properties |
|---|---|---|
| postings | 3,508 | `PostingsFollowDocuments`: the books hold what the standing papers say, goods are costed once and come back at that cost, a receipt is cleared by its bill, and exactly the papers that double entry cannot express are refused |
| books | 110,663 | `BooksFollowVouchers`, `PartyOwesOpening`, `StatementsTie` |
| claims | 109,388 | `ClaimsMatchBooks`, `CommissionWithinEarned` |
| sessions | 158,218 | `OneLiveToken`, `DeadFamilyStaysDead` |
| filing | 3,572 | `FiledIsTraced` |
| lists | 69,051 | `CachedListIsWhole` |
| records | 934 | `HistoryKeepsItsRecord` |
| members | 145,000 | `PermissionsAreVouched` |
| figures | 9,563 | `FiguresAgree` |

### Bounds

Documents and settlement. Two workers: every property that fails does so with two
overlapping requests, and the locks are pairwise. Four documents hold the longest chain
(order, challan, invoice, credit note), or an order with two documents made from it and
one from those. A quantity of 1 that an edit changes to 2 tells lines apart (`flow_all`);
in `flow_calm` a quantity of 2 lets an edit make a credit note smaller than its invoice,
and 0 is the draft without lines that cannot be finalized. An invoice is the row the locks
of payments meet on, so one is enough for races on it; two are needed for a payment that
spreads. An invoice of 2 is settled in part, in full, and by two payments. `settle_all` has
two payments that race a note, and two notes that follow each other beside a payment, but
not four rows at once (`FewRows`): a bound on drafting, which holds up no request. A row is used
once (`absent`, ..., `deleted`), which bounds the runs; when the rows are used up the
system stops, hence `CHECK_DEADLOCK FALSE` there and everywhere.

Stock. Two places make the two lock orders of transfers, one of them a bin. One serial
unit is the object the races are about; adjustments receive up to `MaxReceived` = 1 on
hand, which with the purchase and the return makes levels of 0 to 3. Two costs tell the
price of the day from the price posted. Prices rise, and only while a document other than
the purchase is sent; the tracking mode changes while no level row exists and nothing is in flight
(`CalmSpec`).

Office. Two clerks each, interchangeable (`Symmetry`), because every race of these parts
is one of two requests. Books: at most three vouchers, one of them a journal, so a journal
with its reversal and one opening, or an opening corrected twice; one change of calendar,
chart or party; requests overlap on one subject, collide once, and while the calendar
rests (`OneCollision`); the books start
with both years exactly when they have the bank. Claims: expenses and payouts do not meet
(they share no state but the salesperson), rates start at 4 and fall, unused payouts are
taken in order, requests collide once (`OneCrossing`). Both bounds are the run's: the
specifications and the theorems about them let requests on any subjects overlap as often
as they may. Sessions: three tokens give a family of three, or
two families; one holder per behaviour. Filing: an invoice and two credit notes, one of
them without a reason, of which one is taken up in a behaviour (`OneFiled`: documents share
nothing here); three accepted filings and three attempts are two retries after lost
replies; a batch of three rows is cut inside a list and inside the second. Records: three rows, of whatever kinds, name one record at a time, and a rate
changes once. Members: three requests, two of them at a time, one command by hand,
the owner, two others and one custom role. Figures: two debts of two parties, a note, a
till receipt, a payment, a payout, at most three of them reported on; two days on which
something is dated (40 and 75), three asked about (the last 65 days later), so that every
ageing bucket, the current month and the one before occur; sales and purchases both.
Postings: four sets of lines chosen for their rounding (a cent at 17 %, a third, half a
unit), four extra amounts that leave a total positive, zero or negative, expenses that
split evenly and not.

### Fairness

A request that waits for a row lock is queued by Postgres in order of arrival, and nothing
but the wait delays it, so a step that is enabled again and again is taken: `SF` on the
steps of each request, none on clients starting requests or on failures. Postgres runs its
deadlock detector on every wait: `WF` on `BreakDeadlock`. That is all `DocumentFlow`,
`Settlement` and `StockLedger` assume for `EveryRequestEnds`. The parts of `office` have
safety properties only: their requests wait for at most one lock whose holder is about to
commit.

## Findings

`PROJECT.json` lists six disagreements between the code and what it or its
documentation says, with the run that exhibits each. In short: `update` and `delete` of
documents check for a draft without a lock; a credit note is checked against the balance
the session read before it locked the invoice; cancelling a payment overwrites a
settlement committed meanwhile; a corrected opening balance of a party is counted twice by
receivables, payables and its own read-back, which needs no race; and a purchase with two
lines of one product at two prices is reversed at one of them, which needs none either.

One more disagreement is in `Settlement` and has no run of its own: payments are checked
against the total less what was paid (`AllocationAllowed`; `payments/service.py:119`), not
against the balance due, which `docs/payments-and-accounting-plan.md:63` names and which
also leaves out what was credited. A credited invoice can so be paid in full.

Other behaviour that a reader of the models will meet, and that no statement in the
repository contradicts. The invariants are stated so that they hold beside it; the
exceptions are named in their comments.

- `update` and `delete` of payments look for a draft without a lock, as those of documents
  do; a submitted payment is deleted only on such a schedule (`SubmittedStay`).
- Vouchers and journals are read without a lock. Two requests on one may both write: a
  journal is posted and cancelled, or reversed twice (`raced` in `Books`). Likewise two
  submits of one expense book it twice, and two payouts submitted at once may pay more
  than was earned (`crossed` in `Claims`).
- A reversal by hand of a document's voucher counts as a posting of that source
  (`poster.py:40`), so a later posting of it is dropped.

- The bill of a service takes what its goods receipt credited to goods-received-not-invoiced
  into account although nothing was credited (`poster.py:271`); a discounted bill
  makes the inventory account and the value of stock differ; a credit note restocks at the
  current price. `ReceiptsAreCleared` and `GoodsComeBack` name the plain case.
- A document whose total is zero or negative, and an inclusive expense of five one-cent
  lines with two cents of tax, can never be booked; a sales receipt can never be voided.
- The dashboard's revenue is invoices less credit notes, so sales receipts, which the ledger
  has as revenue, are not in it (`dashboard/service.py:36-50`), its receivables leave out openings, its ageing takes an
  invoice without a due date for current where the report ages it from its issue date, and
  this month's revenue includes later days of the month.
- Standalone credit notes settle nothing. A payment may exceed what credit notes left and
  may be dated before its invoice. `last_fiscal_year` falls back to the calendar year if
  the year before was not set up.
- A refresh in flight escapes a logout, a replay or a new password: the token it inserts is
  missed (`met` in `Sessions`). Pruning makes a replay of a pruned token undetected.
- A reply of the authority that is lost leads to a second filing of the same invoice. A
  document that is deleted takes its attempts along: a draft, or by the race of
  `flow_delete_race` one that was filed meanwhile. A filed credit note may be voided and
  keeps its number.
- A credit note edited or deleted by a request that had found it a draft, after its
  finalization: it comes to another amount than it credited, or its credit outlives it
  (`overwritten` and `settled` in `Settlement`).
- Deleting a record and writing a row that names it may overlap: the row loses its name or,
  in a location, is deleted (`overtaken` in `Records`). A dropped variant, and a unit, are
  deleted without a look at history, and a place with a look at movements only: a document
  at a place where nothing moved, a sent order for one, loses it (`placed` in `Records`).
- Removing a member asks only that it is not the owner; the operator's commands check
  nothing. A member removed and added again while a request of theirs is in flight may
  change their own role.
- Serial units: two returns of one sold unit to two places both find it sold.

## Proofs

TLAPS checks everything in the modules named `..._proofs`. Each theorem holds for all
values of the constants that satisfy the named assumptions of the module it is about, any
number of documents, rows and concurrent requests among them; the runs show the same
properties on one small instance each. In each module an inductive invariant comes first,
which TLC has checked on the instance of the run before it was proved.

### DocumentFlow_proofs

| Theorem | States |
|---|---|
| `TypeCorrect` | `Spec => []TypeOK` |
| `Inductive` | `Spec => []IInv` |
| `ConvertedOnce` | `Spec => []OneActiveDependent` |
| `SourceStands` | `Spec => []SourceStandsBehindDependent` |
| `MovedOnce` | `Spec => []NeverMovedTwice` |
| `PaidIsKept` | `Spec => []PaidIsNotVoid` |
| `FiledIsKept` | `Spec => []FiledInvoiceIsNotVoid` |
| `CalmInductive` | `CalmSpec => []CalmIInv` |
| `LedgersMatch` | `CalmSpec => []LedgersMatchDocument` |
| `OrdersCloseWhenFulfilled` | `CalmSpec => []ClosedWhileFulfilled` |
| `ConvertedLinesMatchSource` | `CalmSpec => []ConvertedLinesStillMatch` |
| `GoodsMoveOnce` | `CalmSpec => []GoodsMovedOnce` |
| `Implements` | `CalmSpec => ImplementsLifecycle`: every step is a step of `DocumentLifecycle` or none |
| `LinesAreFixed`, `DraftsAreDeleted` | `CalmSpec` implies the action properties `FinalizedLinesAreFixed` and `OnlyDraftsAreDeleted`, which the runs on races violate under `Spec` |

The first seven are about `Spec`, with unlocked edits and deletes among the requests. Their
properties are not inductive as they stand: that `void` leaves nothing standing on a void
document depends on its dependents' guard, read when it began, being true when it commits.
`IInv` adds what makes it so:

- `LocksAreOwned`: a row lock belongs to one request, which is on that row;
- `GuardsStillHold`: what a request established under its lock (no active dependents, a
  draft, no money) holds until it commits. Whoever could falsify it either needs the same
  lock (`convert`, `void`, a payment) or writes only rows that are unlocked (`delete`,
  the write of an order that closes or reopens);
- `FreshRowsAreFree`: an inserted row is nobody else's;
- `SourcesAreKinds`: rows come from rows that exist, along the conversions, and orders
  from none, so an order that reopens, even a void one that a late `delete` revives,
  disturbs no chain above it.

The actions fall into a few lemmas: a request that locks and begins
(`LockingKeepsIInv`), one that only reads (`ReadingKeepsIInv`), one that goes on
(`GoingOnKeepsIInv`), `void` and `delete` together (`RemovingKeepsIInv`), and a lemma for
each other write.

The others are about `CalmSpec`. `CalmIInv` joins the four invariants to `IInv` with two
more: `SourcesWereFinalized` (what was made from a document was made when that was
finalized, whose lines are fixed from then on) and `ReadsStillHold` (what a request in
flight read without a lock is so when it writes: that it is on a draft, whether an order
follows the document, whether the source has moved the goods, that the lines are those of
the source). The refinement needs it too: only because the
reads still hold is the step that commits a handler the whole handler of
`DocumentLifecycle`.

### Settlement_proofs

| Theorem | States |
|---|---|
| `SettleInductive` | `Spec => []SettleIInv` |
| `PaidStaysWithinTotal` | `Spec => []PaidWithinTotal` |
| `CreditsAreNotes` | `Spec => []CreditedIsNotes` |
| `CalmInductive` | `CalmSpec => []CalmIInv` |
| `PaidIsWhatIsBooked` | `CalmSpec => []PaidIsBooked` |
| `BooksHoldSubmitted` | `CalmSpec => []BooksMatchPayments` |
| `PaidInvoicesStand` | `CalmSpec => []PaidInvoiceStands` |
| `StatusTells` | `CalmSpec => []StatusTellsSettlement` |
| `CreditsFit` | `CalmSpec => CreditFitsBalance` |
| `SubmittedStay` | no step of `CalmSpec` deletes a submitted payment |

`SettleIInv` holds whatever races: `RowsAreHeld` (who works under the lock of a payment's or
a note's row has it), `OneActiveNote` (so two notes never credit one invoice side by side),
`CreditIsNote` (what an invoice is credited is the sum of what its notes settled, of
which a finalization or a void changes one term; what a finalized note settled is its total
unless an edit in flight wrote over it), `CreditsAreRead` (the credited amount a note works
from is the one there, because only the note's own lock leads to it, and no edit or delete
writes it), and
`SeenWithinTotal` (a stale amount is within the total as well, which is why
`PaidWithinTotal` survives the lost updates that the runs exhibit). `CalmIInv` adds that
`amountPaid` is the sum over all payments of what is booked for them (`BooksIInv`); each
submit and cancel changes one term of one sum (`SumChanges`). From `PaymentsAssumption` and
`NotesAssumption`: payments and notes are finite sets.

### StockLedger_proofs

| Theorem | States |
|---|---|
| `StockInductive` | `Spec => []StockIInv` |
| `LevelsMatchLedger` | `Spec => []LevelIsLedger` |
| `OpeningsMatchEntries` | `Spec => []OpeningIsAsEntered` |
| `OpeningsComeFirst` | `Spec => OpeningComesFirst` |
| `DeletedBinsAreUnused` | `Spec => []DeletedBinIsUnused` |
| `VoidsMoveNothing` | `Spec => []VoidsCancelOut`: a void document's movements cancel out in quantity, and in value unless it is a purchase of one product at two prices in one place |
| `VoidsShowNothing` | `Spec => []VoidUndoesMovements`, if no document is such a purchase |
| `UnitsStayCovered` | `CalmSpec => []UnitsAreCovered` |

All but the last are about `Spec`, where tracking modes change at any time too. `StockIInv`
says what a request that is under way is worth:

- `RequestsAreSound`: what it has still to do fits the step it is at, and only a transfer
  takes from one place before it puts into another;
- `LevelsIInv`: of a row it holds, the quantity it computed is the committed level plus its
  own movements, and not negative; of any other row it has moved nothing. So at the commit
  level and ledger change by the same;
- `BinsIInv`: in a deleted bin there is no row, and one being inserted is not flushed, so
  that the foreign key refuses it;
- `OpeningsIInv`: one request at a time sets the opening stock of an item, nobody else has
  referred to the item since, and the movements it has done and has still to do lead from
  what was entered to what is entered now (`OpeningIsUnderWay`).

`LevelsMatchLedger` also compares three double sums (by item, by place, by row), for which
`Sums_proofs` has the exchange of rows and columns. For voids, `DocsIInv` says that one
request works on a document, that what it has posted and has still to post (`Work`)
finalizes the document or undoes what finalized it, line by line, and hence that the second
half of a void document's movements undoes the first (`SumCancels`). That an undone line
finds the cost of *its* line needs lines of one key to have one cost: sales and returns take
the price of the item, but a purchase may have two prices, and there the property fails
(`stock_two_prices`).

`UnitsStayCovered` needs an invariant of its own, `UnitsIInv`, about what a request *sees*
(the committed units with its own changes on top):

- `SeenIsCovered`: where it holds the level row, the units it sees there are covered by the
  level it has computed less what it owes: a movement added to the level and not yet
  flushed to the units, or the half of a transfer that is still to come (`Owed`);
- `TouchedAreHeld`: what it put in stock is in places it has locked, so a commit changes
  the units of no row that another request holds for the worse;
- `WorkIsNumbered`: a movement of a tracked item has as many serial numbers as it moves,
  and `LinesAreNumbered` keeps this true of the lines of a sent document until its void
  comes: their items have level rows, so their tracking mode is fixed.

The units themselves are read without a lock, and need none for this direction: a unit
leaves a place only with a movement out of it. It is `CalmSpec` because the change of a
tracking mode reads the movements without a lock: a movement in flight would be applied in
the mode it began with.

The assumptions are `FinitenessAssumption` (finitely many items, places and serial
numbers), `SerialsOfAssumption` (a serial unit belongs to one product), `OpeningsAssumption`
(no serial numbers are entered where the quantity is 0, `inventory/service.py:568-579`),
`PlaceOrderAssumption` (`PlaceOrder` lists each place once) and `CostsAssumption` (some
cost).

### Sums_proofs

`SumOf(f, S)` is the fold `MapThenSumSet` of the community modules. From its definition
alone: such a fold exists and is unique on a finite set, by least-counterexample induction
on the size of the set (`SmallestSet`), written out because the library's induction
theorems cannot be instantiated; so a sum takes its elements in any order (`SumTakes`),
changes with one term (`SumChanges`), splits (`SumOfUnion`, `SumByParts`), can be renamed
(`SumThrough`), bounded, exchanged (`SumByRows`, `SumByColumns`), and cancels
(`SumCancels`).

### Bookings_proofs: claims

For any people, expenses, payouts, sales, amounts and number of requests, from
`ClaimsAssumption` (claims and sales are finitely many, amounts are positive, rates are
percentages):

| Theorem | States |
|---|---|
| `ClaimsInductive` | `ClaimsSpec => []ClaimsIInv` |
| `ClaimsAreBookedOnce` | `ClaimsSpec => []ClaimsMatchBooks` |
| `CommissionStaysWithinEarned` | `ClaimsSpec => []CommissionWithinEarned` |

A request writes what it decided on an earlier read. `ClaimsIInv` says what that read is
worth by then:

- `RequestsAreCurrent`: the claim and its vouchers are still as they were read, unless
  another wrote the claim in between, which none can while it is locked;
- `ClaimsAreBooked`: claim by claim, the vouchers are those of its status and amount;
- `SubmitsAreCovered`: a payout being submitted is within what its person is still owed,
  unless another was submitted to the same person since, or a sale was taken back.

What was earned and paid are sums over sales and over claims, of which each action changes
one term (`EarnedChanges`, `PaidChanges`). An update that writes from a stale read can move
a payout that was submitted in the meantime to another person, who is then paid what they
did not earn. `crossed` therefore takes in that person as well; the run has one person, and
only the proof met the case.

### Bookings_proofs: postings

For any chains of papers, whatever is written on them, and any purchase prices, from
`PostingAssumption`, which is what the request schemas let in: the chains are those of
`Chains`, nothing on a line is less than zero, and an expense is in whole cents.

| Theorem | States |
|---|---|
| `PostingInductive` | `PostingSpec => []PostingIInv` |
| `PostingsFollow` | `PostingSpec => []PostingsFollowDocuments` |

`PostingsFollowDocuments` says nothing of the paper that is booked next or voided next, so
it is not inductive. `PostingIInv` has two parts:

- `AllStand`: each standing paper is what the paper before it made it (`IsDrawnUp`: its
  total, tax and worth, and whether it moved goods), its journal enters on each account
  what a paper of its type should (`IsEntered`), and the books accepted that journal;
- `BooksAreEntered`: each account is the sum of what the standing papers entered on it, and
  the accounts add up to zero. A void takes back one term of that sum.

A journal is weighed part by part, the parts being the lines that are always written and
those written for an amount other than zero: `Weigh` adds up a weight of its lines (their
debits, their credits, what they put on an account) over `\o`, and over the `FlattenSeq` of
an expense's lines. From the weights come, for each kind of paper (`SaleJournal`,
`CreditNoteJournal`, `BillJournal`, `ValueJournal`, `ExpenseJournal`), what it enters and
exactly when it is accepted: `RefusedIsUnbookable` covers every total, tax and value, also
those no run tries. Rounding needs two facts: amounts are whole cents, which the books'
four decimals do not round (`WholeCents`), and the costs of goods, which they may round, are
rounded alike on both sides of their entry. `JournalsTie` adds an accepted journal up by
accounts, which are the columns, and by lines, which are the rows.

### Books_proofs

For any accounts, parties, journals, amounts, days and number of clerks, from
`BooksAssumption` (the chart has its system accounts, parties and accounts are told apart):

| Theorem | States |
|---|---|
| `BooksInductive` | `BooksSpec => []BooksIInv` |
| `LedgerFollowsVouchers` | `BooksSpec => []BooksFollowVouchers` |
| `PartiesOweTheirOpening` | `BooksSpec => []PartyOwesOpening` |
| `StatementsAlwaysTie` | `BooksSpec => []StatementsTie` |

Beside `PartyOwesOpening` itself, `BooksIInv` has six parts:

- `VouchersAreFounded`: only journals are ever drafts, what is a draft has no entries and a
  reversal is of an earlier voucher, so that a posting never disturbs a reversal;
- `JobsAreAsRead`: the voucher, or the opening balance, that a clerk read is still as it was
  read, unless another wrote it in between, and then what follows is in `raced`;
- `EntriesFollow`: of a voucher outside `raced`, the entries are those of its lines while it
  is posted, it has one reversal exactly when it is reversed, and that is its mirror;
- `OpeningsStand`: of a party outside `raced`, at most one opening voucher stands, and its
  lines bear what was last entered, on one of the two control accounts;
- `EntriesBalance`: the entries of every voucher, raced or not, add up to nothing, are of
  one day and on accounts that may be posted to;
- `PostersShareDay`: the entries two clerks post of one voucher are of one day, which
  `EntriesBalance` needs where both append.

`StatementsAlwaysTie` rests on `EntriesBalance` alone, so the trial balance, the balance
sheet, the profit, the general ledger, the cash flow, the cash book, the dashboard's cash
and the running statements tie whatever raced. The sums behind it are over entries by
account, by day and by voucher; a date range is a difference of two such sums, and a
voucher lies on one side of every date because it is of one day.

### Organization_proofs: members

For any users, roles, modules, wishes and callers, from `MembersAssumption`:

| Theorem | States |
|---|---|
| `MembersTypeCorrect` | `MembersSpec => []MembersTypeOK` |
| `NothingIsPassedOnUnvouched` | `MembersSpec => []PermissionsAreVouched` |

`PermissionsAreVouched` is not inductive, because a request writes what it checked
earlier. `MembersIInv` adds `CallersAreVouched` (what a caller holds, loaded or current, is
vouched for) and `WritesAreVouched` (so is what it is about to write). The key lemma is
`VouchedStays`: a role that is vouched for stays so, since whoever adds to a role holds
everything, which vouches, or holds what is vouched for already.

### Organization_proofs: sessions

For any tokens, holders and number of requests, from `SessionsAssumption`:

| Theorem | States |
|---|---|
| `SessionsTypeCorrect` | `SessionsSpec => []SessionsTypeOK` |
| `ChainHasOneLiveToken` | `SessionsSpec => []OneLiveToken` |
| `RevokedFamilyIsDead` | `SessionsSpec => []DeadFamilyStaysDead` |

A rotation checks its token when it locks the row and inserts the successor at its
commit, and a revocation updates at its commit the rows it saw when it began.
`SessionsIInv` says what those earlier looks are worth later:

- `LocksAreExclusive`, `RotatingIsLive`: the token a rotation was given is nobody else's
  and still live when it commits, so one dies as the next is born;
- `FamiliesAreFounded`, `FamiliesHaveOneOwner`: a new family takes a name that was never
  used, and revoking a holder's tokens revokes whole families;
- `TargetsAreWhole`: of a family in which nothing has rotated since a revocation began,
  the revocation will touch every live token.

### Filing_proofs

For any documents, lists, codes, batch size and number of requests, from
`FilingAssumption`; `FilingSpec` joins filing and the lists:

| Theorem | States |
|---|---|
| `FilingsAreTraced` | `FilingSpec => []FiledIsTraced` |
| `CachedListsAreWhole` | `FilingSpec => []CachedListIsWhole` |

`FiledIsTraced` is a count: what the authority holds of a document is at most its attempts
and the requests that still have one to write. `Balanced` says what one request turning
into another does to that count; that it is always balanced needs `AnswersComeLast` (a
request that has not asked has nothing accepted), `LockedAreDrafts` (the document a request
files stays a draft until it commits, and is filed by no other; a delete in flight has to
wait for it, and may then delete what was filed) and `UnwrittenIsFinite`. That a number
outlives a void of credit notes only is `MayCarry`.
`CachedListIsWhole` needs `BatchesAreWhole`: what a sync job has in hand of a list is whole
as well, so storing it, beside whatever others stored, leaves a whole list. The bounds
`MaxFilings` and `MaxAnswers` are any numbers.

### Organization_proofs: records

For any records, rows and number of requests, from `RecordsAssumption`: `HistoryIsKept`,
that is `RecordsSpec => []HistoryKeepsItsRecord`. A delete acts on what it looked for
before; `UnusedUnlessOvertaken` says that a row it would have stopped at was written since,
and `RowsNameTheirRecord` that a row names what it was written for or nothing. The lemma
`RowsAreProtected` holds the table together: what a delete does not look for is refused by
its foreign key, units and the documents at a place apart. Where goods moved, the movements
it does look for protect the documents too.

### Only model-checked

Liveness under fairness (`EveryRequestEnds`), which the prover does not reach.
`FiguresAgree`: equations between reports for every pair of dates, each over several sums.
It is not the consequence of a protocol; it follows from how one step computes its figures,
which the run tries on amounts and dates chosen for their rounding and their buckets.

## Known gaps of the models

- `DocumentFlow` has one edit of a draft in flight; two would each delete the lines they
  loaded. Converting part of a line, and the cents its rounding loses, are left out.
- `Settlement`: one edit of a payment in flight, no advances, no currencies. A deleted note
  leaves the documents of its invoice as if it had never been, as the code's own look at
  dependents does.
- `StockLedger`: one line per document in the run, so two documents that lock bins in
  opposite order are not in it; a tracking mode that changes beside a movement in flight
  is kept out of the run.
- `Books`: the period is checked and the voucher posted in one step; opening balances of
  the chart are entered in one step; a period is a year; a voucher's row and its lines are
  read in one step, where the code has two queries (they can differ only for a voucher that
  another request writes meanwhile, which is in `raced`).
- `Books` and `Claims`: the run lets requests collide on one subject, once; that the
  invariants hold beyond it (`raced` and `crossed` aside) is proved, not run.
- `Filing`: the organisation's settings are read as whatever they may be; the refresh of
  the lists that are fetched in one piece (provinces, codes, rates) is left out.

## Not modelled

Numbering (`max + 1` under a unique constraint, six retries; its lock has a part in
`Settlement`), settings (read as a nondeterministic choice where they matter), the backfill
of vouchers (nothing calls it), the creation of lots, locations' default flag, the
registration of organisations and seeding of roles, currencies; activities (an append-only
log), printing and export (formatting), media (I/O), schema migrations, the web clients.
They have no state machine of their own, or none the properties here depend on.

## Plan

1. `DraftEditing`: overlapping edits of one draft, lines against total.
2. `Numbering`, and lots on top of `StockLedger`.
