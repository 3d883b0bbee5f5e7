---------------------------- MODULE DocumentFlow ----------------------------
(***************************************************************************)
(* The life of sales and purchase documents: drafts, finalizing, converting *)
(* a document into the next one of its chain, voiding, editing, deleting.   *)
(* backend/app/modules/documents/service.py, class DocumentService.         *)
(*                                                                          *)
(* A request handler is a worker that runs one database transaction.  The   *)
(* database is Postgres at READ COMMITTED (db/session.py): SELECT ... FOR   *)
(* UPDATE takes the row lock, a plain SELECT reads what is committed and    *)
(* takes nothing, and a write waits for the row lock and then overwrites.   *)
(* finalize, void and convert open with the row lock of their document;     *)
(* update and delete only read it.                                          *)
(*                                                                          *)
(* A document's lines, and the total computed from them, are abstracted to   *)
(* the quantity of goods they add up to.  Two edits of one draft at the same *)
(* time are left to DraftEditing; here a draft has one edit in flight.       *)
(***************************************************************************)
EXTENDS Integers, FiniteSets

CONSTANTS
    Docs,        \* document rows that may ever exist
    Workers,     \* request handlers that run at the same time
    NoDoc,       \* "no document"
    NoWorker,    \* "nobody holds the row lock"
    Roots,       \* the rows that are created by hand; the rest are converted
    RootKinds,   \* the kinds of document created by hand
    MaxQty,      \* bound on the quantity a document is created with
    EditQtys,    \* the quantities an edit may leave on a document
    FbrSettings  \* what the organisation's switch for filing with the tax
                 \* authority is set to, now or later

ASSUME NoDocAssumption == NoDoc \notin Docs
ASSUME NoWorkerAssumption == NoWorker \notin Workers
ASSUME RootsAssumption == Roots \subseteq Docs
ASSUME MaxQtyAssumption == MaxQty \in Nat \ {0}
ASSUME EditQtysAssumption == EditQtys \subseteq Nat
ASSUME FbrSettingsAssumption == FbrSettings \subseteq BOOLEAN

-----------------------------------------------------------------------------
(* Document kinds and what each may become.                                 *)

Kinds == {"sales_order", "delivery_challan", "invoice", "sales_receipt",
          "credit_note", "purchase_order", "goods_receipt", "bill"}

ASSUME RootKindsAssumption == RootKinds \subseteq Kinds

\* What a finalized document of kind k can be converted to.
Conversions(k) ==
    CASE k = "sales_order"      -> {"delivery_challan", "invoice"}
      [] k = "delivery_challan" -> {"invoice"}
      [] k = "invoice"          -> {"credit_note"}
      [] k = "purchase_order"   -> {"goods_receipt", "bill"}
      [] k = "goods_receipt"    -> {"bill"}
      [] OTHER                  -> {}

\* Orders close when the document converted from them is finalized.
ClosedOnConvert == {"sales_order", "purchase_order"}

\* The sign of the stock movement a kind of document makes.
StockDirection(k) ==
    CASE k \in {"invoice", "sales_receipt", "delivery_challan"} -> -1
      [] k \in {"credit_note", "goods_receipt", "bill"}         -> 1
      [] OTHER                                                  -> 0

FbrKinds == {"invoice", "credit_note"}

\* Kinds a payment can be allocated to.
PayableKinds == {"invoice", "bill"}

\* "absent": no row yet; "deleted": the row is gone.
Statuses == {"absent", "draft", "sent", "closed", "void", "deleted"}

Live      == {"draft", "sent", "closed", "void"}   \* the row exists
Active    == {"draft", "sent", "closed"}           \* status != VOID
Finalized == {"sent", "closed"}

-----------------------------------------------------------------------------
VARIABLES
    kind,      \* kind[d]: the document's type
    status,    \* status[d]
    source,    \* source[d]: source_document_id, or NoDoc
    lines,     \* lines[d]: quantity on the document's lines
    posted,    \* posted[d]: stock_posted
    moved,     \* moved[d]: sum of the stock movements that refer to d
    booked,    \* booked[d]: what the posted vouchers of d amount to
    filed,     \* filed[d]: fbr_invoice_number is set
    paid,      \* paid[d]: amount_paid > 0
    lock,      \* lock[d]: the worker that holds the row lock of d
    req        \* req[w]: the request worker w is running

docVars == <<kind, status, source, lines, posted, moved, booked, filed, paid>>
vars == <<kind, status, source, lines, posted, moved, booked, filed, paid,
          lock, req>>

Steps == {"idle", "finalize_guard", "finalize_write", "void_read", "void_write",
          "convert_write", "update_write", "delete_read", "delete_write"}

LockedSteps == {"finalize_guard", "finalize_write", "void_read", "void_write",
                "convert_write"}
EditSteps == {"update_write", "delete_read", "delete_write"}

\* A request: the step it will take next, the document it is on, and what it
\* remembers from its earlier reads.
Requests ==
    [step   : Steps,
     doc    : Docs \cup {NoDoc},
     moves  : BOOLEAN,                \* finalize: this document moves stock
     touch  : BOOLEAN,                \* the source's status will be written
     fresh  : Docs \cup {NoDoc},      \* convert: the row it will insert
     as     : Kinds,                  \* convert: the kind of that row
     qty    : Nat]                    \* update: the new lines

Idle == [step |-> "idle", doc |-> NoDoc, moves |-> FALSE, touch |-> FALSE,
         fresh |-> NoDoc, as |-> "sales_order", qty |-> 0]

TypeOK ==
    /\ kind   \in [Docs -> Kinds]
    /\ status \in [Docs -> Statuses]
    /\ source \in [Docs -> Docs \cup {NoDoc}]
    /\ lines  \in [Docs -> Nat]
    /\ posted \in [Docs -> BOOLEAN]
    /\ moved  \in [Docs -> Int]
    /\ booked \in [Docs -> Nat]
    /\ filed  \in [Docs -> BOOLEAN]
    /\ paid   \in [Docs -> BOOLEAN]
    /\ lock   \in [Docs -> Workers \cup {NoWorker}]
    /\ req    \in [Workers -> Requests]
    /\ \A w \in Workers : req[w].step # "idle" => req[w].doc \in Docs

Init ==
    /\ kind   = [d \in Docs |-> "sales_order"]
    /\ status = [d \in Docs |-> "absent"]
    /\ source = [d \in Docs |-> NoDoc]
    /\ lines  = [d \in Docs |-> 0]
    /\ posted = [d \in Docs |-> FALSE]
    /\ moved  = [d \in Docs |-> 0]
    /\ booked = [d \in Docs |-> 0]
    /\ filed  = [d \in Docs |-> FALSE]
    /\ paid   = [d \in Docs |-> FALSE]
    /\ lock   = [d \in Docs |-> NoWorker]
    /\ req    = [w \in Workers |-> Idle]

-----------------------------------------------------------------------------
(* Reads shared by the handlers.                                            *)

HasSource(d) == source[d] # NoDoc

ActiveDependents(s) == {d \in Docs : source[d] = s /\ status[d] \in Active}

Unlocked(d) == lock[d] = NoWorker

\* The row locks once the transaction that holds d has ended.
Kept(d) == lock
Released(d) == [lock EXCEPT ![d] = NoWorker]

SourceExists(d) == HasSource(d) /\ status[source[d]] \in Live

\* A write to the source's row waits for its lock.
SourceWritable(d) == HasSource(d) => Unlocked(source[d])

Unused(d) == status[d] = "absent" /\ \A w \in Workers : req[w].fresh # d

\* The goods of d were already moved, the same way, by the document it came from.
NothingMovedBefore(d) == FALSE
SourcePosted(d) == HasSource(d) /\ posted[source[d]]
SourceMovedStock(d) ==
    /\ HasSource(d)
    /\ posted[source[d]]
    /\ StockDirection(kind[source[d]]) = StockDirection(kind[d])

ConvertedLinesMatch(s, d) ==
    IF kind[d] = "credit_note" THEN lines[d] <= lines[s] ELSE lines[d] = lines[s]

SourceStatusAllowsFinalize(d) ==
    HasSource(d) => status[source[d]] \in Finalized

SourceAllowsFinalize(d) ==
    HasSource(d) =>
        LET s == source[d] IN
        /\ kind[d] \in Conversions(kind[s])
        /\ \/ status[s] = "sent"
           \/ status[s] = "closed" /\ kind[s] \in ClosedOnConvert
        /\ ConvertedLinesMatch(s, d)

\* The order d came from is closed and nothing else was made from it.
SourceReopensIfUnused(d) ==
    /\ HasSource(d)
    /\ kind[source[d]] \in ClosedOnConvert
    /\ status[source[d]] = "closed"
    /\ ActiveDependents(source[d]) = {}

SourceReopens(d) ==
    /\ HasSource(d)
    /\ kind[source[d]] \in ClosedOnConvert
    /\ status[source[d]] = "closed"
    /\ ActiveDependents(source[d]) \subseteq {d}

\* A document is converted once; the conversion must be void or deleted before the
\* next (_guard_no_active_conversion).
NothingFinalizedFrom(s) ==
    \A d \in Docs : source[d] = s => status[d] \notin Finalized

NothingMadeFrom(s) == ActiveDependents(s) = {}

\* What a document must not have for it to be voided: documents made from it, a
\* number from the tax authority, money collected or paid.
VoidAllowedWhenUsed(d) == ~ paid[d] /\ ~ (kind[d] = "invoice" /\ filed[d])

VoidAllowedWhenFiled(d) == ActiveDependents(d) = {} /\ ~ paid[d]

VoidAllowedWhenPaid(d) ==
    ActiveDependents(d) = {} /\ ~ (kind[d] = "invoice" /\ filed[d])

VoidAllowed(d) ==
    /\ ActiveDependents(d) = {}
    /\ ~ (kind[d] = "invoice" /\ filed[d])
    /\ ~ paid[d]

\* The draft check of update.
EditableUntilClosed(d) == status[d] \in {"draft", "sent"}

Editable(d) == status[d] = "draft"

\* A filed invoice takes one credit note, ever.
FbrCreditNoteAllowed(s) ==
    /\ filed[s]
    /\ \A d \in Docs : ~ (/\ source[d] = s
                          /\ kind[d] = "credit_note"
                          /\ status[d] \in Live)

\* The stock ledger after void has posted the opposite of d's movements.
AlwaysReversed(d) == [moved EXCEPT ![d] = @ - StockDirection(kind[d]) * lines[d]]

StockReversed(d) ==
    IF posted[d] THEN [moved EXCEPT ![d] = @ - StockDirection(kind[d]) * lines[d]]
                 ELSE moved

\* What post_document books for d; deliveries and receipts book only the goods
\* they move, orders book nothing.
SignedAmount(d, moves) == StockDirection(kind[d]) * lines[d]

AmountToBook(d, moves) ==
    IF \/ kind[d] \in {"invoice", "sales_receipt", "credit_note", "bill"}
       \/ kind[d] \in {"delivery_challan", "goods_receipt"} /\ moves
    THEN lines[d] ELSE 0

-----------------------------------------------------------------------------
(* Creating and converting.                                                 *)

Create(d, k, q) ==
    /\ Unused(d)
    /\ kind'   = [kind EXCEPT ![d] = k]
    /\ status' = [status EXCEPT ![d] = "draft"]
    /\ lines'  = [lines EXCEPT ![d] = q]
    /\ UNCHANGED <<source, posted, moved, booked, filed, paid, lock, req>>

\* convert: lock the source, then the guards.
ConvertBegin(w, s, k, d) ==
    /\ req[w].step = "idle"
    /\ Unlocked(s)
    /\ status[s] = "sent"
    /\ k \in Conversions(kind[s])
    /\ NothingMadeFrom(s)
    /\ k = "credit_note" => FALSE \in FbrSettings \/ FbrCreditNoteAllowed(s)
    /\ Unused(d) /\ d \notin Roots
    /\ lock' = [lock EXCEPT ![s] = w]
    /\ req'  = [req EXCEPT ![w] = [Idle EXCEPT !.step = "convert_write", !.doc = s,
                                               !.fresh = d, !.as = k]]
    /\ UNCHANGED docVars

\* convert: insert the draft with the source's lines, commit.
ConvertWrite(w) ==
    LET s == req[w].doc
        d == req[w].fresh IN
    /\ req[w].step = "convert_write"
    /\ kind'   = [kind EXCEPT ![d] = req[w].as]
    /\ status' = [status EXCEPT ![d] = "draft"]
    /\ source' = [source EXCEPT ![d] = s]
    /\ lines'  = [lines EXCEPT ![d] = lines[s]]
    /\ lock'   = Released(s)
    /\ req'    = [req EXCEPT ![w] = Idle]
    /\ UNCHANGED <<posted, moved, booked, filed, paid>>

-----------------------------------------------------------------------------
(* Finalizing.                                                              *)

\* Lock the document; only a draft with lines goes on.
FinalizeBegin(w, d) ==
    /\ req[w].step = "idle"
    /\ Unlocked(d)
    /\ status[d] = "draft"
    /\ lines[d] > 0
    /\ lock' = [lock EXCEPT ![d] = w]
    /\ req'  = [req EXCEPT ![w] = [Idle EXCEPT !.step = "finalize_guard", !.doc = d]]
    /\ UNCHANGED docVars

\* Read the source without a lock, judge it, and decide whether to move stock.
FinalizeGuard(w) ==
    LET d == req[w].doc IN
    /\ req[w].step = "finalize_guard"
    /\ SourceAllowsFinalize(d)
    /\ req' = [req EXCEPT
                 ![w].step  = "finalize_write",
                 ![w].moves = /\ StockDirection(kind[d]) # 0
                              /\ ~ SourceMovedStock(d),
                 ![w].touch = /\ HasSource(d)
                              /\ kind[source[d]] \in ClosedOnConvert
                              /\ status[source[d]] = "sent"]
    /\ UNCHANGED <<docVars, lock>>

\* Post stock and ledger, close the order, file with the authority, commit.  A
\* credit note writes the invoice it credits; other documents write their source
\* only to close it.
FinalizeWrite(w) ==
    LET d == req[w].doc
        s == source[d] IN
    /\ req[w].step = "finalize_write"
    /\ req[w].touch \/ kind[d] = "credit_note" => SourceWritable(d)
    /\ status' = IF req[w].touch
                 THEN [status EXCEPT ![d] = "sent", ![s] = "closed"]
                 ELSE [status EXCEPT ![d] = "sent"]
    /\ posted' = [posted EXCEPT ![d] = req[w].moves]
    /\ moved'  = IF req[w].moves
                 THEN [moved EXCEPT ![d] = @ + StockDirection(kind[d]) * lines[d]]
                 ELSE moved
    /\ booked' = [booked EXCEPT ![d] = AmountToBook(d, req[w].moves)]
    /\ paid'   = [paid EXCEPT ![d] = @ \/ kind[d] = "sales_receipt"]
    /\ \E files \in FbrSettings :
          filed' = [filed EXCEPT ![d] = files /\ kind[d] \in FbrKinds]
    /\ lock'   = Released(d)
    /\ req'    = [req EXCEPT ![w] = Idle]
    /\ UNCHANGED <<kind, source, lines>>

-----------------------------------------------------------------------------
(* Voiding.                                                                 *)

\* Lock the document; the guards read its own row and its dependents.
VoidBegin(w, d) ==
    /\ req[w].step = "idle"
    /\ Unlocked(d)
    /\ status[d] \in Finalized
    /\ VoidAllowed(d)
    /\ lock' = [lock EXCEPT ![d] = w]
    /\ req'  = [req EXCEPT ![w] = [Idle EXCEPT !.step = "void_read", !.doc = d]]
    /\ UNCHANGED docVars

\* Reopening the order is decided on an unlocked read of it.
VoidRead(w) ==
    /\ req[w].step = "void_read"
    /\ req' = [req EXCEPT ![w].step = "void_write",
                          ![w].touch = SourceReopens(req[w].doc)]
    /\ UNCHANGED <<docVars, lock>>

\* Reverse stock, credit and ledger, reopen the order, commit.
VoidWrite(w) ==
    LET d == req[w].doc
        s == source[d] IN
    /\ req[w].step = "void_write"
    /\ req[w].touch \/ kind[d] = "credit_note" => SourceWritable(d)
    /\ status' = IF req[w].touch
                 THEN [status EXCEPT ![d] = "void", ![s] = "sent"]
                 ELSE [status EXCEPT ![d] = "void"]
    /\ posted' = [posted EXCEPT ![d] = FALSE]
    /\ moved'  = StockReversed(d)
    /\ booked' = [booked EXCEPT ![d] = 0]
    /\ lock'   = Released(d)
    /\ req'    = [req EXCEPT ![w] = Idle]
    /\ UNCHANGED <<kind, source, lines, filed, paid>>

-----------------------------------------------------------------------------
(* Editing and deleting: the draft check is on an unlocked read.            *)

UpdateRead(w, d, q) ==
    /\ req[w].step = "idle"
    /\ Editable(d)
    /\ \A u \in Workers : ~ (req[u].step = "update_write" /\ req[u].doc = d)
    /\ req' = [req EXCEPT ![w] = [Idle EXCEPT !.step = "update_write", !.doc = d,
                                              !.qty = q]]
    /\ UNCHANGED <<docVars, lock>>

\* Replace the lines and recompute the totals, whatever the row has become.
UpdateWrite(w) ==
    LET d == req[w].doc IN
    /\ req[w].step = "update_write"
    /\ status[d] \in Live
    /\ Unlocked(d)
    /\ lines' = [lines EXCEPT ![d] = req[w].qty]
    /\ req'   = [req EXCEPT ![w] = Idle]
    /\ UNCHANGED <<kind, status, source, posted, moved, booked, filed, paid, lock>>

DeleteBegin(w, d) ==
    /\ req[w].step = "idle"
    /\ status[d] = "draft"
    /\ req' = [req EXCEPT ![w] = [Idle EXCEPT !.step = "delete_read", !.doc = d]]
    /\ UNCHANGED <<docVars, lock>>

DeleteRead(w) ==
    /\ req[w].step = "delete_read"
    /\ req' = [req EXCEPT ![w].step = "delete_write",
                          ![w].touch = SourceReopens(req[w].doc)]
    /\ UNCHANGED <<docVars, lock>>

\* The row goes, whatever it has become, and rows made from it lose their source
\* (ON DELETE SET NULL).  What it left in the stock ledger and the books stays.
\* Deleting a row that is already gone deletes nothing.
DeleteWrite(w) ==
    LET d == req[w].doc
        s == source[d] IN
    /\ req[w].step = "delete_write"
    /\ Unlocked(d)
    /\ req[w].touch => SourceExists(d) /\ SourceWritable(d)
    /\ \A x \in Docs : source[x] = d => Unlocked(x)
    /\ status' = IF req[w].touch
                 THEN [status EXCEPT ![d] = "deleted", ![s] = "sent"]
                 ELSE [status EXCEPT ![d] = "deleted"]
    /\ source' = [x \in Docs |-> IF source[x] = d THEN NoDoc ELSE source[x]]
    /\ lines'  = [lines EXCEPT ![d] = 0]
    /\ posted' = [posted EXCEPT ![d] = FALSE]
    /\ filed'  = [filed EXCEPT ![d] = FALSE]
    /\ paid'   = [paid EXCEPT ![d] = FALSE]
    /\ req'    = [req EXCEPT ![w] = Idle]
    /\ UNCHANGED <<kind, moved, booked, lock>>

-----------------------------------------------------------------------------
\* The transaction rolls back: its locks go and nothing it wrote stays (get_db
\* closes the session whatever the handler raised).
LeakedSession(w) ==
    /\ req' = [req EXCEPT ![w] = Idle]
    /\ UNCHANGED <<docVars, lock>>

Rollback(w) ==
    /\ lock' = [d \in Docs |-> IF lock[d] = w THEN NoWorker ELSE lock[d]]
    /\ req'  = [req EXCEPT ![w] = Idle]
    /\ UNCHANGED docVars

\* The request meets a guard that fails, or writes a row that is gone.
Refuse(w) ==
    /\ \/ req[w].step = "finalize_guard" /\ ~ SourceAllowsFinalize(req[w].doc)
       \/ req[w].step = "update_write" /\ status[req[w].doc] \notin Live
       \/ /\ req[w].step = "delete_write"
          /\ req[w].touch /\ ~ SourceExists(req[w].doc)
    /\ Rollback(w)

\* Any request may fail before it commits for a reason this module leaves out:
\* not enough stock, a closed period, the authority refusing the invoice, a crash.
Abort(w) ==
    /\ req[w].step # "idle"
    /\ Rollback(w)

\* What payments/service.py does to a document: submit locks the row, cancel only
\* waits for it.  Modelled in full in Settlement.
PaymentSettles(d) ==
    /\ status[d] = "sent" /\ kind[d] \in PayableKinds /\ Unlocked(d)
    /\ ~ paid[d]
    /\ paid' = [paid EXCEPT ![d] = TRUE]
    /\ UNCHANGED <<kind, status, source, lines, posted, moved, booked, filed,
                   lock, req>>

PaymentReleases(d) ==
    /\ status[d] \in Live /\ kind[d] \in PayableKinds /\ Unlocked(d)
    /\ paid[d]
    /\ paid' = [paid EXCEPT ![d] = FALSE]
    /\ UNCHANGED <<kind, status, source, lines, posted, moved, booked, filed,
                   lock, req>>

-----------------------------------------------------------------------------
\* The step a worker takes to go on with the request it is running.
Continue(w) ==
    \/ ConvertWrite(w)
    \/ FinalizeGuard(w) \/ FinalizeWrite(w)
    \/ VoidRead(w) \/ VoidWrite(w)
    \/ UpdateWrite(w)
    \/ DeleteRead(w) \/ DeleteWrite(w)

Begin(w) ==
    \E d \in Docs :
        \/ FinalizeBegin(w, d)
        \/ VoidBegin(w, d)
        \/ DeleteBegin(w, d)
        \/ \E q \in EditQtys : UpdateRead(w, d, q)
        \/ \E s \in Docs, k \in Kinds : ConvertBegin(w, s, k, d)

Next ==
    \/ \E w \in Workers : Begin(w) \/ Continue(w) \/ Refuse(w) \/ Abort(w)
    \/ \E d \in Roots, k \in RootKinds, q \in 1..MaxQty : Create(d, k, q)
    \/ \E d \in Docs : PaymentSettles(d) \/ PaymentReleases(d)

Spec == Init /\ [][Next]_vars

-----------------------------------------------------------------------------
(* Nobody edits or deletes a draft while another request works on it: the   *)
(* schedules on which update and delete need no lock.                       *)

OneRequestPerDraft ==
    \A u, v \in Workers :
        u # v /\ req[u].step \in EditSteps => req[u].doc # req[v].doc

CalmSpec == Init /\ [][Next /\ OneRequestPerDraft']_vars

(* Postgres queues the waiters of a row lock in order of arrival, so a      *)
(* request that can again and again take its next step takes it.            *)
FairCalmSpec == CalmSpec /\ \A w \in Workers : SF_vars(Continue(w) \/ Refuse(w))

-----------------------------------------------------------------------------
(* Safety: what must hold however requests interleave.                      *)

\* A document is turned into at most one other at a time, so no order is
\* delivered or invoiced twice (_guard_no_active_conversion).
OneActiveDependent ==
    \A s \in Docs, d, e \in Docs :
        {d, e} \subseteq ActiveDependents(s) => d = e

\* A document that something was made from is itself finalized and not void:
\* nothing is shipped or billed against a cancelled order
\* (_guard_no_active_dependents).
SourceStandsBehindDependent ==
    \A d \in Docs :
        status[d] \in Active /\ HasSource(d) => status[source[d]] \in Finalized

\* The same goods do not leave, or arrive, once with the challan or receipt and
\* again with the invoice or bill made from it (_source_moved_stock).
NeverMovedTwice ==
    \A d \in Docs :
        /\ status[d] \in Finalized /\ HasSource(d) /\ posted[d]
        /\ StockDirection(kind[d]) = StockDirection(kind[source[d]])
        => ~ posted[source[d]]

\* A document a payment is recorded on is never void: void refuses it under the
\* row lock a payment submission also takes.
PaidIsNotVoid == \A d \in Docs : paid[d] => status[d] # "void"

\* An invoice the tax authority holds is never void (void, filed invoice guard).
FiledInvoiceIsNotVoid ==
    \A d \in Docs : filed[d] /\ kind[d] = "invoice" => status[d] # "void"

-----------------------------------------------------------------------------
(* Safety on calm schedules; unlocked edits and deletes break these.        *)

\* A finalized document's stock movements and vouchers are those of the lines
\* it shows; a draft, a voided or a deleted document has left nothing in
\* the stock ledger or the books.
LedgersMatchDocument ==
    \A d \in Docs :
        IF status[d] \in Finalized
        THEN /\ moved[d] = IF posted[d] THEN StockDirection(kind[d]) * lines[d] ELSE 0
             /\ booked[d] = AmountToBook(d, posted[d])
        ELSE moved[d] = 0 /\ booked[d] = 0 /\ ~ posted[d]

\* An order is closed exactly while a finalized document made from it stands.
ClosedWhileFulfilled ==
    \A s \in Docs :
        status[s] \in {"sent", "closed"} /\ kind[s] \in ClosedOnConvert =>
            (status[s] = "closed" <=>
                \E d \in ActiveDependents(s) : status[d] \in Finalized)

\* A finalized document carries the goods of the one it was made from, and a
\* credit note no more than that (_guard_converted_lines).
ConvertedLinesStillMatch ==
    \A d \in Docs :
        status[d] \in Finalized /\ HasSource(d) => ConvertedLinesMatch(source[d], d)

\* Goods that a finished chain sends out, or takes in, are moved by one of its
\* documents: an invoice that moved nothing follows a challan that did.
GoodsMovedOnce ==
    \A d \in Docs :
        /\ status[d] \in Finalized /\ StockDirection(kind[d]) # 0 /\ ~ posted[d]
        => /\ HasSource(d)
           /\ posted[source[d]]
           /\ moved[source[d]] = StockDirection(kind[d]) * lines[d]

-----------------------------------------------------------------------------
(* Action properties.                                                       *)

\* "Only draft documents can be edited" (update): the lines of a finalized
\* document do not change.
FinalizedLinesAreFixed ==
    [][\A d \in Docs : status[d] \in Finalized => lines'[d] = lines[d]]_vars

\* "Only draft documents can be deleted" (delete).
OnlyDraftsAreDeleted ==
    [][\A d \in Docs :
          status'[d] = "deleted" /\ status[d] # "deleted" => status[d] = "draft"]_vars

-----------------------------------------------------------------------------
(* Why the safety properties hold: the strengthening that every step keeps.  *)

\* A row lock and the request that took it know of each other.
LocksAreOwned ==
    /\ \A w \in Workers :
          req[w].step \in LockedSteps => lock[req[w].doc] = w
    /\ \A d \in Docs :
          lock[d] # NoWorker => /\ req[lock[d]].step \in LockedSteps
                               /\ req[lock[d]].doc = d

\* The row a conversion will insert is nobody else's.
FreshRowsAreFree ==
    \A w \in Workers :
        IF req[w].step = "convert_write"
        THEN /\ req[w].fresh \in Docs
             /\ status[req[w].fresh] = "absent"
             /\ req[w].as \in Conversions(kind[req[w].doc])
             /\ \A u \in Workers : req[u].fresh = req[w].fresh => u = w
        ELSE req[w].fresh = NoDoc

\* Rows are made from rows that exist, along the conversions; orders from none.
SourcesAreKinds ==
    /\ \A d \in Docs :
          HasSource(d) => /\ status[source[d]] # "absent"
                          /\ kind[d] \in Conversions(kind[source[d]])
    /\ \A d \in Docs : status[d] = "absent" => ~ HasSource(d)
    /\ \A w \in Workers :
          LET d == req[w].doc IN
          req[w].touch /\ HasSource(d) => kind[source[d]] \in ClosedOnConvert

\* What request w established when it took its lock still holds when it commits.
GuardsHold(w) ==
    LET d == req[w].doc IN
    /\ req[w].step # "idle" => status[d] # "absent"
    /\ req[w].touch => req[w].step # "idle"
    /\ req[w].step = "convert_write" => status[d] = "sent" /\ NothingMadeFrom(d)
    /\ req[w].step \in {"finalize_guard", "finalize_write"} => status[d] = "draft"
    /\ req[w].step \in {"void_read", "void_write"} =>
          status[d] \in Finalized /\ VoidAllowed(d)
    /\ req[w].step = "finalize_write" /\ req[w].moves => ~ SourceMovedStock(d)

GuardsStillHold == \A w \in Workers : GuardsHold(w)

IInv ==
    /\ TypeOK
    /\ LocksAreOwned
    /\ FreshRowsAreFree
    /\ SourcesAreKinds
    /\ GuardsStillHold
    /\ OneActiveDependent
    /\ SourceStandsBehindDependent
    /\ NeverMovedTwice
    /\ PaidIsNotVoid
    /\ FiledInvoiceIsNotVoid

-----------------------------------------------------------------------------
(* Refinement: on calm schedules the handlers act as DocumentLifecycle says, *)
(* one whole request at a time.                                              *)

Lifecycle == INSTANCE DocumentLifecycle WITH
                 Orders <- ClosedOnConvert, Becomes <- Conversions

\* No stale read, half-done request or lost write shows in the documents: every
\* step of the locked, interleaved handlers is one of the promised steps.
ImplementsLifecycle == Lifecycle!Spec

-----------------------------------------------------------------------------
(* Liveness.                                                                *)

\* Every request ends: the row locks the handlers take and the writes they wait
\* for cannot form a cycle, since a handler waits only for its document's source.
EveryRequestEnds == \A w \in Workers : req[w].step # "idle" ~> req[w].step = "idle"

=============================================================================
