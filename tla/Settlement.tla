----------------------------- MODULE Settlement -----------------------------
(***************************************************************************)
(* Settling finalized invoices (and, the same way, bills): payments that are *)
(* drafted, submitted and cancelled, and credit notes that are finalized and *)
(* voided.  backend/app/modules/payments/service.py, class PaymentService;   *)
(* _apply_credit, _reverse_credit and void of documents/service.py.          *)
(*                                                                          *)
(* Each request is one READ COMMITTED transaction.  submit locks the payment *)
(* and the documents it settles; cancel locks the payment but reads the      *)
(* documents without a lock; finalizing a credit note reads the invoice      *)
(* before it locks it, and SQLAlchemy keeps the first values it read; voiding *)
(* one never locks the invoice before writing it.  Writes store the amounts a *)
(* request computed from what it had read.                                   *)
(*                                                                          *)
(* Voucher numbers are max + 1 under a unique constraint, so the second of   *)
(* two requests that post a reversal waits for the first to commit: the      *)
(* number acts as a lock, `reversing`.  Lines, advances, currencies and the   *)
(* drafting of invoices are left out (DocumentFlow has the latter).           *)
(***************************************************************************)
EXTENDS Integers, FiniteSets, FiniteSetsExt

CONSTANTS
    Invoices, Payments, Notes, Workers,
    NoOne,          \* no invoice, payment, note or worker
    Total,          \* Total[i]: what invoice i amounts to
    Allocations,    \* the allocations a clerk may enter: invoice -> amount
    CreditAmounts   \* what a credit note may amount to

ASSUME NoOneAssumption ==
    NoOne \notin Invoices \cup Payments \cup Notes \cup Workers
ASSUME PaymentsAssumption == IsFiniteSet(Payments)
ASSUME NotesAssumption == IsFiniteSet(Notes)
ASSUME TotalAssumption == Total \in [Invoices -> Nat \ {0}]
ASSUME AllocationsAssumption == Allocations \subseteq [Invoices -> Nat]
ASSUME CreditAmountsAssumption == CreditAmounts \subseteq Nat \ {0}

VARIABLES
    status,         \* status[i]: "sent" or "void"
    amountPaid,     \* amountPaid[i]: amount_paid
    amountCredited, \* amountCredited[i]: amount_credited
    payStatus,      \* payStatus[i]: payment_status
    payment,        \* payment[p]: the payment's status
    alloc,          \* alloc[p][i]: the payment's allocation to i, 0 for none
    booked,         \* booked[p][i]: what p's posted vouchers settle on i
    note,           \* note[c]: the credit note's status
    source,         \* source[c]: the invoice c credits
    credit,         \* credit[c]: the total of the credit note
    settled,        \* settled[c]: settled_amount, what its finalize credited and no
                    \* void took back; of a deleted row, what it was
    overwritten,    \* history: the finalized notes an update wrote afterwards
    rowLock,        \* rowLock[x]: the holder of x's row, x of any kind
    reversing,      \* the request whose reversal voucher is not committed yet
    req             \* req[w]: the request w is running

invoiceVars == <<status, amountPaid, amountCredited, payStatus>>
paymentVars == <<payment, alloc, booked>>
noteVars    == <<note, source, credit, settled, overwritten>>
lockVars    == <<rowLock, reversing>>
vars == <<invoiceVars, paymentVars, noteVars, lockVars, req>>

Rows == Invoices \cup Payments \cup Notes

PayStatuses     == {"unpaid", "partial", "paid", "credited"}
PaymentStatuses == {"absent", "draft", "submitted", "cancelled", "deleted"}
NoteStatuses    == {"absent", "draft", "sent", "void", "deleted"}

Steps == {"idle", "submit_settle", "cancel_read", "cancel_write", "edit_write",
          "delete_write", "credit_write", "uncredit_write", "uncredit_commit",
          "note_edit_write", "note_delete_write", "void_commit"}

\* What a request has read of an invoice.
Views == [paid : Nat, credited : Nat, payStatus : PayStatuses]

Requests ==
    [step : Steps,
     row  : Rows \cup {NoOne},           \* the row the request is about
     seen : [Invoices -> Views],         \* the invoices as it read them
     new  : [Invoices -> Nat]]           \* edit: the new allocations

Nothing == [i \in Invoices |-> 0]

Idle == [step |-> "idle", row |-> NoOne, new |-> Nothing,
         seen |-> [i \in Invoices |->
                     [paid |-> 0, credited |-> 0, payStatus |-> "unpaid"]]]

TypeOK ==
    /\ status         \in [Invoices -> {"sent", "void"}]
    /\ amountPaid     \in [Invoices -> Nat]
    /\ amountCredited \in [Invoices -> Nat]
    /\ payStatus      \in [Invoices -> PayStatuses]
    /\ payment   \in [Payments -> PaymentStatuses]
    /\ alloc     \in [Payments -> [Invoices -> Nat]]
    /\ booked    \in [Payments -> [Invoices -> Nat]]
    /\ note      \in [Notes -> NoteStatuses]
    /\ source    \in [Notes -> Invoices \cup {NoOne}]
    /\ credit    \in [Notes -> Nat]
    /\ settled   \in [Notes -> Nat]
    /\ overwritten \subseteq Notes
    /\ rowLock   \in [Rows -> Workers \cup {NoOne}]
    /\ reversing \in Workers \cup {NoOne}
    /\ req       \in [Workers -> Requests]

\* The invoices have just been finalized.
Init ==
    /\ status         = [i \in Invoices |-> "sent"]
    /\ amountPaid     = [i \in Invoices |-> 0]
    /\ amountCredited = [i \in Invoices |-> 0]
    /\ payStatus      = [i \in Invoices |-> "unpaid"]
    /\ payment   = [p \in Payments |-> "absent"]
    /\ alloc     = [p \in Payments |-> Nothing]
    /\ booked    = [p \in Payments |-> Nothing]
    /\ note      = [c \in Notes |-> "absent"]
    /\ source    = [c \in Notes |-> NoOne]
    /\ credit    = [c \in Notes |-> 0]
    /\ settled   = [c \in Notes |-> 0]
    /\ overwritten = {}
    /\ rowLock   = [x \in Rows |-> NoOne]
    /\ reversing = NoOne
    /\ req       = [w \in Workers |-> Idle]

-----------------------------------------------------------------------------
(* Reads and computations shared by the handlers.                           *)

Free(x) == rowLock[x] = NoOne

\* The row locks and the reversal number go when the transaction of w ends.
KeptBy(w) == rowLock
ReleasedBy(w) == [x \in Rows |-> IF rowLock[x] = w THEN NoOne ELSE rowLock[x]]

NumberReleasedBy(w) == IF reversing = w THEN NoOne ELSE reversing

View(i) == [paid |-> amountPaid[i], credited |-> amountCredited[i],
            payStatus |-> payStatus[i]]

Settles(a) == {i \in Invoices : a[i] > 0}

\* payment_status as _recompute_settlement sets it.
LatePaidStatus(i, paid, credited) ==
    CASE paid + credited = 0            -> "unpaid"
      [] 0 < paid + credited /\ paid + credited <= Total[i] -> "partial"
      [] paid > Total[i]                -> "paid"
      [] OTHER                          -> "credited"

SettlementStatus(i, paid, credited) ==
    CASE paid + credited = 0            -> "unpaid"
      [] 0 < paid + credited /\ paid + credited < Total[i] -> "partial"
      [] paid + credited >= Total[i] /\ paid >= Total[i]   -> "paid"
      [] OTHER                          -> "credited"

\* payment_status once a request that had read `seen` has stored these amounts:
\* a column is written only when it differs from the value that was read.
StatusStored(i, seen, paid, credited) ==
    IF SettlementStatus(i, paid, credited) # seen.payStatus
    THEN SettlementStatus(i, paid, credited)
    ELSE payStatus[i]

\* The check of _build_allocations: the invoices are finalized and the
\* allocations fit in what has not been paid.
UnboundedAllocation(a) == \A i \in Settles(a) : status[i] = "sent"

AllocationAllowed(a) ==
    \A i \in Settles(a) :
        status[i] = "sent" /\ a[i] <= Total[i] - amountPaid[i]

ActiveNotes(i) == {c \in Notes : source[c] = i /\ note[c] \in {"draft", "sent"}}

\* A submitted payment whose status is read, not locked, may be submitted again.
NeverLocked(p) == TRUE
PaymentFree(p) == Free(p)

\* The draft check of update and delete.
NotCancelled(p) == payment[p] \in {"draft", "submitted"}
IsDraft(p) == payment[p] = "draft"

\* What void asks of an invoice (its documents and its payments).
UnusedInvoice(i) == ActiveNotes(i) = {}
InvoiceVoidable(i) == ActiveNotes(i) = {} /\ amountPaid[i] = 0

\* amount_credited after a credit note of amount a is reversed.
CreditKept(seen, a) == seen.credited
CreditTakenFromPaid(seen, a) == seen.paid - a
CreditReversed(seen, a) == IF seen.credited > a THEN seen.credited - a ELSE 0

\* amount_paid after an allocation of amount a is taken back.
PaidReduced(seen, a) == IF seen.paid > a THEN seen.paid - a ELSE 0

-----------------------------------------------------------------------------
(* Drafting payments.                                                       *)

Create(p, a) ==
    /\ payment[p] = "absent"
    /\ AllocationAllowed(a)
    /\ payment' = [payment EXCEPT ![p] = "draft"]
    /\ alloc'   = [alloc EXCEPT ![p] = a]
    /\ UNCHANGED <<invoiceVars, booked, noteVars, lockVars, req>>

\* update: the draft check and the allocation check are on unlocked reads.  One
\* edit of a payment is in flight at a time (see DocumentFlow).
EditRead(w, p, a) ==
    /\ req[w].step = "idle"
    /\ IsDraft(p)
    /\ AllocationAllowed(a)
    /\ \A u \in Workers : ~ (req[u].step = "edit_write" /\ req[u].row = p)
    /\ req' = [req EXCEPT ![w] = [Idle EXCEPT !.step = "edit_write", !.row = p,
                                              !.new = a]]
    /\ UNCHANGED <<invoiceVars, paymentVars, noteVars, lockVars>>

EditWrite(w) ==
    LET p == req[w].row IN
    /\ req[w].step = "edit_write"
    /\ payment[p] # "deleted"
    /\ Free(p)
    /\ alloc' = [alloc EXCEPT ![p] = req[w].new]
    /\ req'   = [req EXCEPT ![w] = Idle]
    /\ UNCHANGED <<invoiceVars, payment, booked, noteVars, lockVars>>

DeleteRead(w, p) ==
    /\ req[w].step = "idle"
    /\ IsDraft(p)
    /\ req' = [req EXCEPT ![w] = [Idle EXCEPT !.step = "delete_write", !.row = p]]
    /\ UNCHANGED <<invoiceVars, paymentVars, noteVars, lockVars>>

\* The row and its allocations go, whatever the payment has become.
DeleteWrite(w) ==
    LET p == req[w].row IN
    /\ req[w].step = "delete_write"
    /\ Free(p)
    /\ payment' = [payment EXCEPT ![p] = "deleted"]
    /\ alloc'   = [alloc EXCEPT ![p] = Nothing]
    /\ req'     = [req EXCEPT ![w] = Idle]
    /\ UNCHANGED <<invoiceVars, booked, noteVars, lockVars>>

-----------------------------------------------------------------------------
(* Submitting and cancelling payments.                                      *)

SubmitLock(w, p) ==
    /\ req[w].step = "idle"
    /\ PaymentFree(p)
    /\ payment[p] = "draft"
    /\ rowLock' = [rowLock EXCEPT ![p] = w]
    /\ req' = [req EXCEPT ![w] = [Idle EXCEPT !.step = "submit_settle", !.row = p]]
    /\ UNCHANGED <<invoiceVars, paymentVars, noteVars, reversing>>

\* Lock the invoices, check the allocations again, settle, post, commit.
SubmitSettle(w) ==
    LET p == req[w].row
        a == alloc[p] IN
    /\ req[w].step = "submit_settle"
    /\ \A i \in Settles(a) : Free(i)
    /\ AllocationAllowed(a)
    /\ amountPaid' = [i \in Invoices |-> amountPaid[i] + a[i]]
    /\ payStatus'  = [i \in Invoices |->
                        IF i \in Settles(a)
                        THEN SettlementStatus(i, amountPaid[i] + a[i], amountCredited[i])
                        ELSE payStatus[i]]
    /\ payment'    = [payment EXCEPT ![p] = "submitted"]
    /\ booked'     = [booked EXCEPT ![p] = a]
    /\ rowLock'    = ReleasedBy(w)
    /\ req'        = [req EXCEPT ![w] = Idle]
    /\ UNCHANGED <<status, amountCredited, alloc, noteVars, reversing>>

\* A draft is cancelled at once; nothing was settled.
CancelDraft(p) ==
    /\ Free(p)
    /\ payment[p] = "draft"
    /\ payment' = [payment EXCEPT ![p] = "cancelled"]
    /\ UNCHANGED <<invoiceVars, alloc, booked, noteVars, lockVars, req>>

CancelLock(w, p) ==
    /\ req[w].step = "idle"
    /\ PaymentFree(p)
    /\ payment[p] = "submitted"
    /\ rowLock' = [rowLock EXCEPT ![p] = w]
    /\ req' = [req EXCEPT ![w] = [Idle EXCEPT !.step = "cancel_read", !.row = p]]
    /\ UNCHANGED <<invoiceVars, paymentVars, noteVars, reversing>>

\* Post the reversal, then read the invoices without a lock.
CancelRead(w) ==
    LET a == alloc[req[w].row] IN
    /\ req[w].step = "cancel_read"
    /\ reversing = NoOne
    /\ \A i \in Settles(a) : a[i] <= amountPaid[i]
    /\ reversing' = w
    /\ req' = [req EXCEPT ![w].step = "cancel_write",
                          ![w].seen = [i \in Invoices |-> View(i)]]
    /\ UNCHANGED <<invoiceVars, paymentVars, noteVars, rowLock>>

CancelWrite(w) ==
    LET p == req[w].row
        a == alloc[p]
        seen == req[w].seen IN
    /\ req[w].step = "cancel_write"
    /\ \A i \in Settles(a) : Free(i)
    /\ amountPaid' = [i \in Invoices |->
                        IF i \in Settles(a) THEN PaidReduced(seen[i], a[i])
                                            ELSE amountPaid[i]]
    /\ payStatus'  = [i \in Invoices |->
                        IF i \in Settles(a)
                        THEN StatusStored(i, seen[i], PaidReduced(seen[i], a[i]),
                                          seen[i].credited)
                        ELSE payStatus[i]]
    /\ payment'    = [payment EXCEPT ![p] = "cancelled"]
    /\ booked'     = [booked EXCEPT ![p] = Nothing]
    /\ rowLock'    = ReleasedBy(w)
    /\ reversing'  = NumberReleasedBy(w)
    /\ req'        = [req EXCEPT ![w] = Idle]
    /\ UNCHANGED <<status, amountCredited, alloc, noteVars>>

-----------------------------------------------------------------------------
(* Credit notes.                                                            *)

\* convert: an invoice has one active note at a time.  The note has the invoice's
\* lines and today's taxes, so it may come to another amount.
DraftNote(c, i, a) ==
    /\ note[c] = "absent"
    /\ Free(i)
    /\ status[i] = "sent"
    /\ ActiveNotes(i) = {}
    /\ note'   = [note EXCEPT ![c] = "draft"]
    /\ source' = [source EXCEPT ![c] = i]
    /\ credit' = [credit EXCEPT ![c] = a]
    /\ UNCHANGED <<invoiceVars, paymentVars, settled, overwritten, lockVars, req>>

\* update and delete of a note: the draft check is on an unlocked read ...
NoteEditRead(w, c) ==
    /\ req[w].step = "idle"
    /\ note[c] = "draft"
    /\ req' = [req EXCEPT ![w] = [Idle EXCEPT !.step = "note_edit_write", !.row = c]]
    /\ UNCHANGED <<invoiceVars, paymentVars, noteVars, lockVars>>

NoteDeleteRead(w, c) ==
    /\ req[w].step = "idle"
    /\ note[c] = "draft"
    /\ req' = [req EXCEPT ![w] = [Idle EXCEPT !.step = "note_delete_write", !.row = c]]
    /\ UNCHANGED <<invoiceVars, paymentVars, noteVars, lockVars>>

\* ... and the write is made whatever the note has become: its total changes, or its
\* row goes and what finalize credited with it stays.
NoteEditWrite(w, a) ==
    LET c == req[w].row IN
    /\ req[w].step = "note_edit_write"
    /\ note[c] # "deleted"
    /\ Free(c)
    /\ credit' = [credit EXCEPT ![c] = a]
    /\ overwritten' = IF note[c] = "sent" THEN overwritten \cup {c} ELSE overwritten
    /\ req' = [req EXCEPT ![w] = Idle]
    /\ UNCHANGED <<invoiceVars, paymentVars, note, source, settled, lockVars>>

NoteDeleteWrite(w) ==
    LET c == req[w].row IN
    /\ req[w].step = "note_delete_write"
    /\ Free(c)
    /\ note'   = [note EXCEPT ![c] = "deleted"]
    /\ credit' = [credit EXCEPT ![c] = 0]
    /\ overwritten' = overwritten \ {c}
    /\ req'    = [req EXCEPT ![w] = Idle]
    /\ UNCHANGED <<invoiceVars, paymentVars, source, settled, lockVars>>

\* finalize: lock the note; the guard on its source reads the invoice unlocked.
CreditRead(w, c) ==
    /\ req[w].step = "idle"
    /\ Free(c)
    /\ note[c] = "draft"
    /\ status[source[c]] = "sent"
    /\ rowLock' = [rowLock EXCEPT ![c] = w]
    /\ req' = [req EXCEPT ![w] = [Idle EXCEPT !.step = "credit_write", !.row = c,
                                    !.seen = [i \in Invoices |-> View(i)]]]
    /\ UNCHANGED <<invoiceVars, paymentVars, noteVars, reversing>>

\* The check of _apply_credit, on the values CreditRead left in the session.
CreditAllowed(c, seen) == credit[c] <= Total[source[c]] - seen.paid - seen.credited

\* Lock the invoice, credit it, post, commit.
CreditWrite(w) ==
    LET c == req[w].row
        i == source[c]
        seen == req[w].seen[i] IN
    /\ req[w].step = "credit_write"
    /\ Free(i)
    /\ CreditAllowed(c, seen)
    /\ amountCredited' = [amountCredited EXCEPT ![i] = seen.credited + credit[c]]
    /\ payStatus' = [payStatus EXCEPT ![i] =
                       StatusStored(i, seen, seen.paid, seen.credited + credit[c])]
    /\ note'      = [note EXCEPT ![c] = "sent"]
    /\ settled'   = [settled EXCEPT ![c] = credit[c]]
    /\ rowLock'   = ReleasedBy(w)
    /\ req'       = [req EXCEPT ![w] = Idle]
    /\ UNCHANGED <<status, amountPaid, paymentVars, source, credit, overwritten,
                   reversing>>

\* void of a note: lock it, read the invoice unlocked.
UncreditRead(w, c) ==
    /\ req[w].step = "idle"
    /\ Free(c)
    /\ note[c] = "sent"
    /\ rowLock' = [rowLock EXCEPT ![c] = w]
    /\ req' = [req EXCEPT ![w] = [Idle EXCEPT !.step = "uncredit_write", !.row = c,
                                    !.seen = [i \in Invoices |-> View(i)]]]
    /\ UNCHANGED <<invoiceVars, paymentVars, noteVars, reversing>>

\* The savepoint of the reversal's number flushes the invoice's new amounts: from
\* here the transaction holds the invoice's row ...
UncreditWrite(w) ==
    LET i == source[req[w].row] IN
    /\ req[w].step = "uncredit_write"
    /\ Free(i)
    /\ rowLock' = [rowLock EXCEPT ![i] = w]
    /\ req' = [req EXCEPT ![w].step = "uncredit_commit"]
    /\ UNCHANGED <<invoiceVars, paymentVars, noteVars, reversing>>

\* ... and may have to wait for the number.
UncreditCommit(w) ==
    LET c == req[w].row
        i == source[c]
        seen == req[w].seen[i]
        left == CreditReversed(seen, settled[c]) IN
    /\ req[w].step = "uncredit_commit"
    /\ reversing = NoOne
    /\ amountCredited' = [amountCredited EXCEPT ![i] = left]
    /\ payStatus' = [payStatus EXCEPT ![i] = StatusStored(i, seen, seen.paid, left)]
    /\ note'      = [note EXCEPT ![c] = "void"]
    /\ settled'   = [settled EXCEPT ![c] = 0]
    /\ overwritten' = overwritten \ {c}
    /\ rowLock'   = ReleasedBy(w)
    /\ req'       = [req EXCEPT ![w] = Idle]
    /\ UNCHANGED <<status, amountPaid, paymentVars, source, credit, reversing>>

-----------------------------------------------------------------------------
(* Voiding an invoice.                                                      *)

VoidLock(w, i) ==
    /\ req[w].step = "idle"
    /\ Free(i)
    /\ status[i] = "sent"
    /\ InvoiceVoidable(i)
    /\ rowLock' = [rowLock EXCEPT ![i] = w]
    /\ req' = [req EXCEPT ![w] = [Idle EXCEPT !.step = "void_commit", !.row = i]]
    /\ UNCHANGED <<invoiceVars, paymentVars, noteVars, reversing>>

VoidCommit(w) ==
    /\ req[w].step = "void_commit"
    /\ reversing = NoOne
    /\ status'  = [status EXCEPT ![req[w].row] = "void"]
    /\ rowLock' = ReleasedBy(w)
    /\ req'     = [req EXCEPT ![w] = Idle]
    /\ UNCHANGED <<amountPaid, amountCredited, payStatus, paymentVars, noteVars,
                   reversing>>

-----------------------------------------------------------------------------
(* Requests that fail.                                                      *)

Rollback(w) ==
    /\ rowLock'   = ReleasedBy(w)
    /\ reversing' = NumberReleasedBy(w)
    /\ req'       = [req EXCEPT ![w] = Idle]
    /\ UNCHANGED <<invoiceVars, paymentVars, noteVars>>

\* A check fails on what the request reads, or the row it writes is gone.
Refuse(w) ==
    LET x == req[w].row IN
    /\ \/ /\ req[w].step = "submit_settle"
          /\ \A i \in Settles(alloc[x]) : Free(i)
          /\ ~ AllocationAllowed(alloc[x])
       \/ /\ req[w].step = "cancel_read" /\ reversing = NoOne
          /\ \E i \in Settles(alloc[x]) : alloc[x][i] > amountPaid[i]
       \/ /\ req[w].step = "credit_write" /\ Free(source[x])
          /\ ~ CreditAllowed(x, req[w].seen[source[x]])
       \/ req[w].step = "edit_write" /\ payment[x] = "deleted"
       \/ req[w].step = "note_edit_write" /\ note[x] = "deleted"
    /\ Rollback(w)

\* Any request may fail for a reason left out here, or crash, before it commits.
Abort(w) ==
    /\ req[w].step # "idle"
    /\ Rollback(w)

\* u has posted a reversal and waits for an invoice's row; v holds that row and
\* waits for a reversal number.  Postgres ends one of the two.
Deadlocked(u, v) ==
    /\ req[u].step = "cancel_write" /\ reversing = u
    /\ req[v].step \in {"uncredit_commit", "void_commit"}
    /\ \E i \in Settles(alloc[req[u].row]) : rowLock[i] = v

BreakDeadlock(w) ==
    /\ \E u \in Workers : Deadlocked(u, w) \/ Deadlocked(w, u)
    /\ Rollback(w)

-----------------------------------------------------------------------------
Begin(w) ==
    \/ \E p \in Payments :
          \/ SubmitLock(w, p) \/ CancelLock(w, p) \/ DeleteRead(w, p)
          \/ \E a \in Allocations : EditRead(w, p, a)
    \/ \E c \in Notes :
          \/ CreditRead(w, c) \/ UncreditRead(w, c)
          \/ NoteEditRead(w, c) \/ NoteDeleteRead(w, c)
    \/ \E i \in Invoices : VoidLock(w, i)

Continue(w) ==
    \/ SubmitSettle(w) \/ CancelRead(w) \/ CancelWrite(w)
    \/ EditWrite(w) \/ DeleteWrite(w)
    \/ (\E a \in CreditAmounts : NoteEditWrite(w, a)) \/ NoteDeleteWrite(w)
    \/ CreditWrite(w) \/ UncreditWrite(w) \/ UncreditCommit(w)
    \/ VoidCommit(w)

Next ==
    \/ \E w \in Workers :
          Begin(w) \/ Continue(w) \/ Refuse(w) \/ Abort(w) \/ BreakDeadlock(w)
    \/ \E p \in Payments, a \in Allocations : Create(p, a)
    \/ \E p \in Payments : CancelDraft(p)
    \/ \E c \in Notes, i \in Invoices, a \in CreditAmounts : DraftNote(c, i, a)

Spec == Init /\ [][Next]_vars

\* The deadlock detector always runs; a request that can go on goes on.
Fairness ==
    /\ \A w \in Workers : SF_vars(Continue(w) \/ Refuse(w))
    /\ \A u \in Workers : WF_vars(BreakDeadlock(u))

FairSpec == Spec /\ Fairness

-----------------------------------------------------------------------------
(* The schedules on which the unlocked reads of invoices and payments do no   *)
(* harm: what a request has read of them is still so when it writes.  An edit  *)
(* of a credit note may be overtaken: no calm property rests on it.           *)

Reads(w) ==
    CASE req[w].step = "cancel_write" -> Settles(alloc[req[w].row])
      [] req[w].step \in {"credit_write", "uncredit_write", "uncredit_commit"}
                                      -> {source[req[w].row]}
      [] OTHER                        -> {}

FreshReads ==
    \A w \in Workers :
        /\ \A i \in Reads(w) : req[w].seen[i] = View(i)
        /\ req[w].step \in {"edit_write", "delete_write"} =>
              IsDraft(req[w].row) /\ Free(req[w].row)

CalmSpec == Init /\ [][Next /\ FreshReads']_vars

-----------------------------------------------------------------------------
(* Safety, however requests interleave.                                     *)

\* No more money is recorded on an invoice than it amounts to (submit checks the
\* balance again under the row lock).
PaidWithinTotal == \A i \in Invoices : amountPaid[i] <= Total[i]

\* amount_credited is what the invoice's notes credited at their finalize and no
\* void took back: a voided note leaves nothing behind, none counts twice, and only
\* a note deleted by a request that had seen the draft leaves its credit without
\* itself.  What a finalized note credited is what it comes to, unless an update
\* that had seen the draft wrote it afterwards.
CreditedIsNotes ==
    /\ \A i \in Invoices :
          amountCredited[i] = MapThenSumSet(LAMBDA c : settled[c],
                                            {c \in Notes : source[c] = i})
    /\ \A c \in Notes :
          /\ settled[c] # 0 => note[c] \in {"sent", "deleted"}
          /\ note[c] = "sent" /\ c \notin overwritten => settled[c] = credit[c]

-----------------------------------------------------------------------------
(* Safety on calm schedules.                                                *)

\* amount_paid is what the books say was received for the invoice: submitting
\* adds the allocation, cancelling takes it back, neither twice.
PaidIsBooked ==
    \A i \in Invoices :
        amountPaid[i] = MapThenSumSet(LAMBDA p : booked[p][i], Payments)

\* The books hold the allocations of submitted payments and of no other.
BooksMatchPayments ==
    \A p \in Payments :
        booked[p] = IF payment[p] = "submitted" THEN alloc[p] ELSE Nothing

\* A submitted payment settles no voided invoice: its payment must be cancelled
\* first.
PaidInvoiceStands ==
    \A p \in Payments, i \in Invoices :
        payment[p] = "submitted" /\ alloc[p][i] > 0 => status[i] = "sent"

\* payment_status says how far the amounts settle the invoice.
StatusTellsSettlement ==
    \A i \in Invoices :
        LET paidOff == amountPaid[i] + amountCredited[i] IN
        /\ payStatus[i] = "unpaid"  <=> paidOff = 0
        /\ payStatus[i] = "partial" <=> paidOff > 0 /\ paidOff < Total[i]
        /\ payStatus[i] = "paid"    <=> amountPaid[i] >= Total[i]

-----------------------------------------------------------------------------
(* What the documentation says and the code does not keep.                  *)

\* "an unlocked read here lets both commit against a stale balance": a credit is
\* given only for what is still owed.
CreditFitsBalance ==
    [][\A i \in Invoices :
          amountCredited'[i] > amountCredited[i] =>
              amountPaid[i] + amountCredited'[i] <= Total[i]]_vars

\* "No hard delete of a submitted payment".
SubmittedIsNotDeleted ==
    [][\A p \in Payments :
          payment[p] = "submitted" => payment'[p] # "deleted"]_vars

-----------------------------------------------------------------------------
(* Liveness.                                                                *)

\* Every request ends, through a deadlock between a cancelled payment and a
\* voided credit note of the same invoice included.
EveryRequestEnds == \A w \in Workers : req[w].step # "idle" ~> req[w].step = "idle"

=============================================================================
