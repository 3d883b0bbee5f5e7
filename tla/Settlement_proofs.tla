--------------------------- MODULE Settlement_proofs ---------------------------
(***************************************************************************)
(* Proofs about Settlement, for any invoices, payments and credit notes and   *)
(* any number of requests at the same time.  What holds on every schedule     *)
(* rests on SettleIInv; what holds when the unlocked reads are fresh, on       *)
(* CalmIInv.                                                                 *)
(***************************************************************************)
EXTENDS Settlement, Sums_proofs

USE NoOneAssumption

\* The steps that work under the lock of their row.
LockedSteps == {"submit_settle", "cancel_read", "cancel_write", "credit_write",
                "uncredit_write", "uncredit_commit", "void_commit"}

\* Requests are on rows of their kind, and have locked them.
RowsAreHeld ==
    \A w \in Workers :
        LET x == req[w].row IN
        /\ req[w].step \in LockedSteps => rowLock[x] = w
        /\ req[w].step \in {"submit_settle", "cancel_read", "cancel_write", "edit_write",
                            "delete_write"} => x \in Payments
        /\ req[w].step \in {"credit_write", "uncredit_write", "uncredit_commit",
                            "note_edit_write", "note_delete_write"} => x \in Notes
        /\ req[w].step = "void_commit" => x \in Invoices

SeenWithinTotal == \A w \in Workers, i \in Invoices : req[w].seen[i].paid <= Total[i]

\* An invoice has one active note, and it is the invoice's for good.
OneActiveNote ==
    /\ \A c \in Notes : note[c] # "absent" <=> source[c] \in Invoices
    /\ \A i \in Invoices, c, e \in Notes : {c, e} \subseteq ActiveNotes(i) => c = e

NotesOf(i) == {c \in Notes : source[c] = i}

\* An invoice is credited with what its finalized notes credited, and those that
\* were deleted after their finalize; no other note has credited anything.
CreditIsNote ==
    /\ \A i \in Invoices : amountCredited[i] = SumOf(settled, NotesOf(i))
    /\ \A c \in Notes :
          /\ settled[c] # 0 => note[c] \in {"sent", "deleted"}
          /\ note[c] = "sent" /\ c \notin overwritten => settled[c] = credit[c]

\* The note that a request has locked is what it was when it read the invoice; one
\* that is edited or deleted without a lock has been drafted.
CreditsAreRead ==
    \A w \in Workers :
        LET c == req[w].row IN
        /\ req[w].step \in {"note_edit_write", "note_delete_write"} => note[c] # "absent"
        /\ req[w].step = "credit_write" => note[c] = "draft"
        /\ req[w].step \in {"uncredit_write", "uncredit_commit"} => note[c] = "sent"
        /\ req[w].step \in {"credit_write", "uncredit_write", "uncredit_commit"} =>
              req[w].seen[source[c]].credited = amountCredited[source[c]]

SettleIInv ==
    /\ TypeOK
    /\ RowsAreHeld
    /\ PaidWithinTotal /\ SeenWithinTotal
    /\ OneActiveNote /\ CreditIsNote /\ CreditsAreRead

-----------------------------------------------------------------------------
\* A payment, or an invoice to be voided, that a request has locked is still what
\* the request found.
LockedRowsStand ==
    \A w \in Workers :
        LET x == req[w].row IN
        /\ req[w].step = "submit_settle" => payment[x] = "draft"
        /\ req[w].step \in {"cancel_read", "cancel_write"} => payment[x] = "submitted"
        /\ req[w].step = "void_commit" => amountPaid[x] = 0

StatusIsComputed ==
    \A i \in Invoices :
        payStatus[i] = SettlementStatus(i, amountPaid[i], amountCredited[i])

\* What the vouchers of each payment settle on invoice i.
BookedOn(i) == [p \in Payments |-> booked[p][i]]

BooksIInv ==
    /\ LockedRowsStand
    /\ \A i \in Invoices : amountPaid[i] = SumOf(BookedOn(i), Payments)
    /\ BooksMatchPayments
    /\ PaidInvoiceStands
    /\ StatusIsComputed

CalmIInv == SettleIInv /\ FreshReads /\ BooksIInv

-----------------------------------------------------------------------------
(* Type correctness.                                                        *)

LEMMA IdleIsRequest ==
  /\ Idle \in Requests /\ Idle.step = "idle" /\ Idle.row = NoOne
  /\ \A i \in Invoices : Idle.seen[i].paid = 0
  BY DEF Idle, Requests, Steps, Rows, Views, PayStatuses, Nothing

LEMMA RequestsType ==
  ASSUME TypeOK, NEW w \in Workers
  PROVE  /\ req[w] \in Requests
         /\ req[w].step \in Steps /\ req[w].row \in Rows \cup {NoOne}
         /\ req[w].seen \in [Invoices -> Views] /\ req[w].new \in [Invoices -> Nat]
         /\ \A i \in Invoices : req[w].seen[i].paid \in Nat /\ req[w].seen[i].credited \in Nat
  BY DEF TypeOK, Requests, Views

LEMMA ViewsType ==
  ASSUME TypeOK
  PROVE  /\ [i \in Invoices |-> View(i)] \in [Invoices -> Views]
         /\ \A i \in Invoices : View(i).paid = amountPaid[i] /\ View(i).credited = amountCredited[i]
                                /\ View(i).payStatus = payStatus[i]
  BY DEF TypeOK, View, Views

LEMMA StatusType ==
  \A i, p, c : SettlementStatus(i, p, c) \in PayStatuses
  BY DEF SettlementStatus, PayStatuses

LEMMA LocksType ==
  ASSUME TypeOK, NEW w \in Workers
  PROVE  /\ ReleasedBy(w) \in [Rows -> Workers \cup {NoOne}]
         /\ NumberReleasedBy(w) \in Workers \cup {NoOne}
         /\ \A x \in Rows : [rowLock EXCEPT ![x] = w] \in [Rows -> Workers \cup {NoOne}]
  BY DEF TypeOK, ReleasedBy, NumberReleasedBy

\* What the rows of the database are after a step that only begins, goes on with or
\* gives up a request.
OnlyRequests == UNCHANGED <<invoiceVars, paymentVars, noteVars>>

\* Starting, going on with or ending a request keeps the requests well formed.
LEMMA RequestsKeepTheirType ==
  ASSUME TypeOK, NEW w \in Workers, NEW r \in Requests, req' = [req EXCEPT ![w] = r]
  PROVE  /\ req' \in [Workers -> Requests]
         /\ req'[w] = r /\ \A u \in Workers : u # w => req'[u] = req[u]
  BY DEF TypeOK

\* What a request is when it has begun.
Begun(w, r) ==
    /\ r \in Requests
    /\ req' = [req EXCEPT ![w] = r]
    /\ req[w].step = "idle"
    /\ OnlyRequests /\ UNCHANGED reversing
    /\ r.step \in {"submit_settle", "cancel_read", "credit_write", "uncredit_write",
                   "void_commit", "edit_write", "delete_write", "note_edit_write",
                   "note_delete_write"}
    /\ r.step \in {"submit_settle", "cancel_read", "edit_write", "delete_write"}
          => r.row \in Payments
    /\ r.step \in {"credit_write", "uncredit_write", "note_edit_write", "note_delete_write"}
          => r.row \in Notes
    /\ r.step = "void_commit" => r.row \in Invoices
    /\ IF r.step \in LockedSteps
       THEN Free(r.row) /\ rowLock' = [rowLock EXCEPT ![r.row] = w]
       ELSE UNCHANGED rowLock
    /\ r.seen = [i \in Invoices |-> View(i)] \/ r.seen = Idle.seen
    /\ r.step \in {"credit_write", "uncredit_write"} => r.seen = [i \in Invoices |-> View(i)]
    /\ r.step = "submit_settle" => payment[r.row] = "draft"
    /\ r.step = "cancel_read" => payment[r.row] = "submitted"
    /\ r.step \in {"credit_write", "note_edit_write", "note_delete_write"}
          => note[r.row] = "draft"
    /\ r.step = "uncredit_write" => note[r.row] = "sent"
    /\ r.step = "void_commit" => amountPaid[r.row] = 0

LEMMA BeginsAreBegun ==
  ASSUME TypeOK, NEW w \in Workers, Begin(w) PROVE \E r : Begun(w, r)
<1> USE IdleIsRequest, ViewsType DEF Begun, OnlyRequests, Requests, Steps, Rows, LockedSteps
<1>1. ASSUME NEW p \in Payments, SubmitLock(w, p) PROVE \E r : Begun(w, r)
  <2> DEFINE r == [Idle EXCEPT !.step = "submit_settle", !.row = p]
  <2>1. Begun(w, r)
    BY <1>1 DEF SubmitLock, PaymentFree, Idle
  <2> HIDE DEF r
  <2> QED BY <2>1
<1>2. ASSUME NEW p \in Payments, CancelLock(w, p) PROVE \E r : Begun(w, r)
  <2> DEFINE r == [Idle EXCEPT !.step = "cancel_read", !.row = p]
  <2>1. Begun(w, r)
    BY <1>2 DEF CancelLock, PaymentFree, Idle
  <2> HIDE DEF r
  <2> QED BY <2>1
<1>3. ASSUME NEW p \in Payments, DeleteRead(w, p) PROVE \E r : Begun(w, r)
  <2> DEFINE r == [Idle EXCEPT !.step = "delete_write", !.row = p]
  <2>1. Begun(w, r)
    BY <1>3 DEF DeleteRead, Idle, lockVars
  <2> HIDE DEF r
  <2> QED BY <2>1
<1>4. ASSUME NEW p \in Payments, NEW a \in Allocations, EditRead(w, p, a)
      PROVE  \E r : Begun(w, r)
  <2> DEFINE r == [Idle EXCEPT !.step = "edit_write", !.row = p, !.new = a]
  <2>1. Begun(w, r)
    BY <1>4, AllocationsAssumption DEF EditRead, Idle, lockVars
  <2> HIDE DEF r
  <2> QED BY <2>1
<1>5. ASSUME NEW c \in Notes, CreditRead(w, c) PROVE \E r : Begun(w, r)
  <2> DEFINE r == [Idle EXCEPT !.step = "credit_write", !.row = c,
                               !.seen = [i \in Invoices |-> View(i)]]
  <2>1. Begun(w, r)
    BY <1>5 DEF CreditRead, Idle
  <2> HIDE DEF r
  <2> QED BY <2>1
<1>6. ASSUME NEW c \in Notes, UncreditRead(w, c) PROVE \E r : Begun(w, r)
  <2> DEFINE r == [Idle EXCEPT !.step = "uncredit_write", !.row = c,
                               !.seen = [i \in Invoices |-> View(i)]]
  <2>1. Begun(w, r)
    BY <1>6 DEF UncreditRead, Idle
  <2> HIDE DEF r
  <2> QED BY <2>1
<1>7. ASSUME NEW i \in Invoices, VoidLock(w, i) PROVE \E r : Begun(w, r)
  <2> DEFINE r == [Idle EXCEPT !.step = "void_commit", !.row = i]
  <2>1. Begun(w, r)
    BY <1>7 DEF VoidLock, InvoiceVoidable, Idle
  <2> HIDE DEF r
  <2> QED BY <2>1
<1>8. ASSUME NEW c \in Notes, NoteEditRead(w, c) PROVE \E r : Begun(w, r)
  <2> DEFINE r == [Idle EXCEPT !.step = "note_edit_write", !.row = c]
  <2>1. Begun(w, r)
    BY <1>8 DEF NoteEditRead, Idle, lockVars
  <2> HIDE DEF r
  <2> QED BY <2>1
<1>9. ASSUME NEW c \in Notes, NoteDeleteRead(w, c) PROVE \E r : Begun(w, r)
  <2> DEFINE r == [Idle EXCEPT !.step = "note_delete_write", !.row = c]
  <2>1. Begun(w, r)
    BY <1>9 DEF NoteDeleteRead, Idle, lockVars
  <2> HIDE DEF r
  <2> QED BY <2>1
<1> QED
  BY <1>1, <1>2, <1>3, <1>4, <1>5, <1>6, <1>7, <1>8, <1>9 DEF Begin

\* The other reads: of a cancelled payment's invoices, of a voided note's.
WentOn(w, r) ==
    /\ r \in Requests
    /\ req' = [req EXCEPT ![w] = r]
    /\ OnlyRequests
    /\ r.row = req[w].row
    /\ \/ /\ req[w].step = "cancel_read" /\ r.step = "cancel_write"
          /\ r.seen = [i \in Invoices |-> View(i)]
          /\ reversing' = w /\ UNCHANGED rowLock
       \/ /\ req[w].step = "uncredit_write" /\ r.step = "uncredit_commit"
          /\ r.seen = req[w].seen
          /\ Free(source[r.row]) /\ rowLock' = [rowLock EXCEPT ![source[r.row]] = w]
          /\ UNCHANGED reversing

LEMMA ReadsGoOn ==
  ASSUME TypeOK, NEW w \in Workers, CancelRead(w) \/ UncreditWrite(w) PROVE \E r : WentOn(w, r)
<1> USE RequestsType, ViewsType DEF WentOn, OnlyRequests
<1>1. CASE CancelRead(w)
  <2> DEFINE r == [req[w] EXCEPT !.step = "cancel_write", !.seen = [i \in Invoices |-> View(i)]]
  <2>1. r \in Requests /\ r.step = "cancel_write" /\ r.row = req[w].row
        /\ r.seen = [i \in Invoices |-> View(i)]
    BY DEF Requests, Steps
  <2>2. WentOn(w, r)
    BY <1>1, <2>1 DEF CancelRead
  <2> HIDE DEF r
  <2> QED BY <2>2
<1>2. CASE UncreditWrite(w)
  <2> DEFINE r == [req[w] EXCEPT !.step = "uncredit_commit"]
  <2>1. r \in Requests /\ r.step = "uncredit_commit" /\ r.row = req[w].row
        /\ r.seen = req[w].seen
    BY DEF Requests, Steps
  <2>2. WentOn(w, r)
    BY <1>2, <2>1 DEF UncreditWrite
  <2> HIDE DEF r
  <2> QED BY <2>2
<1> QED
  BY <1>1, <1>2

-----------------------------------------------------------------------------
(* What holds on every schedule.                                             *)

\* A request that ends gives up its locks, and the other requests go on.
Ended(w) == req' = [req EXCEPT ![w] = Idle] /\ rowLock' = ReleasedBy(w)

LEMMA EndingKeepsRequests ==
  ASSUME SettleIInv, NEW w \in Workers, Ended(w)
  PROVE  /\ req' \in [Workers -> Requests] /\ rowLock' \in [Rows -> Workers \cup {NoOne}]
         /\ req'[w] = Idle /\ \A u \in Workers : u # w => req'[u] = req[u]
         /\ RowsAreHeld' /\ SeenWithinTotal'
<1> USE DEF SettleIInv
<1>1. /\ req' \in [Workers -> Requests] /\ rowLock' \in [Rows -> Workers \cup {NoOne}]
      /\ req'[w] = Idle /\ \A u \in Workers : u # w => req'[u] = req[u]
  BY RequestsKeepTheirType, IdleIsRequest, LocksType DEF Ended
<1>2. ASSUME NEW u \in Workers, u # w, req[u].step \in LockedSteps
      PROVE  rowLock'[req[u].row] = u
  <2>1. rowLock[req[u].row] = u /\ req[u].row \in Rows
    BY <1>2 DEF RowsAreHeld, LockedSteps, Rows
  <2> QED
    BY <1>2, <2>1 DEF Ended, ReleasedBy
<1>3. RowsAreHeld'
  BY <1>1, <1>2, IdleIsRequest DEF RowsAreHeld, LockedSteps
<1>4. SeenWithinTotal'
  BY <1>1, IdleIsRequest, TotalAssumption DEF SeenWithinTotal
<1> QED
  BY <1>1, <1>3, <1>4

\* A step that writes no note and no credit, and reads none.
LEMMA CreditsStay ==
  ASSUME SettleIInv, UNCHANGED <<note, source, credit, settled, overwritten, amountCredited>>,
         \A u \in Workers : req'[u] = req[u] \/ req'[u] = Idle
  PROVE  OneActiveNote' /\ CreditIsNote' /\ CreditsAreRead'
<1>1. OneActiveNote' /\ CreditIsNote'
  BY DEF SettleIInv, OneActiveNote, CreditIsNote, ActiveNotes, NotesOf
<1>2. CreditsAreRead'
  BY IdleIsRequest DEF SettleIInv, CreditsAreRead
<1> QED
  BY <1>1, <1>2

LEMMA BegunKeepsIInv ==
  ASSUME SettleIInv, NEW w \in Workers, NEW r, Begun(w, r) PROVE SettleIInv'
<1> USE DEF SettleIInv, Begun, OnlyRequests, invoiceVars, paymentVars, noteVars
<1>1. /\ req' \in [Workers -> Requests]
      /\ req'[w] = r /\ \A u \in Workers : u # w => req'[u] = req[u]
  BY RequestsKeepTheirType
<1>2. TypeOK'
  <2>1. rowLock' \in [Rows -> Workers \cup {NoOne}]
    BY DEF TypeOK
  <2> QED
    BY <1>1, <2>1 DEF TypeOK
<1>3. RowsAreHeld'
  <2>1. r.step \in LockedSteps => r.row \in Rows /\ rowLock'[r.row] = w
    BY DEF TypeOK, LockedSteps, Rows
  <2>2. ASSUME NEW u \in Workers, u # w, req[u].step \in LockedSteps
        PROVE  rowLock'[req[u].row] = u
    <3>1. rowLock[req[u].row] = u /\ req[u].row \in Rows
      BY <2>2 DEF RowsAreHeld, LockedSteps, Rows
    <3> QED
      BY <2>1, <3>1 DEF Free, TypeOK
  <2> QED
    BY <1>1, <2>1, <2>2 DEF RowsAreHeld, LockedSteps
<1>4. PaidWithinTotal' /\ SeenWithinTotal'
  BY <1>1, ViewsType, IdleIsRequest, TotalAssumption DEF PaidWithinTotal, SeenWithinTotal
<1>5. OneActiveNote' /\ CreditIsNote'
  BY DEF OneActiveNote, CreditIsNote, ActiveNotes, NotesOf
<1>6. CreditsAreRead'
  <2>1. r.step \in {"credit_write", "uncredit_write"} =>
           r.seen[source[r.row]].credited = amountCredited[source[r.row]]
    BY ViewsType DEF OneActiveNote
  <2> QED
    BY <1>1, <2>1 DEF CreditsAreRead
<1> QED
  BY <1>2, <1>3, <1>4, <1>5, <1>6

LEMMA WentOnKeepsIInv ==
  ASSUME SettleIInv, NEW w \in Workers, NEW r, WentOn(w, r) PROVE SettleIInv'
<1> USE DEF SettleIInv, WentOn, OnlyRequests, invoiceVars, paymentVars, noteVars
<1>1. /\ req' \in [Workers -> Requests]
      /\ req'[w] = r /\ \A u \in Workers : u # w => req'[u] = req[u]
  BY RequestsKeepTheirType
<1>2. /\ r.row \in Rows /\ rowLock[r.row] = w
      /\ r.step = "cancel_write" => r.row \in Payments
      /\ r.step = "uncredit_commit" => r.row \in Notes /\ source[r.row] \in Invoices
  BY DEF RowsAreHeld, LockedSteps, Rows, CreditsAreRead, OneActiveNote
<1>3. TypeOK'
  <2>1. rowLock' \in [Rows -> Workers \cup {NoOne}]
    BY DEF TypeOK
  <2> QED
    BY <1>1, <2>1 DEF TypeOK
<1>4. RowsAreHeld'
  <2>1. rowLock'[r.row] = w
    BY <1>2 DEF Rows, TypeOK
  <2>2. ASSUME NEW u \in Workers, u # w, req[u].step \in LockedSteps
        PROVE  rowLock'[req[u].row] = u
    <3>1. rowLock[req[u].row] = u /\ req[u].row \in Rows
      BY <2>2 DEF RowsAreHeld, LockedSteps, Rows
    <3> QED
      BY <1>2, <3>1 DEF Free, TypeOK
  <2> QED
    BY <1>1, <1>2, <2>1, <2>2 DEF RowsAreHeld, LockedSteps
<1>5. PaidWithinTotal' /\ SeenWithinTotal'
  BY <1>1, ViewsType, IdleIsRequest, TotalAssumption DEF PaidWithinTotal, SeenWithinTotal
<1>6. OneActiveNote' /\ CreditIsNote'
  BY DEF OneActiveNote, CreditIsNote, ActiveNotes, NotesOf
<1>7. CreditsAreRead'
  BY <1>1 DEF CreditsAreRead
<1> QED
  BY <1>3, <1>4, <1>5, <1>6, <1>7

LEMMA RollbackKeepsIInv ==
  ASSUME SettleIInv, NEW w \in Workers, Rollback(w) PROVE SettleIInv'
<1> USE DEF SettleIInv, Rollback, invoiceVars, paymentVars, noteVars
<1>1. /\ req' \in [Workers -> Requests] /\ rowLock' \in [Rows -> Workers \cup {NoOne}]
      /\ req'[w] = Idle /\ \A u \in Workers : u # w => req'[u] = req[u]
      /\ RowsAreHeld' /\ SeenWithinTotal'
  BY EndingKeepsRequests DEF Ended
<1>2. TypeOK'
  BY <1>1, LocksType DEF TypeOK
<1>3. OneActiveNote' /\ CreditIsNote' /\ CreditsAreRead'
  BY <1>1, CreditsStay
<1> QED
  BY <1>1, <1>2, <1>3 DEF PaidWithinTotal

\* The writes of payments.
LEMMA SubmitSettleKeepsIInv ==
  ASSUME SettleIInv, NEW w \in Workers, SubmitSettle(w) PROVE SettleIInv'
<1> USE DEF SettleIInv, SubmitSettle, noteVars
<1> DEFINE p == req[w].row
           a == alloc[p]
<1>1. p \in Payments /\ a \in [Invoices -> Nat]
  BY DEF RowsAreHeld, TypeOK
<1>2. /\ req' \in [Workers -> Requests] /\ rowLock' \in [Rows -> Workers \cup {NoOne}]
      /\ req'[w] = Idle /\ \A u \in Workers : u # w => req'[u] = req[u]
      /\ RowsAreHeld' /\ SeenWithinTotal'
  BY EndingKeepsRequests DEF Ended
<1>3. \A i \in Invoices : amountPaid'[i] \in Nat /\ amountPaid'[i] <= Total[i]
  <2> SUFFICES ASSUME NEW i \in Invoices PROVE amountPaid'[i] \in Nat /\ amountPaid'[i] <= Total[i]
    OBVIOUS
  <2>1. amountPaid'[i] = amountPaid[i] + a[i] /\ a[i] \in Nat /\ amountPaid[i] \in Nat
        /\ Total[i] \in Nat /\ amountPaid[i] <= Total[i]
    BY <1>1, TotalAssumption DEF TypeOK, PaidWithinTotal
  <2>2. a[i] > 0 => a[i] <= Total[i] - amountPaid[i]
    BY DEF AllocationAllowed, Settles
  <2> QED
    BY <2>1, <2>2
<1>4. TypeOK'
  <2>1. amountPaid' \in [Invoices -> Nat] /\ payStatus' \in [Invoices -> PayStatuses]
    BY <1>3, StatusType DEF TypeOK
  <2>2. payment' \in [Payments -> PaymentStatuses] /\ booked' \in [Payments -> [Invoices -> Nat]]
    BY <1>1 DEF TypeOK, PaymentStatuses
  <2> QED
    BY <1>2, <2>1, <2>2 DEF TypeOK
<1>5. OneActiveNote' /\ CreditIsNote' /\ CreditsAreRead'
  BY <1>2, CreditsStay
<1> QED
  BY <1>2, <1>3, <1>4, <1>5 DEF PaidWithinTotal

LEMMA CancelWriteKeepsIInv ==
  ASSUME SettleIInv, NEW w \in Workers, CancelWrite(w) PROVE SettleIInv'
<1> USE DEF SettleIInv, CancelWrite, noteVars
<1> DEFINE p == req[w].row
           a == alloc[p]
           seen == req[w].seen
<1>1. p \in Payments /\ a \in [Invoices -> Nat]
      /\ \A i \in Invoices : seen[i].paid \in Nat /\ seen[i].paid <= Total[i]
  BY RequestsType DEF RowsAreHeld, TypeOK, SeenWithinTotal
<1>2. /\ req' \in [Workers -> Requests] /\ rowLock' \in [Rows -> Workers \cup {NoOne}]
      /\ req'[w] = Idle /\ \A u \in Workers : u # w => req'[u] = req[u]
      /\ RowsAreHeld' /\ SeenWithinTotal'
  BY EndingKeepsRequests DEF Ended
<1>3. \A i \in Invoices : amountPaid'[i] \in Nat /\ amountPaid'[i] <= Total[i]
  <2> SUFFICES ASSUME NEW i \in Invoices PROVE amountPaid'[i] \in Nat /\ amountPaid'[i] <= Total[i]
    OBVIOUS
  <2>1. PaidReduced(seen[i], a[i]) \in Nat /\ PaidReduced(seen[i], a[i]) <= Total[i]
    <3> DEFINE s == seen[i].paid
               b == a[i]
    <3>1. s \in Nat /\ b \in Nat /\ Total[i] \in Nat /\ s <= Total[i]
      BY <1>1, TotalAssumption
    <3>2. PaidReduced(seen[i], a[i]) = IF s > b THEN s - b ELSE 0
      BY DEF PaidReduced
    <3> HIDE DEF s, b
    <3> QED BY <3>1, <3>2
  <2>2. amountPaid'[i] = PaidReduced(seen[i], a[i]) \/ amountPaid'[i] = amountPaid[i]
    OBVIOUS
  <2> QED
    BY <2>1, <2>2 DEF TypeOK, PaidWithinTotal
<1>4. TypeOK'
  <2>1. amountPaid' \in [Invoices -> Nat] /\ payStatus' \in [Invoices -> PayStatuses]
    BY <1>3, StatusType DEF TypeOK, StatusStored
  <2>2. payment' \in [Payments -> PaymentStatuses] /\ booked' \in [Payments -> [Invoices -> Nat]]
    BY <1>1 DEF TypeOK, PaymentStatuses, Nothing
  <2> QED
    BY <1>2, <2>1, <2>2, LocksType DEF TypeOK
<1>5. OneActiveNote' /\ CreditIsNote' /\ CreditsAreRead'
  BY <1>2, CreditsStay
<1> QED
  BY <1>2, <1>3, <1>4, <1>5 DEF PaidWithinTotal

LEMMA EditWriteKeepsIInv ==
  ASSUME SettleIInv, NEW w \in Workers, EditWrite(w) \/ DeleteWrite(w) PROVE SettleIInv'
<1> USE DEF SettleIInv, invoiceVars, noteVars, lockVars
<1>1. /\ req' = [req EXCEPT ![w] = Idle] /\ req[w].new \in [Invoices -> Nat]
      /\ UNCHANGED <<invoiceVars, booked, noteVars, lockVars>>
      /\ payment' \in [Payments -> PaymentStatuses] /\ alloc' \in [Payments -> [Invoices -> Nat]]
  <2>1. CASE EditWrite(w)
    BY <2>1, RequestsType DEF EditWrite, TypeOK
  <2>2. CASE DeleteWrite(w)
    <3>1. Nothing \in [Invoices -> Nat] /\ "deleted" \in PaymentStatuses
      BY DEF Nothing, PaymentStatuses
    <3> QED
      BY <2>2, <3>1, RequestsType DEF DeleteWrite, TypeOK
  <2> QED
    BY <2>1, <2>2
<1>2. /\ req' \in [Workers -> Requests]
      /\ req'[w] = Idle /\ \A u \in Workers : u # w => req'[u] = req[u]
  BY <1>1, RequestsKeepTheirType, IdleIsRequest
<1>3. TypeOK'
  BY <1>1, <1>2 DEF TypeOK
<1>4. RowsAreHeld' /\ SeenWithinTotal' /\ PaidWithinTotal'
  BY <1>1, <1>2, IdleIsRequest, TotalAssumption
  DEF RowsAreHeld, SeenWithinTotal, PaidWithinTotal, LockedSteps
<1>5. OneActiveNote' /\ CreditIsNote' /\ CreditsAreRead'
  BY <1>1, <1>2, CreditsStay
<1> QED
  BY <1>3, <1>4, <1>5

LEMMA PaymentsKeepIInv ==
  ASSUME SettleIInv, NEW p \in Payments,
         CancelDraft(p) \/ \E a \in Allocations : Create(p, a)
  PROVE  SettleIInv'
<1> USE DEF SettleIInv, invoiceVars, noteVars, lockVars
<1>1. /\ UNCHANGED <<invoiceVars, booked, noteVars, lockVars, req>>
      /\ payment' \in [Payments -> PaymentStatuses] /\ alloc' \in [Payments -> [Invoices -> Nat]]
  <2>1. /\ payment \in [Payments -> PaymentStatuses] /\ alloc \in [Payments -> [Invoices -> Nat]]
        /\ "draft" \in PaymentStatuses /\ "cancelled" \in PaymentStatuses
    BY DEF TypeOK, PaymentStatuses
  <2>2. CASE CancelDraft(p)
    BY <2>1, <2>2 DEF CancelDraft
  <2>3. CASE \E a \in Allocations : Create(p, a)
    BY <2>1, <2>3, AllocationsAssumption DEF Create
  <2> QED
    BY <2>2, <2>3
<1>2. TypeOK'
  BY <1>1 DEF TypeOK
<1>3. RowsAreHeld' /\ SeenWithinTotal' /\ PaidWithinTotal'
  BY <1>1 DEF RowsAreHeld, SeenWithinTotal, PaidWithinTotal
<1>4. OneActiveNote' /\ CreditIsNote' /\ CreditsAreRead'
  BY <1>1, CreditsStay
<1> QED
  BY <1>2, <1>3, <1>4

\* When one note of an invoice credits more or less, the invoice is credited as much
\* more or less.
LEMMA OneCreditChanges ==
  ASSUME SettleIInv, NEW c \in Notes, NEW n \in Nat, source[c] \in Invoices, UNCHANGED source,
         settled' = [settled EXCEPT ![c] = n],
         \A k \in Invoices :
            amountCredited'[k] = IF k = source[c] THEN amountCredited[k] - settled[c] + n
                                                  ELSE amountCredited[k]
  PROVE  \A k \in Invoices : amountCredited'[k] = SumOf(settled', NotesOf(k)')
<1> SUFFICES ASSUME NEW k \in Invoices PROVE amountCredited'[k] = SumOf(settled', NotesOf(k)')
  OBVIOUS
<1> DEFINE f == settled
           g == settled'
           S == NotesOf(k)
<1>0. NotesOf(k)' = S
  BY DEF NotesOf
<1>1. /\ IsFiniteSet(S) /\ amountCredited[k] = SumOf(f, S)
      /\ \A e \in S : f[e] \in Int /\ g[e] \in Int
      /\ \A e \in S : e # c => f[e] = g[e]
  BY NotesAssumption, FS_Subset DEF SettleIInv, TypeOK, CreditIsNote, NotesOf
<1>2. settled'[c] = n /\ settled[c] \in Nat
  BY DEF SettleIInv, TypeOK
<1>3. CASE k = source[c]
  <2>1. c \in S
    BY <1>3 DEF NotesOf
  <2>2. SumOf(g, S) = SumOf(f, S) - f[c] + g[c]
    <3> HIDE DEF f, g, S
    <3> QED
      BY <1>1, <2>1, SumChanges
  <2>3. SumOf(settled', NotesOf(k)') = amountCredited[k] - settled[c] + n
    <3>1. SumOf(settled', NotesOf(k)') = SumOf(g, S)
      BY <1>0
    <3>2. f[c] = settled[c] /\ g[c] = n
      BY <1>2
    <3> HIDE DEF f, g, S
    <3> QED
      BY <1>1, <2>2, <3>1, <3>2
  <2> QED
    BY <1>3, <2>3
<1>4. CASE k # source[c]
  <2>1. c \notin S
    BY <1>4 DEF NotesOf
  <2>2. SumOf(f, S) = SumOf(g, S)
    <3> HIDE DEF f, g, S
    <3> QED
      BY <1>1, <2>1, SumsAgree
  <2>3. SumOf(settled', NotesOf(k)') = SumOf(g, S)
    BY <1>0
  <2> QED
    BY <1>1, <1>4, <2>2, <2>3
<1> QED
  BY <1>3, <1>4

\* No note credited more than its invoice is credited with.
LEMMA CreditWithinCredited ==
  ASSUME SettleIInv, NEW c \in Notes, source[c] \in Invoices
  PROVE  settled[c] \in Nat /\ settled[c] <= amountCredited[source[c]]
<1> DEFINE i == source[c]
<1>1. /\ IsFiniteSet(NotesOf(i)) /\ c \in NotesOf(i)
      /\ \A e \in NotesOf(i) : settled[e] \in Nat
  BY NotesAssumption, FS_Subset DEF SettleIInv, TypeOK, NotesOf
<1>2. settled[c] <= SumOf(settled, NotesOf(i))
  BY <1>1, SumBounds
<1> QED
  BY <1>1, <1>2 DEF SettleIInv, CreditIsNote

\* A request that credits or takes back a note it has locked leaves the notes and the
\* invoices that other requests have read of as they were.
LEMMA OthersHaveRead ==
  ASSUME SettleIInv, NEW w \in Workers, NEW c \in Notes, rowLock[c] = w,
         note[c] \in {"draft", "sent"}, source[c] \in Invoices, UNCHANGED source,
         req'[w] = Idle, \A u \in Workers : u # w => req'[u] = req[u],
         \A e \in Notes : e # c => note'[e] = note[e], note'[c] # "absent",
         \A k \in Invoices : k # source[c] => amountCredited'[k] = amountCredited[k]
  PROVE  CreditsAreRead'
<1> USE DEF SettleIInv
<1>1. \A e \in Notes : note[e] \in {"draft", "sent"} /\ source[e] = source[c] => e = c
  BY DEF OneActiveNote, ActiveNotes
<1>2. ASSUME NEW u \in Workers, u # w,
             req[u].step \in {"credit_write", "uncredit_write", "uncredit_commit"}
      PROVE  /\ note'[req[u].row] = note[req[u].row]
             /\ amountCredited'[source[req[u].row]] = amountCredited[source[req[u].row]]
  <2> DEFINE e == req[u].row
  <2>1. e \in Notes /\ rowLock[e] = u /\ note[e] \in {"draft", "sent"} /\ source[e] \in Invoices
    BY <1>2 DEF RowsAreHeld, CreditsAreRead, OneActiveNote, LockedSteps
  <2>2. e # c /\ source[e] # source[c]
    BY <1>1, <1>2, <2>1
  <2> HIDE DEF e
  <2>3. note'[e] = note[e] /\ amountCredited'[source[e]] = amountCredited[source[e]]
    BY <2>1, <2>2
  <2> QED
    BY <2>3 DEF e
<1>3. ASSUME NEW u \in Workers, u # w, req[u].step \in {"note_edit_write", "note_delete_write"}
      PROVE  note'[req[u].row] # "absent"
  BY <1>3 DEF RowsAreHeld, CreditsAreRead
<1> QED
  BY <1>2, <1>3, IdleIsRequest DEF CreditsAreRead

\* The writes of credit notes.
LEMMA CreditWriteKeepsIInv ==
  ASSUME SettleIInv, NEW w \in Workers, CreditWrite(w) PROVE SettleIInv'
<1> USE DEF SettleIInv
<1> DEFINE c == req[w].row
           i == source[c]
           seen == req[w].seen[i]
<1>1. /\ c \in Notes /\ i \in Invoices /\ note[c] = "draft" /\ rowLock[c] = w
      /\ credit[c] \in Nat /\ seen.credited = amountCredited[i]
  BY DEF CreditWrite, RowsAreHeld, CreditsAreRead, OneActiveNote, TypeOK, LockedSteps
<1>2. settled[c] = 0
  BY <1>1 DEF CreditIsNote
<1>3. /\ amountCredited' = [amountCredited EXCEPT ![i] = amountCredited[i] + credit[c]]
      /\ note' = [note EXCEPT ![c] = "sent"]
      /\ settled' = [settled EXCEPT ![c] = credit[c]]
      /\ UNCHANGED <<status, amountPaid, paymentVars, source, credit, overwritten, reversing>>
  BY <1>1 DEF CreditWrite
<1>4. /\ req' \in [Workers -> Requests] /\ rowLock' \in [Rows -> Workers \cup {NoOne}]
      /\ req'[w] = Idle /\ \A u \in Workers : u # w => req'[u] = req[u]
      /\ RowsAreHeld' /\ SeenWithinTotal'
  BY EndingKeepsRequests DEF Ended, CreditWrite
<1>5. payStatus' \in [Invoices -> PayStatuses]
  BY <1>1, StatusType DEF TypeOK, StatusStored, CreditWrite
<1> HIDE DEF c, i, seen
<1>6. TypeOK'
  <2>1. amountCredited[i] \in Nat /\ amountCredited[i] + credit[c] \in Nat
    BY <1>1 DEF TypeOK
  <2>2. amountCredited' \in [Invoices -> Nat] /\ settled' \in [Notes -> Nat]
        /\ note' \in [Notes -> NoteStatuses]
    BY <1>1, <1>3, <2>1 DEF TypeOK, NoteStatuses
  <2> QED
    BY <1>3, <1>4, <1>5, <2>2 DEF TypeOK, paymentVars
<1>7. note'[c] = "sent" /\ settled'[c] = credit[c]
      /\ \A e \in Notes : e # c => note'[e] = note[e] /\ settled'[e] = settled[e]
  BY <1>1, <1>3 DEF TypeOK
<1>8. OneActiveNote'
  <2>1. \A e \in Notes : (note'[e] \in {"draft", "sent"}) = (note[e] \in {"draft", "sent"})
                         /\ (note'[e] # "absent" <=> note[e] # "absent")
    BY <1>1, <1>7
  <2>2. \A k \in Invoices : ActiveNotes(k)' = ActiveNotes(k)
    BY <1>3, <2>1 DEF ActiveNotes
  <2> QED
    BY <1>3, <2>1, <2>2 DEF OneActiveNote
<1>9. \A k \in Invoices :
         amountCredited'[k] = IF k = source[c] THEN amountCredited[k] - settled[c] + credit[c]
                                               ELSE amountCredited[k]
  BY <1>1, <1>2, <1>3 DEF TypeOK, i
<1>10. CreditIsNote'
  <2>1. \A k \in Invoices : amountCredited'[k] = SumOf(settled', NotesOf(k)')
    BY <1>1, <1>3, <1>9, OneCreditChanges DEF i
  <2> QED
    BY <1>3, <1>7, <2>1 DEF CreditIsNote
<1>11. CreditsAreRead'
  BY <1>1, <1>3, <1>4, <1>7, <1>9, OthersHaveRead DEF i
<1> QED
  BY <1>3, <1>4, <1>6, <1>8, <1>10, <1>11 DEF PaidWithinTotal

LEMMA UncreditCommitKeepsIInv ==
  ASSUME SettleIInv, NEW w \in Workers, UncreditCommit(w) PROVE SettleIInv'
<1> USE DEF SettleIInv
<1> DEFINE c == req[w].row
           i == source[c]
           seen == req[w].seen[i]
<1>1. /\ c \in Notes /\ i \in Invoices /\ note[c] = "sent" /\ rowLock[c] = w
      /\ amountCredited[i] \in Nat /\ seen.credited = amountCredited[i]
  BY DEF UncreditCommit, RowsAreHeld, CreditsAreRead, OneActiveNote, TypeOK, LockedSteps
<1>2. settled[c] \in Nat /\ settled[c] <= amountCredited[i]
  BY <1>1, CreditWithinCredited
<1>3. CreditReversed(seen, settled[c]) = amountCredited[i] - settled[c]
  <2>1. CreditReversed(seen, settled[c])
          = IF amountCredited[i] > settled[c] THEN amountCredited[i] - settled[c] ELSE 0
    BY <1>1 DEF CreditReversed
  <2> HIDE DEF c, i, seen
  <2> QED
    BY <1>1, <1>2, <2>1
<1>4. /\ amountCredited' = [amountCredited EXCEPT ![i] = amountCredited[i] - settled[c]]
      /\ note' = [note EXCEPT ![c] = "void"]
      /\ settled' = [settled EXCEPT ![c] = 0]
      /\ overwritten' = overwritten \ {c}
      /\ UNCHANGED <<status, amountPaid, paymentVars, source, credit, reversing>>
  BY <1>1, <1>3 DEF UncreditCommit
<1>5. /\ req' \in [Workers -> Requests] /\ rowLock' \in [Rows -> Workers \cup {NoOne}]
      /\ req'[w] = Idle /\ \A u \in Workers : u # w => req'[u] = req[u]
      /\ RowsAreHeld' /\ SeenWithinTotal'
  BY EndingKeepsRequests DEF Ended, UncreditCommit
<1>6. payStatus' \in [Invoices -> PayStatuses]
  BY <1>1, StatusType DEF TypeOK, StatusStored, UncreditCommit
<1> HIDE DEF c, i, seen
<1>7. TypeOK'
  <2>1. amountCredited[i] - settled[c] \in Nat
    BY <1>1, <1>2
  <2>2. amountCredited' \in [Invoices -> Nat] /\ settled' \in [Notes -> Nat]
        /\ note' \in [Notes -> NoteStatuses] /\ overwritten' \subseteq Notes
    BY <1>1, <1>4, <2>1 DEF TypeOK, NoteStatuses
  <2> QED
    BY <1>4, <1>5, <1>6, <2>2 DEF TypeOK, paymentVars
<1>8. note'[c] = "void" /\ settled'[c] = 0
      /\ \A e \in Notes : e # c => note'[e] = note[e] /\ settled'[e] = settled[e]
  BY <1>1, <1>4 DEF TypeOK
<1>9. OneActiveNote'
  <2>1. \A e \in Notes : (note'[e] \in {"draft", "sent"} => note[e] \in {"draft", "sent"})
                         /\ (note'[e] # "absent" <=> note[e] # "absent")
    BY <1>1, <1>8
  <2>2. \A k \in Invoices : ActiveNotes(k)' \subseteq ActiveNotes(k)
    BY <1>4, <2>1 DEF ActiveNotes
  <2> QED
    BY <1>4, <2>1, <2>2 DEF OneActiveNote
<1>10. \A k \in Invoices :
          amountCredited'[k] = IF k = source[c] THEN amountCredited[k] - settled[c] + 0
                                                ELSE amountCredited[k]
  BY <1>1, <1>2, <1>4 DEF TypeOK, i
<1>11. CreditIsNote'
  <2>1. \A k \in Invoices : amountCredited'[k] = SumOf(settled', NotesOf(k)')
    BY <1>1, <1>4, <1>10, OneCreditChanges DEF i
  <2> QED
    BY <1>4, <1>8, <2>1 DEF CreditIsNote
<1>12. CreditsAreRead'
  BY <1>1, <1>4, <1>5, <1>8, <1>10, OthersHaveRead DEF i
<1> QED
  BY <1>4, <1>5, <1>7, <1>9, <1>11, <1>12 DEF PaidWithinTotal

\* An edit or a delete of a note, whatever the note has become.
LEMMA NoteEditsKeepIInv ==
  ASSUME SettleIInv, NEW w \in Workers,
         NoteDeleteWrite(w) \/ \E a \in CreditAmounts : NoteEditWrite(w, a)
  PROVE  SettleIInv'
<1> USE DEF SettleIInv, invoiceVars, paymentVars, lockVars
<1> DEFINE c == req[w].row
<1>1. /\ c \in Notes /\ rowLock[c] = NoOne /\ note[c] # "absent"
      /\ req' = [req EXCEPT ![w] = Idle]
      /\ UNCHANGED <<invoiceVars, paymentVars, source, settled, lockVars>>
  BY DEF NoteEditWrite, NoteDeleteWrite, RowsAreHeld, CreditsAreRead, Free
<1>2. /\ \A e \in Notes : e # c => /\ note'[e] = note[e] /\ credit'[e] = credit[e]
                                   /\ e \in overwritten' <=> e \in overwritten
      /\ note' \in [Notes -> NoteStatuses] /\ credit' \in [Notes -> Nat]
      /\ overwritten' \subseteq Notes
      /\ note'[c] = note[c] \/ note'[c] = "deleted"
      /\ note'[c] = "sent" => c \in overwritten'
  <2>1. CASE NoteDeleteWrite(w)
    BY <1>1, <2>1 DEF NoteDeleteWrite, TypeOK, NoteStatuses
  <2>2. ASSUME NEW a \in CreditAmounts, NoteEditWrite(w, a)
        PROVE  /\ note' = note /\ credit' = [credit EXCEPT ![c] = a] /\ a \in Nat
               /\ overwritten' = IF note[c] = "sent" THEN overwritten \cup {c} ELSE overwritten
    BY <2>2, CreditAmountsAssumption DEF NoteEditWrite
  <2> HIDE DEF c
  <2>3. CASE \E a \in CreditAmounts : NoteEditWrite(w, a)
    BY <1>1, <2>2, <2>3 DEF TypeOK
  <2> QED
    BY <2>1, <2>3
<1> HIDE DEF c
<1>3. /\ req' \in [Workers -> Requests]
      /\ req'[w] = Idle /\ \A u \in Workers : u # w => req'[u] = req[u]
  BY <1>1, RequestsKeepTheirType, IdleIsRequest
<1>4. TypeOK'
  BY <1>1, <1>2, <1>3 DEF TypeOK
<1>5. RowsAreHeld' /\ SeenWithinTotal' /\ PaidWithinTotal'
  BY <1>1, <1>3, IdleIsRequest, TotalAssumption
  DEF RowsAreHeld, SeenWithinTotal, PaidWithinTotal, LockedSteps
<1>6. OneActiveNote'
  <2>1. \A e \in Notes : (note'[e] \in {"draft", "sent"} => note[e] \in {"draft", "sent"})
                         /\ (note'[e] # "absent" <=> note[e] # "absent")
    BY <1>1, <1>2
  <2>2. \A k \in Invoices : ActiveNotes(k)' \subseteq ActiveNotes(k)
    BY <1>1, <2>1 DEF ActiveNotes
  <2> QED
    BY <1>1, <2>1, <2>2 DEF OneActiveNote
<1>7. CreditIsNote'
  BY <1>1, <1>2 DEF CreditIsNote, NotesOf
<1>8. CreditsAreRead'
  <2>1. ASSUME NEW u \in Workers,
               req[u].step \in {"credit_write", "uncredit_write", "uncredit_commit"}
        PROVE  req[u].row \in Notes /\ note'[req[u].row] = note[req[u].row]
    <3>1. req[u].row \in Notes /\ rowLock[req[u].row] = u
      BY <2>1 DEF RowsAreHeld, LockedSteps
    <3> QED
      BY <1>1, <1>2, <3>1
  <2>2. ASSUME NEW u \in Workers, req[u].step \in {"note_edit_write", "note_delete_write"}
        PROVE  note'[req[u].row] # "absent"
    BY <1>1, <1>2, <2>2 DEF RowsAreHeld, CreditsAreRead
  <2> QED
    BY <1>1, <1>3, <2>1, <2>2, IdleIsRequest DEF CreditsAreRead
<1> QED
  BY <1>4, <1>5, <1>6, <1>7, <1>8

LEMMA VoidCommitKeepsIInv ==
  ASSUME SettleIInv, NEW w \in Workers, VoidCommit(w) PROVE SettleIInv'
<1> USE DEF SettleIInv, VoidCommit, paymentVars, noteVars
<1>1. /\ req' \in [Workers -> Requests] /\ rowLock' \in [Rows -> Workers \cup {NoOne}]
      /\ req'[w] = Idle /\ \A u \in Workers : u # w => req'[u] = req[u]
      /\ RowsAreHeld' /\ SeenWithinTotal'
  BY EndingKeepsRequests DEF Ended
<1>2. TypeOK'
  <2>1. status' \in [Invoices -> {"sent", "void"}]
    BY DEF TypeOK
  <2> QED
    BY <1>1, <2>1 DEF TypeOK
<1>3. OneActiveNote' /\ CreditIsNote' /\ CreditsAreRead'
  BY <1>1, CreditsStay
<1> QED
  BY <1>1, <1>2, <1>3 DEF PaidWithinTotal

LEMMA DraftNoteKeepsIInv ==
  ASSUME SettleIInv, NEW c \in Notes, NEW i \in Invoices, NEW a \in CreditAmounts,
         DraftNote(c, i, a)
  PROVE  SettleIInv'
<1> USE DEF SettleIInv, DraftNote, invoiceVars, paymentVars, lockVars
<1>1. TypeOK'
  <2>1. /\ note' \in [Notes -> NoteStatuses] /\ source' \in [Notes -> Invoices \cup {NoOne}]
        /\ credit' \in [Notes -> Nat]
    BY CreditAmountsAssumption DEF TypeOK, NoteStatuses
  <2> QED
    BY <2>1 DEF TypeOK
<1>2. RowsAreHeld' /\ PaidWithinTotal' /\ SeenWithinTotal'
  BY DEF RowsAreHeld, PaidWithinTotal, SeenWithinTotal
<1>3. \A e \in Notes : e # c => /\ note'[e] = note[e] /\ source'[e] = source[e]
                                /\ credit'[e] = credit[e]
  BY DEF TypeOK
<1>4. note'[c] = "draft" /\ source'[c] = i /\ note[c] = "absent"
  BY DEF TypeOK
<1>5. OneActiveNote'
  <2>1. \A k \in Invoices : ActiveNotes(k)' = IF k = i THEN {c} ELSE ActiveNotes(k)
    BY <1>3, <1>4 DEF ActiveNotes
  <2>2. \A e \in Notes : note'[e] # "absent" <=> source'[e] \in Invoices
    BY <1>3, <1>4 DEF OneActiveNote
  <2>3. ASSUME NEW k \in Invoices, NEW d \in Notes, NEW e \in Notes,
               {d, e} \subseteq ActiveNotes(k)'
        PROVE  d = e
    <3>1. CASE k = i
      BY <2>1, <2>3, <3>1
    <3>2. CASE k # i
      BY <2>1, <2>3, <3>2 DEF OneActiveNote
    <3> QED
      BY <3>1, <3>2
  <2> QED
    BY <2>2, <2>3 DEF OneActiveNote
<1>6. CreditIsNote'
  <2>1. settled[c] = 0 /\ c \notin NotesOf(i) /\ source[c] \notin Invoices
    BY <1>4 DEF CreditIsNote, NotesOf, OneActiveNote
  <2>2. ASSUME NEW k \in Invoices PROVE amountCredited'[k] = SumOf(settled', NotesOf(k)')
    <3>1. NotesOf(k)' = IF k = i THEN NotesOf(k) \cup {c} ELSE NotesOf(k)
      BY <1>3, <1>4, <2>1 DEF NotesOf
    <3>2. SumOf(settled, NotesOf(i) \cup {c}) = SumOf(settled, NotesOf(i))
      <4>1. /\ IsFiniteSet(NotesOf(i)) /\ IsFiniteSet({c}) /\ NotesOf(i) \cap {c} = {}
            /\ \A e \in NotesOf(i) \cup {c} : settled[e] \in Int
        BY <2>1, NotesAssumption, FS_Subset, FS_Singleton DEF TypeOK, NotesOf
      <4>2. SumOf(settled, {c}) = 0 /\ SumOf(settled, NotesOf(i)) \in Int
        BY <2>1, <4>1, SumOfOne, SumIsInteger
      <4>3. SumOf(settled, NotesOf(i) \cup {c}) = SumOf(settled, NotesOf(i)) + SumOf(settled, {c})
        BY <4>1, SumOfUnion
      <4> HIDE DEF NotesOf
      <4> QED
        BY <4>2, <4>3
    <3>3. amountCredited' = amountCredited /\ settled' = settled
      BY DEF DraftNote
    <3> QED
      BY <3>1, <3>2, <3>3 DEF CreditIsNote
  <2>3. \A e \in Notes : note'[e] = "sent" => note[e] = "sent" /\ e # c
    BY <1>3, <1>4
  <2>4. \A e \in Notes : settled[e] # 0 => e # c
    BY <2>1
  <2> QED
    BY <1>3, <2>2, <2>3, <2>4 DEF CreditIsNote
<1>7. CreditsAreRead'
  <2>1. \A u \in Workers : req[u].step \in {"credit_write", "uncredit_write", "uncredit_commit"}
                              => req[u].row # c /\ req[u].row \in Notes
    BY <1>4 DEF CreditsAreRead, RowsAreHeld
  <2>2. \A u \in Workers : req[u].step \in {"note_edit_write", "note_delete_write"}
                              => note'[req[u].row] # "absent"
    BY <1>3, <1>4 DEF CreditsAreRead, RowsAreHeld
  <2> QED
    BY <1>3, <2>1, <2>2 DEF CreditsAreRead
<1> QED
  BY <1>1, <1>2, <1>5, <1>6, <1>7

LEMMA StepKeepsIInv ==
  ASSUME SettleIInv, Next PROVE SettleIInv'
<1> USE DEF SettleIInv
<1>1. ASSUME NEW w \in Workers, Begin(w) PROVE SettleIInv'
  <2>1. PICK r : Begun(w, r)
    BY <1>1, BeginsAreBegun
  <2> QED
    BY <2>1, BegunKeepsIInv
<1>2. ASSUME NEW w \in Workers, CancelRead(w) \/ UncreditWrite(w) PROVE SettleIInv'
  <2>1. PICK r : WentOn(w, r)
    BY <1>2, ReadsGoOn
  <2> QED
    BY <2>1, WentOnKeepsIInv
<1>3. ASSUME NEW w \in Workers, Continue(w) PROVE SettleIInv'
  BY <1>2, <1>3, SubmitSettleKeepsIInv, CancelWriteKeepsIInv, EditWriteKeepsIInv,
     CreditWriteKeepsIInv, UncreditCommitKeepsIInv, VoidCommitKeepsIInv, NoteEditsKeepIInv
  DEF Continue
<1>4. ASSUME NEW w \in Workers, Refuse(w) \/ Abort(w) \/ BreakDeadlock(w) PROVE SettleIInv'
  <2>1. Rollback(w)
    BY <1>4 DEF Refuse, Abort, BreakDeadlock
  <2> QED
    BY <2>1, RollbackKeepsIInv
<1>5. ASSUME NEW p \in Payments, CancelDraft(p) \/ \E a \in Allocations : Create(p, a)
      PROVE  SettleIInv'
  BY <1>5, PaymentsKeepIInv
<1> QED
  BY <1>1, <1>3, <1>4, <1>5, DraftNoteKeepsIInv DEF Next

LEMMA InitIsIInv == ASSUME Init PROVE SettleIInv
<1> USE DEF Init
<1>1. TypeOK
  BY IdleIsRequest
  DEF TypeOK, PayStatuses, PaymentStatuses, NoteStatuses, Nothing
<1>2. RowsAreHeld /\ SeenWithinTotal /\ PaidWithinTotal
  BY IdleIsRequest, TotalAssumption DEF RowsAreHeld, SeenWithinTotal, PaidWithinTotal, LockedSteps
<1>3. ASSUME NEW i \in Invoices PROVE amountCredited[i] = SumOf(settled, NotesOf(i))
  <2>1. IsFiniteSet(NotesOf(i)) /\ \A c \in NotesOf(i) : settled[c] = 0
    BY NotesAssumption, FS_Subset DEF NotesOf
  <2>2. SumOf(settled, NotesOf(i)) = 0
    BY <2>1, SumOfZeros
  <2> QED
    BY <2>2
<1>4. OneActiveNote /\ CreditIsNote /\ CreditsAreRead
  BY <1>3, IdleIsRequest DEF OneActiveNote, CreditIsNote, CreditsAreRead, ActiveNotes
<1> QED
  BY <1>1, <1>2, <1>4 DEF SettleIInv

LEMMA StutterKeepsIInv ==
  ASSUME SettleIInv, UNCHANGED vars PROVE SettleIInv'
<1> USE DEF vars, invoiceVars, paymentVars, noteVars, lockVars, SettleIInv
<1>1. TypeOK'
  BY DEF TypeOK
<1>2. RowsAreHeld' /\ SeenWithinTotal' /\ PaidWithinTotal'
  BY DEF RowsAreHeld, SeenWithinTotal, PaidWithinTotal
<1>3. OneActiveNote' /\ CreditIsNote' /\ CreditsAreRead'
  BY DEF OneActiveNote, CreditIsNote, CreditsAreRead, ActiveNotes, NotesOf
<1> QED
  BY <1>1, <1>2, <1>3

\* However requests interleave, rows are locked by the requests that work on them and
\* the amounts credited are those of the notes.
THEOREM SettleInductive == Spec => []SettleIInv
<1>1. SettleIInv /\ [Next]_vars => SettleIInv'
  BY StepKeepsIInv, StutterKeepsIInv
<1> QED
  BY <1>1, InitIsIInv, PTL DEF Spec

\* submit never records more money on an invoice than it amounts to, however payments
\* are submitted and cancelled at the same time.
THEOREM PaidStaysWithinTotal == Spec => []PaidWithinTotal
<1>1. SettleIInv => PaidWithinTotal
  BY DEF SettleIInv
<1> QED
  BY <1>1, SettleInductive, PTL

\* The sum over an invoice's notes, as a sum of a function.
LEMMA CreditsAsSum ==
  ASSUME NEW i \in Invoices
  PROVE  MapThenSumSet(LAMBDA c : settled[c], {c \in Notes : source[c] = i})
            = SumOf(settled, NotesOf(i))
  BY DEF SumOf, NotesOf

\* amount_credited of an invoice is what its notes credited at their finalize and no void
\* took back, though finalize and void compute it from an unlocked read, and though a note
\* may be edited or deleted by a request that had seen the draft.
THEOREM CreditsAreNotes == Spec => []CreditedIsNotes
<1>1. SettleIInv => CreditedIsNotes
  BY CreditsAsSum DEF SettleIInv, CreditIsNote, CreditedIsNotes
<1> QED
  BY <1>1, SettleInductive, PTL

-----------------------------------------------------------------------------
(* What holds when the unlocked reads are fresh.                             *)

\* The sum over payments that PaidIsBooked states, as a sum of a function.
LEMMA BookedAsSum ==
  ASSUME NEW i \in Invoices
  PROVE  MapThenSumSet(LAMBDA p : booked[p][i], Payments) = SumOf(BookedOn(i), Payments)
<1> DEFINE f == BookedOn(i)
           A(g) == [s \in SUBSET Payments |->
                      IF s = {} THEN 0
                      ELSE booked[CHOOSE x \in s : TRUE][i] + g[s \ {CHOOSE x \in s : TRUE}]]
           B(g) == [s \in SUBSET Payments |->
                      IF s = {} THEN 0
                      ELSE f[CHOOSE x \in s : TRUE] + g[s \ {CHOOSE x \in s : TRUE}]]
<1>1. \A g : A(g) = B(g)
  BY DEF BookedOn
<1>2. MapThenSumSet(LAMBDA p : booked[p][i], Payments) = (CHOOSE g : g = A(g))[Payments]
  BY DEF MapThenSumSet, MapThenFoldSet
<1>3. SumOf(f, Payments) = (CHOOSE g : g = B(g))[Payments]
  BY DEF SumOf, MapThenSumSet, MapThenFoldSet
<1>4. (CHOOSE g : g = A(g)) = (CHOOSE g : g = B(g))
  <2> HIDE DEF A, B
  <2> QED BY <1>1
<1> QED
  BY <1>2, <1>3, <1>4

LEMMA PaidAsSum ==
  PaidIsBooked <=> \A i \in Invoices : amountPaid[i] = SumOf(BookedOn(i), Payments)
  BY BookedAsSum DEF PaidIsBooked

\* No payment's vouchers settle more on an invoice than has been recorded as paid.
LEMMA BookedWithinPaid ==
  ASSUME TypeOK, BooksIInv, NEW i \in Invoices, NEW p \in Payments
  PROVE  booked[p][i] \in Nat /\ booked[p][i] <= amountPaid[i]
<1>1. \A q \in Payments : BookedOn(i)[q] \in Nat /\ BookedOn(i)[q] = booked[q][i]
  BY DEF BookedOn, TypeOK
<1>2. BookedOn(i)[p] <= SumOf(BookedOn(i), Payments)
  BY <1>1, SumBounds, PaymentsAssumption
<1> QED
  BY <1>1, <1>2 DEF BooksIInv

\* When the vouchers of one payment change, what is booked on i changes by as much.
LEMMA BookingChangesSum ==
  ASSUME TypeOK, TypeOK', NEW i \in Invoices, NEW p \in Payments,
         \A q \in Payments : q # p => booked'[q] = booked[q]
  PROVE  /\ SumOf(BookedOn(i), Payments) \in Int
         /\ SumOf(BookedOn(i)', Payments)
              = SumOf(BookedOn(i), Payments) - booked[p][i] + booked'[p][i]
<1> DEFINE f == BookedOn(i)
           g == BookedOn(i)'
<1>1. \A q \in Payments : /\ f[q] \in Int /\ f[q] = booked[q][i]
                          /\ g[q] \in Int /\ g[q] = booked'[q][i]
  BY DEF BookedOn, TypeOK
<1>2. \A q \in Payments : q # p => f[q] = g[q]
  BY <1>1
<1> HIDE DEF f, g
<1>3. SumOf(f, Payments) \in Int
  BY <1>1, SumIsInteger, PaymentsAssumption
<1>4. SumOf(g, Payments) = SumOf(f, Payments) - f[p] + g[p]
  BY <1>1, <1>2, SumChanges, PaymentsAssumption
<1> QED
  BY <1>1, <1>3, <1>4 DEF f, g

\* A step that writes no invoice and no payment.
LEMMA BooksStay ==
  ASSUME BooksIInv, UNCHANGED <<status, amountPaid, amountCredited, payStatus>>,
         UNCHANGED <<payment, alloc, booked>>
  PROVE  /\ \A i \in Invoices : amountPaid'[i] = SumOf(BookedOn(i)', Payments)
         /\ BooksMatchPayments' /\ PaidInvoiceStands' /\ StatusIsComputed'
<1>1. ASSUME NEW i \in Invoices PROVE BookedOn(i)' = BookedOn(i)
  BY DEF BookedOn
<1>2. BooksMatchPayments' /\ PaidInvoiceStands' /\ StatusIsComputed'
  BY DEF BooksIInv, BooksMatchPayments, PaidInvoiceStands, StatusIsComputed, SettlementStatus
<1> QED
  BY <1>1, <1>2 DEF BooksIInv

LEMMA RequestsKeepBooks ==
  ASSUME SettleIInv, BooksIInv, NEW w \in Workers,
         Begin(w) \/ CancelRead(w) \/ UncreditWrite(w) \/ Rollback(w)
  PROVE  BooksIInv'
<1>1. ASSUME NEW r \in Requests, OnlyRequests, req' = [req EXCEPT ![w] = r],
             r.step = "submit_settle" => payment[r.row] = "draft",
             r.step \in {"cancel_read", "cancel_write"} => payment[r.row] = "submitted",
             r.step = "void_commit" => amountPaid[r.row] = 0
      PROVE  BooksIInv'
  <2>1. /\ UNCHANGED <<status, amountPaid, amountCredited, payStatus>>
        /\ UNCHANGED <<payment, alloc, booked>>
    BY <1>1 DEF OnlyRequests, invoiceVars, paymentVars
  <2>2. req'[w] = r /\ \A u \in Workers : u # w => req'[u] = req[u]
    BY <1>1, RequestsKeepTheirType DEF SettleIInv
  <2>3. LockedRowsStand'
    BY <1>1, <2>1, <2>2 DEF LockedRowsStand, BooksIInv
  <2> QED
    BY <2>1, <2>3, BooksStay DEF BooksIInv
<1>2. CASE Begin(w)
  <2>1. PICK r : Begun(w, r)
    BY <1>2, BeginsAreBegun DEF SettleIInv
  <2> QED
    BY <1>1, <2>1 DEF Begun
<1>3. CASE CancelRead(w) \/ UncreditWrite(w)
  <2>1. PICK r : WentOn(w, r)
    BY <1>3, ReadsGoOn DEF SettleIInv
  <2>2. r.step = "cancel_write" => payment[r.row] = "submitted"
    BY <2>1 DEF WentOn, BooksIInv, LockedRowsStand
  <2> QED
    BY <1>1, <2>1, <2>2 DEF WentOn
<1>4. CASE Rollback(w)
  BY <1>1, <1>4, IdleIsRequest DEF Rollback, OnlyRequests
<1> QED
  BY <1>2, <1>3, <1>4

\* A request that ends leaves what the others have locked as they found it, if it wrote
\* no payment that is locked by another and raised no amount of a locked invoice.
LEMMA EndingKeepsRows ==
  ASSUME SettleIInv, BooksIInv, NEW w \in Workers, req' = [req EXCEPT ![w] = Idle],
         \A p \in Payments :
            payment'[p] = payment[p] \/ rowLock[p] = w \/ rowLock[p] = NoOne,
         \A i \in Invoices : amountPaid[i] = 0 => amountPaid'[i] = 0 \/ rowLock[i] = NoOne
  PROVE  LockedRowsStand'
<1>1. req'[w] = Idle /\ \A u \in Workers : u # w => req'[u] = req[u]
  BY RequestsKeepTheirType, IdleIsRequest DEF SettleIInv
<1>2. ASSUME NEW u \in Workers, u # w,
             req[u].step \in {"submit_settle", "cancel_read", "cancel_write"}
      PROVE  payment'[req[u].row] = payment[req[u].row]
  <2>1. req[u].row \in Payments /\ rowLock[req[u].row] = u
    BY <1>2 DEF SettleIInv, RowsAreHeld, LockedSteps
  <2> QED
    BY <1>2, <2>1
<1>3. ASSUME NEW u \in Workers, u # w, req[u].step = "void_commit"
      PROVE  amountPaid'[req[u].row] = 0
  <2>1. req[u].row \in Invoices /\ rowLock[req[u].row] = u /\ amountPaid[req[u].row] = 0
    BY <1>3 DEF SettleIInv, RowsAreHeld, LockedSteps, BooksIInv, LockedRowsStand
  <2> QED
    BY <1>3, <2>1
<1> QED
  BY <1>1, <1>2, <1>3, IdleIsRequest DEF BooksIInv, LockedRowsStand

LEMMA SubmitSettleKeepsBooks ==
  ASSUME SettleIInv, SettleIInv', BooksIInv, NEW w \in Workers, SubmitSettle(w) PROVE BooksIInv'
<1> USE DEF SubmitSettle
<1> DEFINE p == req[w].row
           a == alloc[p]
<1>1. /\ p \in Payments /\ a \in [Invoices -> Nat] /\ payment[p] = "draft" /\ rowLock[p] = w
      /\ booked[p] = Nothing
  BY DEF SettleIInv, RowsAreHeld, LockedSteps, TypeOK, BooksIInv, LockedRowsStand,
         BooksMatchPayments
<1>2. /\ payment' = [payment EXCEPT ![p] = "submitted"]
      /\ booked' = [booked EXCEPT ![p] = a]
      /\ UNCHANGED <<status, amountCredited, alloc>>
      /\ \A i \in Invoices : amountPaid'[i] = amountPaid[i] + a[i]
      /\ \A i \in Invoices : a[i] > 0 => status[i] = "sent" /\ rowLock[i] = NoOne
  BY DEF AllocationAllowed, Settles, Free
<1>3. \A q \in Payments : q # p => payment'[q] = payment[q] /\ booked'[q] = booked[q]
  BY <1>2 DEF SettleIInv, TypeOK
<1>4. payment'[p] = "submitted" /\ booked'[p] = a
  BY <1>1, <1>2 DEF SettleIInv, TypeOK
<1>5. ASSUME NEW i \in Invoices PROVE amountPaid'[i] = SumOf(BookedOn(i)', Payments)
  <2>1. /\ SumOf(BookedOn(i), Payments) \in Int
        /\ SumOf(BookedOn(i)', Payments)
             = SumOf(BookedOn(i), Payments) - booked[p][i] + booked'[p][i]
    BY <1>1, <1>3, BookingChangesSum DEF SettleIInv
  <2>2. booked[p][i] = 0 /\ booked'[p][i] = a[i] /\ a[i] \in Nat
    BY <1>1, <1>4 DEF Nothing
  <2>3. amountPaid[i] = SumOf(BookedOn(i), Payments) /\ amountPaid'[i] = amountPaid[i] + a[i]
    BY <1>2 DEF BooksIInv
  <2> HIDE DEF a, SubmitSettle
  <2> QED
    BY <2>1, <2>2, <2>3
<1>6. BooksMatchPayments'
  BY <1>2, <1>3, <1>4 DEF BooksIInv, BooksMatchPayments
<1>7. PaidInvoiceStands'
  BY <1>2, <1>3, <1>4 DEF BooksIInv, PaidInvoiceStands
<1>8. StatusIsComputed'
  <2> SUFFICES ASSUME NEW i \in Invoices
               PROVE  payStatus'[i] = SettlementStatus(i, amountPaid'[i], amountCredited'[i])
    BY DEF StatusIsComputed, SettlementStatus
  <2>1. CASE a[i] > 0
    BY <1>2, <2>1 DEF Settles
  <2>2. CASE ~ (a[i] > 0)
    <3>1. amountPaid'[i] = amountPaid[i]
      BY <1>1, <1>2, <2>2 DEF SettleIInv, TypeOK
    <3> QED
      BY <1>2, <2>2, <3>1 DEF Settles, BooksIInv, StatusIsComputed
  <2> QED
    BY <2>1, <2>2
<1>9. LockedRowsStand'
  <2>1. ASSUME NEW i \in Invoices, amountPaid[i] = 0
        PROVE  amountPaid'[i] = 0 \/ rowLock[i] = NoOne
    BY <1>1, <1>2, <2>1
  <2> QED
    BY <1>1, <1>3, <2>1, EndingKeepsRows
<1> QED
  BY <1>5, <1>6, <1>7, <1>8, <1>9 DEF BooksIInv

LEMMA CancelWriteKeepsBooks ==
  ASSUME SettleIInv, SettleIInv', BooksIInv, FreshReads, NEW w \in Workers, CancelWrite(w)
  PROVE  BooksIInv'
<1> USE DEF CancelWrite
<1> DEFINE p == req[w].row
           a == alloc[p]
           seen == req[w].seen
<1>1. /\ p \in Payments /\ a \in [Invoices -> Nat] /\ payment[p] = "submitted" /\ rowLock[p] = w
      /\ booked[p] = a
  BY DEF SettleIInv, RowsAreHeld, LockedSteps, TypeOK, BooksIInv, LockedRowsStand,
         BooksMatchPayments
<1>2. /\ payment' = [payment EXCEPT ![p] = "cancelled"]
      /\ booked' = [booked EXCEPT ![p] = Nothing]
      /\ UNCHANGED <<status, amountCredited, alloc>>
  OBVIOUS
<1>3. \A q \in Payments : q # p => payment'[q] = payment[q] /\ booked'[q] = booked[q]
  BY <1>2 DEF SettleIInv, TypeOK
<1>4. payment'[p] = "cancelled" /\ booked'[p] = Nothing
  BY <1>1, <1>2 DEF SettleIInv, TypeOK
<1>5. ASSUME NEW i \in Invoices
      PROVE  /\ amountPaid[i] \in Nat /\ a[i] \in Nat /\ a[i] <= amountPaid[i]
             /\ amountPaid'[i] = amountPaid[i] - a[i]
             /\ a[i] > 0 => payStatus'[i] = SettlementStatus(i, amountPaid'[i], amountCredited[i])
  <2>1. amountPaid[i] \in Nat /\ a[i] \in Nat /\ a[i] <= amountPaid[i]
    BY <1>1, BookedWithinPaid DEF SettleIInv, TypeOK
  <2>2. CASE a[i] > 0
    <3>1. i \in Reads(w)
      BY <2>2 DEF Reads, Settles
    <3>2. seen[i].paid = amountPaid[i] /\ seen[i].credited = amountCredited[i]
          /\ seen[i].payStatus = payStatus[i]
      BY <3>1, ViewsType DEF FreshReads, SettleIInv
    <3>3. PaidReduced(seen[i], a[i]) = amountPaid[i] - a[i]
      BY <2>1, <3>2 DEF PaidReduced
    <3>4. amountPaid'[i] = amountPaid[i] - a[i]
      BY <2>2, <3>3 DEF Settles
    <3>5. payStatus'[i] = StatusStored(i, seen[i], amountPaid'[i], amountCredited[i])
      BY <2>2, <3>2, <3>3, <3>4 DEF Settles
    <3>6. payStatus'[i] = SettlementStatus(i, amountPaid'[i], amountCredited[i])
      BY <3>2, <3>5 DEF StatusStored
    <3> QED
      BY <2>1, <3>4, <3>6
  <2>3. CASE ~ (a[i] > 0)
    <3>1. a[i] = 0 /\ amountPaid'[i] = amountPaid[i]
      BY <2>1, <2>3 DEF Settles
    <3> QED
      BY <2>1, <3>1
  <2> QED
    BY <2>2, <2>3
<1>6. ASSUME NEW i \in Invoices PROVE amountPaid'[i] = SumOf(BookedOn(i)', Payments)
  <2>1. /\ SumOf(BookedOn(i), Payments) \in Int
        /\ SumOf(BookedOn(i)', Payments)
             = SumOf(BookedOn(i), Payments) - booked[p][i] + booked'[p][i]
    BY <1>1, <1>3, BookingChangesSum DEF SettleIInv
  <2>2. booked[p][i] = a[i] /\ booked'[p][i] = 0 /\ a[i] \in Nat
    BY <1>1, <1>4 DEF Nothing
  <2>3. amountPaid[i] = SumOf(BookedOn(i), Payments) /\ amountPaid'[i] = amountPaid[i] - a[i]
    BY <1>5 DEF BooksIInv
  <2> HIDE DEF a, CancelWrite
  <2> QED
    BY <2>1, <2>2, <2>3
<1>7. BooksMatchPayments'
  BY <1>2, <1>3, <1>4 DEF BooksIInv, BooksMatchPayments
<1>8. PaidInvoiceStands'
  BY <1>2, <1>3, <1>4 DEF BooksIInv, PaidInvoiceStands
<1>9. StatusIsComputed'
  <2> SUFFICES ASSUME NEW i \in Invoices
               PROVE  payStatus'[i] = SettlementStatus(i, amountPaid'[i], amountCredited'[i])
    BY DEF StatusIsComputed, SettlementStatus
  <2>1. CASE a[i] > 0
    BY <1>2, <1>5, <2>1
  <2>2. CASE ~ (a[i] > 0)
    BY <1>2, <2>2 DEF Settles, BooksIInv, StatusIsComputed
  <2> QED
    BY <2>1, <2>2
<1>10. LockedRowsStand'
  <2>1. ASSUME NEW i \in Invoices, amountPaid[i] = 0 PROVE amountPaid'[i] = 0
    BY <1>5, <2>1
  <2> QED
    BY <1>1, <1>3, <2>1, EndingKeepsRows
<1> QED
  BY <1>6, <1>7, <1>8, <1>9, <1>10 DEF BooksIInv

\* Drafting, editing, deleting and cancelling drafts books nothing.
LEMMA DraftsKeepBooks ==
  ASSUME SettleIInv, BooksIInv, NEW p \in Payments, payment[p] \in {"absent", "draft"},
         \A q \in Payments : q # p => payment'[q] = payment[q] /\ alloc'[q] = alloc[q],
         payment'[p] # "submitted", LockedRowsStand', UNCHANGED <<invoiceVars, booked>>
  PROVE  BooksIInv'
<1>1. UNCHANGED <<status, amountPaid, amountCredited, payStatus, booked>>
  BY DEF invoiceVars
<1>2. ASSUME NEW i \in Invoices PROVE BookedOn(i)' = BookedOn(i)
  BY <1>1 DEF BookedOn
<1>3. booked[p] = Nothing
  BY DEF BooksIInv, BooksMatchPayments
<1>4. BooksMatchPayments'
  BY <1>1, <1>3 DEF BooksIInv, BooksMatchPayments, Nothing
<1>5. PaidInvoiceStands'
  BY <1>1 DEF BooksIInv, PaidInvoiceStands
<1>6. StatusIsComputed'
  BY <1>1 DEF BooksIInv, StatusIsComputed, SettlementStatus
<1> QED
  BY <1>1, <1>2, <1>4, <1>5, <1>6 DEF BooksIInv

LEMMA EditsKeepBooks ==
  ASSUME SettleIInv, BooksIInv, FreshReads, NEW w \in Workers, EditWrite(w) \/ DeleteWrite(w)
  PROVE  BooksIInv'
<1> DEFINE p == req[w].row
<1>1. p \in Payments /\ payment[p] = "draft" /\ rowLock[p] = NoOne
  BY DEF EditWrite, DeleteWrite, SettleIInv, RowsAreHeld, FreshReads, IsDraft, Free
<1>2. /\ req' = [req EXCEPT ![w] = Idle] /\ UNCHANGED <<invoiceVars, booked>>
      /\ \A q \in Payments : q # p => payment'[q] = payment[q] /\ alloc'[q] = alloc[q]
      /\ payment'[p] # "submitted"
  <2>1. CASE EditWrite(w)
    BY <1>1, <2>1 DEF EditWrite, SettleIInv, TypeOK
  <2>2. CASE DeleteWrite(w)
    BY <1>1, <2>2 DEF DeleteWrite, SettleIInv, TypeOK
  <2> QED
    BY <2>1, <2>2
<1>3. LockedRowsStand'
  BY <1>1, <1>2, EndingKeepsRows DEF invoiceVars
<1> HIDE DEF p
<1> QED
  BY <1>1, <1>2, <1>3, DraftsKeepBooks

LEMMA PaymentsKeepBooks ==
  ASSUME SettleIInv, BooksIInv, NEW p \in Payments,
         CancelDraft(p) \/ \E a \in Allocations : Create(p, a)
  PROVE  BooksIInv'
<1>1. /\ payment[p] \in {"absent", "draft"} /\ payment'[p] # "submitted"
      /\ \A q \in Payments : q # p => payment'[q] = payment[q] /\ alloc'[q] = alloc[q]
      /\ UNCHANGED <<invoiceVars, booked, req>>
      /\ payment[p] = "draft" => rowLock[p] = NoOne
  BY DEF CancelDraft, Create, SettleIInv, TypeOK, Free
<1>2. ASSUME NEW u \in Workers, req[u].step \in {"submit_settle", "cancel_read", "cancel_write"}
      PROVE  payment'[req[u].row] = payment[req[u].row]
  <2>1. /\ req[u].row \in Payments /\ rowLock[req[u].row] = u
        /\ payment[req[u].row] \in {"draft", "submitted"}
    BY <1>2 DEF SettleIInv, RowsAreHeld, LockedSteps, BooksIInv, LockedRowsStand
  <2> QED
    BY <1>1, <2>1
<1>3. LockedRowsStand'
  BY <1>1, <1>2 DEF BooksIInv, LockedRowsStand, invoiceVars
<1> QED
  BY <1>1, <1>3, DraftsKeepBooks

\* Crediting and uncrediting recomputes the invoice's status from amounts that stand.
LEMMA CreditsKeepBooks ==
  ASSUME SettleIInv, BooksIInv, FreshReads, NEW w \in Workers,
         CreditWrite(w) \/ UncreditCommit(w)
  PROVE  BooksIInv'
<1> DEFINE c == req[w].row
           i == source[c]
           seen == req[w].seen[i]
<1>1. c \in Notes /\ i \in Invoices
  BY DEF CreditWrite, UncreditCommit, SettleIInv, RowsAreHeld, CreditsAreRead, OneActiveNote
<1>2. seen.paid = amountPaid[i] /\ seen.payStatus = payStatus[i]
  <2>1. i \in Reads(w)
    BY DEF Reads, CreditWrite, UncreditCommit
  <2> QED
    BY <1>1, <2>1, ViewsType DEF FreshReads, SettleIInv
<1>3. PICK left : /\ amountCredited' = [amountCredited EXCEPT ![i] = left]
                  /\ payStatus' = [payStatus EXCEPT ![i] = StatusStored(i, seen, seen.paid, left)]
  BY DEF CreditWrite, UncreditCommit
<1>4. UNCHANGED <<status, amountPaid, payment, alloc, booked>> /\ req' = [req EXCEPT ![w] = Idle]
  BY DEF CreditWrite, UncreditCommit, paymentVars
<1>5. StatusIsComputed'
  <2> SUFFICES ASSUME NEW k \in Invoices
               PROVE  payStatus'[k] = SettlementStatus(k, amountPaid'[k], amountCredited'[k])
    BY DEF StatusIsComputed, SettlementStatus
  <2>1. CASE k = i
    BY <1>1, <1>2, <1>3, <1>4, <2>1 DEF StatusStored, SettleIInv, TypeOK
  <2>2. CASE k # i
    <3> HIDE DEF i, seen
    <3> QED
      BY <1>3, <1>4, <2>2 DEF SettleIInv, TypeOK, BooksIInv, StatusIsComputed
  <2> QED
    BY <2>1, <2>2
<1>6. LockedRowsStand'
  BY <1>4, EndingKeepsRows
<1>7. BooksMatchPayments' /\ PaidInvoiceStands'
  BY <1>4 DEF BooksIInv, BooksMatchPayments, PaidInvoiceStands
<1>8. ASSUME NEW k \in Invoices PROVE BookedOn(k)' = BookedOn(k)
  BY <1>4 DEF BookedOn
<1> QED
  BY <1>4, <1>5, <1>6, <1>7, <1>8 DEF BooksIInv

\* void asks for an invoice on which nothing is paid: then no voucher settles it.
LEMMA VoidKeepsBooks ==
  ASSUME SettleIInv, BooksIInv, NEW w \in Workers, VoidCommit(w) PROVE BooksIInv'
<1> DEFINE x == req[w].row
<1>1. x \in Invoices /\ amountPaid[x] = 0
  BY DEF VoidCommit, SettleIInv, RowsAreHeld, BooksIInv, LockedRowsStand
<1>2. /\ status' = [status EXCEPT ![x] = "void"] /\ req' = [req EXCEPT ![w] = Idle]
      /\ UNCHANGED <<amountPaid, amountCredited, payStatus, payment, alloc, booked>>
  BY DEF VoidCommit, paymentVars
<1>3. PaidInvoiceStands'
  <2> SUFFICES ASSUME NEW p \in Payments, NEW i \in Invoices,
                      payment[p] = "submitted", alloc[p][i] > 0
               PROVE  status'[i] = "sent"
    BY <1>2 DEF PaidInvoiceStands
  <2>1. booked[p][i] = alloc[p][i] /\ booked[p][i] \in Nat /\ booked[p][i] <= amountPaid[i]
    BY BookedWithinPaid DEF SettleIInv, BooksIInv, BooksMatchPayments
  <2>2. i # x
    BY <1>1, <2>1
  <2> HIDE DEF x
  <2> QED
    BY <1>2, <2>2 DEF SettleIInv, TypeOK, BooksIInv, PaidInvoiceStands
<1>4. LockedRowsStand'
  BY <1>2, EndingKeepsRows
<1>5. BooksMatchPayments' /\ StatusIsComputed'
  BY <1>2 DEF BooksIInv, BooksMatchPayments, StatusIsComputed, SettlementStatus
<1>6. ASSUME NEW k \in Invoices PROVE BookedOn(k)' = BookedOn(k)
  BY <1>2 DEF BookedOn
<1> QED
  BY <1>2, <1>3, <1>4, <1>5, <1>6 DEF BooksIInv

LEMMA DraftNoteKeepsBooks ==
  ASSUME SettleIInv, BooksIInv, NEW c \in Notes, NEW i \in Invoices, NEW a \in CreditAmounts,
         DraftNote(c, i, a)
  PROVE  BooksIInv'
<1>1. /\ UNCHANGED <<status, amountPaid, amountCredited, payStatus>>
      /\ UNCHANGED <<payment, alloc, booked>> /\ UNCHANGED req
  BY DEF DraftNote, invoiceVars, paymentVars
<1>2. LockedRowsStand'
  BY <1>1 DEF BooksIInv, LockedRowsStand
<1> QED
  BY <1>1, <1>2, BooksStay DEF BooksIInv

\* Editing or deleting a note writes no invoice and no payment.
LEMMA NoteEditsKeepBooks ==
  ASSUME SettleIInv, BooksIInv, NEW w \in Workers,
         NoteDeleteWrite(w) \/ \E a \in CreditAmounts : NoteEditWrite(w, a)
  PROVE  BooksIInv'
<1>1. /\ UNCHANGED <<status, amountPaid, amountCredited, payStatus>>
      /\ UNCHANGED <<payment, alloc, booked>> /\ req' = [req EXCEPT ![w] = Idle]
  BY DEF NoteEditWrite, NoteDeleteWrite, invoiceVars, paymentVars
<1>2. LockedRowsStand'
  BY <1>1, EndingKeepsRows
<1> QED
  BY <1>1, <1>2, BooksStay DEF BooksIInv

LEMMA CalmStepKeepsIInv ==
  ASSUME SettleIInv, FreshReads, BooksIInv, Next PROVE SettleIInv' /\ BooksIInv'
<1>1. SettleIInv'
  BY StepKeepsIInv
<1>2. ASSUME NEW w \in Workers, Continue(w) PROVE BooksIInv'
  BY <1>1, <1>2, RequestsKeepBooks, SubmitSettleKeepsBooks, CancelWriteKeepsBooks,
     EditsKeepBooks, CreditsKeepBooks, VoidKeepsBooks, NoteEditsKeepBooks
  DEF Continue
<1>3. ASSUME NEW w \in Workers, Begin(w) \/ Refuse(w) \/ Abort(w) \/ BreakDeadlock(w)
      PROVE  BooksIInv'
  <2>1. Begin(w) \/ Rollback(w)
    BY <1>3 DEF Refuse, Abort, BreakDeadlock
  <2> QED
    BY <2>1, RequestsKeepBooks
<1> QED
  BY <1>1, <1>2, <1>3, PaymentsKeepBooks, DraftNoteKeepsBooks DEF Next

LEMMA CalmInitIsIInv == ASSUME Init PROVE SettleIInv /\ FreshReads /\ BooksIInv
<1>1. SettleIInv
  BY InitIsIInv
<1>2. FreshReads /\ LockedRowsStand
  BY IdleIsRequest DEF Init, FreshReads, Reads, LockedRowsStand
<1>3. ASSUME NEW i \in Invoices PROVE amountPaid[i] = SumOf(BookedOn(i), Payments)
  <2>1. \A p \in Payments : BookedOn(i)[p] = 0
    BY DEF Init, BookedOn, Nothing
  <2>2. SumOf(BookedOn(i), Payments) = 0
    BY <2>1, SumOfZeros, PaymentsAssumption
  <2> QED
    BY <2>2 DEF Init
<1>4. BooksMatchPayments /\ PaidInvoiceStands
  BY DEF Init, BooksMatchPayments, PaidInvoiceStands, Nothing
<1>5. StatusIsComputed
  <2>1. ASSUME NEW i \in Invoices PROVE SettlementStatus(i, 0, 0) = "unpaid"
    BY TotalAssumption DEF SettlementStatus
  <2> QED
    BY <2>1 DEF Init, StatusIsComputed
<1> QED
  BY <1>1, <1>2, <1>3, <1>4, <1>5 DEF BooksIInv

LEMMA CalmStutterKeepsIInv ==
  ASSUME SettleIInv, FreshReads, BooksIInv, UNCHANGED vars
  PROVE  SettleIInv' /\ FreshReads' /\ BooksIInv'
<1> USE DEF vars, invoiceVars, paymentVars, noteVars, lockVars
<1>1. SettleIInv'
  BY StutterKeepsIInv
<1>2. FreshReads'
  BY DEF FreshReads, Reads, View, Settles, IsDraft, Free
<1>3. LockedRowsStand'
  BY DEF BooksIInv, LockedRowsStand
<1> QED
  BY <1>1, <1>2, <1>3, BooksStay DEF BooksIInv

\* When the unlocked reads are fresh, the invoices, the payments and the books agree
\* at every moment.
THEOREM CalmInductive == CalmSpec => []CalmIInv
<1>1. Init => CalmIInv
  BY CalmInitIsIInv DEF CalmIInv
<1>2. CalmIInv /\ [Next /\ FreshReads']_vars => CalmIInv'
  BY CalmStepKeepsIInv, CalmStutterKeepsIInv DEF CalmIInv
<1> QED
  BY <1>1, <1>2, PTL DEF CalmSpec

\* On calm schedules amount_paid is what the books say was received for the invoice.
THEOREM PaidIsWhatIsBooked == CalmSpec => []PaidIsBooked
<1>1. CalmIInv => PaidIsBooked
  BY PaidAsSum DEF CalmIInv, BooksIInv
<1> QED
  BY <1>1, CalmInductive, PTL

\* On calm schedules the books hold the allocations of submitted payments only.
THEOREM BooksHoldSubmitted == CalmSpec => []BooksMatchPayments
<1>1. CalmIInv => BooksMatchPayments
  BY DEF CalmIInv, BooksIInv
<1> QED
  BY <1>1, CalmInductive, PTL

\* On calm schedules no submitted payment settles a voided invoice.
THEOREM PaidInvoicesStand == CalmSpec => []PaidInvoiceStands
<1>1. CalmIInv => PaidInvoiceStands
  BY DEF CalmIInv, BooksIInv
<1> QED
  BY <1>1, CalmInductive, PTL

\* On calm schedules payment_status says how far the amounts settle the invoice.
THEOREM StatusTells == CalmSpec => []StatusTellsSettlement
<1>1. ASSUME CalmIInv PROVE StatusTellsSettlement
  <2> USE DEF CalmIInv
  <2> SUFFICES ASSUME NEW i \in Invoices
               PROVE  /\ payStatus[i] = "unpaid"  <=> amountPaid[i] + amountCredited[i] = 0
                      /\ payStatus[i] = "partial" <=> /\ amountPaid[i] + amountCredited[i] > 0
                                                      /\ amountPaid[i] + amountCredited[i] < Total[i]
                      /\ payStatus[i] = "paid"    <=> amountPaid[i] >= Total[i]
    BY DEF StatusTellsSettlement
  <2> DEFINE m == amountPaid[i]
             n == amountCredited[i]
             t == Total[i]
  <2>1. m \in Nat /\ n \in Nat /\ t \in Nat /\ t > 0
    BY <1>1, TotalAssumption DEF SettleIInv, TypeOK
  <2>2. payStatus[i] = CASE m + n = 0 -> "unpaid"
                         [] 0 < m + n /\ m + n < t -> "partial"
                         [] m + n >= t /\ m >= t -> "paid"
                         [] OTHER -> "credited"
    BY <1>1 DEF BooksIInv, StatusIsComputed, SettlementStatus
  <2> HIDE DEF m, n, t
  <2>3. /\ payStatus[i] = "unpaid"  <=> m + n = 0
        /\ payStatus[i] = "partial" <=> m + n > 0 /\ m + n < t
        /\ payStatus[i] = "paid"    <=> m >= t
    BY <2>1, <2>2
  <2> QED
    BY <2>3 DEF m, n, t
<1> QED
  BY <1>1, CalmInductive, PTL

\* On calm schedules no credit note is finalized for more than is still owed.
THEOREM CreditsFit == CalmSpec => CreditFitsBalance
<1>1. ASSUME CalmIInv, [Next /\ FreshReads']_vars
      PROVE  [\A i \in Invoices :
                amountCredited'[i] > amountCredited[i] =>
                    amountPaid[i] + amountCredited'[i] <= Total[i]]_vars
  <2> USE DEF CalmIInv
  <2> SUFFICES ASSUME Next, NEW i \in Invoices, amountCredited'[i] > amountCredited[i]
               PROVE  amountPaid[i] + amountCredited'[i] <= Total[i]
    BY <1>1
  <2>1. amountCredited'[i] # amountCredited[i] /\ amountCredited[i] \in Nat
    BY <1>1 DEF SettleIInv, TypeOK
  <2>2. PICK w \in Workers : CreditWrite(w) \/ UncreditCommit(w)
    BY <2>1
    DEF Next, Begin, Continue, SubmitLock, CancelLock, DeleteRead, EditRead, CreditRead,
        UncreditRead, VoidLock, SubmitSettle, CancelRead, CancelWrite, EditWrite, DeleteWrite,
        NoteEditRead, NoteDeleteRead, NoteEditWrite, NoteDeleteWrite,
        UncreditWrite, VoidCommit, Refuse, Abort, BreakDeadlock, Rollback, Create, CancelDraft,
        DraftNote, invoiceVars
  <2> DEFINE c == req[w].row
             k == source[c]
             seen == req[w].seen[k]
  <2>3. /\ c \in Notes /\ k \in Invoices /\ credit[c] \in Nat /\ Total[k] \in Nat
        /\ settled[c] \in Nat
        /\ amountPaid[k] \in Nat /\ amountCredited[k] \in Nat
    BY <1>1, <2>2, TotalAssumption
    DEF CreditWrite, UncreditCommit, SettleIInv, RowsAreHeld, CreditsAreRead, OneActiveNote,
        TypeOK
  <2>4. seen.paid = amountPaid[k] /\ seen.credited = amountCredited[k]
    <3>1. k \in Reads(w)
      BY <2>2 DEF Reads, CreditWrite, UncreditCommit
    <3> QED
      BY <1>1, <2>3, <3>1, ViewsType DEF FreshReads, SettleIInv
  <2>5. CASE CreditWrite(w)
    <3>1. /\ credit[c] <= Total[k] - seen.paid - seen.credited
          /\ amountCredited' = [amountCredited EXCEPT ![k] = seen.credited + credit[c]]
      BY <2>5 DEF CreditWrite, CreditAllowed
    <3> HIDE DEF c, k, seen
    <3>2. i = k /\ amountCredited'[k] = amountCredited[k] + credit[c]
      BY <1>1, <2>1, <2>3, <2>4, <3>1 DEF SettleIInv, TypeOK
    <3> QED
      BY <2>3, <2>4, <3>1, <3>2
  <2>6. CASE UncreditCommit(w)
    <3>1. amountCredited' = [amountCredited EXCEPT ![k] = CreditReversed(seen, settled[c])]
      BY <2>6 DEF UncreditCommit
    <3>2. CreditReversed(seen, settled[c]) <= amountCredited[k]
      <4> HIDE DEF c, k, seen
      <4> QED
        BY <2>3, <2>4 DEF CreditReversed
    <3>3. ~ (CreditReversed(seen, settled[c]) > amountCredited[k])
      <4>1. CreditReversed(seen, settled[c]) \in Int
        <5> HIDE DEF c, k, seen
        <5> QED
          BY <2>3, <2>4 DEF CreditReversed
      <4> QED
        BY <2>3, <3>2, <4>1
    <3> HIDE DEF c, k, seen
    <3> QED
      BY <1>1, <2>1, <2>3, <3>1, <3>3 DEF SettleIInv, TypeOK
  <2> QED
    BY <2>2, <2>5, <2>6
<1> QED
  BY <1>1, CalmInductive, PTL DEF CalmSpec, CreditFitsBalance

\* On calm schedules no submitted payment is deleted.
THEOREM SubmittedStay == CalmSpec => SubmittedIsNotDeleted
<1>1. ASSUME CalmIInv, [Next /\ FreshReads']_vars
      PROVE  [\A p \in Payments : payment[p] = "submitted" => payment'[p] # "deleted"]_vars
  <2> SUFFICES ASSUME Next, NEW p \in Payments, payment[p] = "submitted", payment'[p] = "deleted"
               PROVE  FALSE
    BY <1>1
  <2> USE <1>1 DEF CalmIInv, SettleIInv, TypeOK
  <2>1. PICK w \in Workers : DeleteWrite(w)
    <3>1. payment' # payment
      OBVIOUS
    <3>2. ASSUME NEW w \in Workers,
                 Begin(w) \/ CancelRead(w) \/ UncreditWrite(w) \/ Rollback(w)
          PROVE  payment' = payment
      <4>1. CASE Begin(w)
        <5>1. PICK r : Begun(w, r)
          BY <4>1, BeginsAreBegun
        <5> QED
          BY <5>1 DEF Begun, OnlyRequests, paymentVars
      <4>2. CASE CancelRead(w) \/ UncreditWrite(w) \/ Rollback(w)
        BY <4>2 DEF CancelRead, UncreditWrite, Rollback, paymentVars
      <4> QED
        BY <3>2, <4>1, <4>2
    <3>3. ASSUME NEW w \in Workers,
                 \/ EditWrite(w) \/ CreditWrite(w) \/ UncreditCommit(w) \/ VoidCommit(w)
                 \/ NoteDeleteWrite(w) \/ \E a \in CreditAmounts : NoteEditWrite(w, a)
          PROVE  payment' = payment
      BY <3>3 DEF EditWrite, CreditWrite, UncreditCommit, VoidCommit, NoteDeleteWrite,
                  NoteEditWrite, paymentVars
    <3>4. ASSUME NEW w \in Workers, SubmitSettle(w) \/ CancelWrite(w)
          PROVE  payment'[p] # "deleted"
      BY <3>4 DEF SubmitSettle, CancelWrite
    <3>5. ASSUME NEW q \in Payments, CancelDraft(q) \/ \E a \in Allocations : Create(q, a)
          PROVE  payment'[p] # "deleted"
      BY <3>5 DEF CancelDraft, Create
    <3>6. ASSUME NEW c \in Notes, NEW i \in Invoices, NEW a \in CreditAmounts,
                 DraftNote(c, i, a)
          PROVE  payment' = payment
      BY <3>6 DEF DraftNote, paymentVars
    <3> HIDE DEF TypeOK
    <3> QED
      BY <3>1, <3>2, <3>3, <3>4, <3>5, <3>6 DEF Next, Continue, Refuse, Abort, BreakDeadlock
  <2>2. payment[req[w].row] = "draft" /\ payment' = [payment EXCEPT ![req[w].row] = "deleted"]
    BY <2>1 DEF DeleteWrite, FreshReads, IsDraft
  <2> QED
    BY <2>2
<1> QED
  BY <1>1, CalmInductive, PTL DEF CalmSpec, SubmittedIsNotDeleted

=============================================================================
