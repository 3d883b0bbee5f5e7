---------------------------- MODULE Filing_proofs ----------------------------
(***************************************************************************)
(* Every accepted filing is traced, and a cached list is whole, for any        *)
(* documents, lists, batch size and number of requests and jobs at a time.     *)
(*                                                                          *)
(* FiledIsTraced counts: each filing the authority accepted is an attempt or   *)
(* a request that still has to write one.  The count is kept because a request *)
(* that has not asked yet has nothing accepted (AnswersComeLast) and because    *)
(* the lock keeps its document a draft (LockedAreDrafts).  CachedListIsWhole    *)
(* holds because a batch always consists of whole lists (BatchesAreWhole).      *)
(***************************************************************************)
EXTENDS Filing, FiniteSetTheorems, TLAPS

Rows == Codes \cup {NoneMark}

FilerRecord ==
    {Away} \cup [kind : Locking \cup {"report", "trace", "delete"}, doc : Invoices, accepted : BOOLEAN]
    \cup [kind : {"ask"}, list : Lists]
    \cup [kind : {"sync"}, todo : SUBSET Lists, batch : SUBSET (Lists \X Rows)]

\* Documents, attempts, lists and requests keep their types.
FilingTypeOK ==
    /\ invoice \in [Invoices -> [status : {"draft", "sent", "void", "deleted"}, number : BOOLEAN]]
    /\ attempts \in [Invoices -> Seq({"submitted", "failed"})]
    /\ held \in [Invoices -> Nat]
    /\ filer \in [Filers -> FilerRecord]
    /\ cutOff \subseteq Invoices
    /\ answer \in [Lists -> SUBSET Codes]
    /\ cache \in [Lists -> SUBSET Rows]
    /\ given \in [Lists -> SUBSET (SUBSET Codes)]

\* A request that has no answer yet has nothing accepted; one that commits has.
AnswersComeLast ==
    \A f \in Filers :
        /\ filer[f].kind \in {"validate", "post"} => ~filer[f].accepted
        /\ filer[f].kind = "commit" => filer[f].accepted

\* A document that is locked for filing is a draft, and locked once.
LockedAreDrafts ==
    \A f \in Filers : filer[f].kind \in Locking =>
        /\ invoice[filer[f].doc].status = "draft"
        /\ \A g \in Filers : filer[g].kind \in Locking /\ filer[g].doc = filer[f].doc => g = f

UnwrittenIsFinite == \A d \in Invoices : IsFiniteSet(Unwritten(d))

FiledIInv ==
    FilingTypeOK /\ AnswersComeLast /\ LockedAreDrafts /\ UnwrittenIsFinite /\ FiledIsTraced

\* Rows that stand for a list: none, or a whole answer and whatever else, and the
\* mark of an empty list only if there was one.
IsWhole(rows, answers) ==
    /\ rows # {} => \E codes \in answers : RowsOf(codes) \subseteq rows
    /\ NoneMark \in rows => {} \in answers

RowsIn(batch, l) == {r[2] : r \in {q \in batch : q[1] = l}}

BatchesAreWhole ==
    \A f \in Filers, l \in Lists :
        filer[f].kind = "sync" => IsWhole(RowsIn(filer[f].batch, l), given[l])

CachedIInv == FilingTypeOK /\ BatchesAreWhole /\ CachedListIsWhole

-----------------------------------------------------------------------------
\* What each request is, by its kind.
LEMMA KindsOfRequests ==
    ASSUME FilingTypeOK, NEW f \in Filers
    PROVE  /\ filer[f].kind \in Locking \cup {"report", "trace", "delete"} =>
                filer[f].doc \in Invoices /\ filer[f].accepted \in BOOLEAN
           /\ filer[f].kind = "ask" => filer[f].list \in Lists
           /\ filer[f].kind = "sync" =>
                /\ filer[f].todo \in SUBSET Lists /\ filer[f].batch \in SUBSET (Lists \X Rows)
                /\ DOMAIN filer[f] = {"kind", "todo", "batch"}
<1>1. filer[f] \in FilerRecord
  BY DEF FilingTypeOK
<1> QED
  BY <1>1 DEF FilerRecord, Away, Locking

\* Nothing is filed or stored at the start.
LEMMA FilingInitIInv == FilingInit => FiledIInv /\ CachedIInv
<1> SUFFICES ASSUME FilingInit PROVE FiledIInv /\ CachedIInv
  OBVIOUS
<1>1. FilingTypeOK
  BY DEF FilingInit, FilingTypeOK, FilerRecord
<1>2. \A d \in Invoices : Unwritten(d) = {}
  BY DEF FilingInit, Unwritten, Away, Locking
<1>3. UnwrittenIsFinite /\ \A d \in Invoices : Cardinality(Unwritten(d)) = 0
  BY <1>2, FS_EmptySet DEF UnwrittenIsFinite
<1>4. AnswersComeLast /\ LockedAreDrafts /\ FiledIsTraced
  BY <1>3 DEF FilingInit, AnswersComeLast, LockedAreDrafts, FiledIsTraced, Away, Locking
<1>5. BatchesAreWhole /\ CachedListIsWhole
  BY DEF FilingInit, BatchesAreWhole, CachedListIsWhole, Away
<1> QED
  BY <1>1, <1>3, <1>4, <1>5 DEF FiledIInv, CachedIInv

-----------------------------------------------------------------------------
\* Types, action by action.
LEMMA FilingTypeStep ==
    ASSUME FilingTypeOK, FilingNext
    PROVE  FilingTypeOK'
<1>0. ASSUME NEW d \in Invoices, NEW status \in {"sent", "void"},
             invoice' = [invoice EXCEPT ![d].status = status]
      PROVE  invoice' \in [Invoices -> [status : {"draft", "sent", "void", "deleted"}, number : BOOLEAN]]
  <2> DEFINE States == [status : {"draft", "sent", "void", "deleted"}, number : BOOLEAN]
  <2>1. invoice \in [Invoices -> States] /\ [invoice[d] EXCEPT !.status = status] \in States
    BY DEF FilingTypeOK
  <2> HIDE DEF States
  <2>2. invoice' = [invoice EXCEPT ![d] = [invoice[d] EXCEPT !.status = status]]
    BY <1>0
  <2>3. invoice' \in [Invoices -> States]
    BY <2>1, <2>2
  <2> QED
    BY <2>3 DEF States
<1>1. ASSUME NEW f \in Filers, NEW kind \in Locking \cup {"report", "trace", "delete"},
             NEW d \in Invoices, NEW accepted \in BOOLEAN, Turned(f, kind, d, accepted)
      PROVE  filer' \in [Filers -> FilerRecord]
  BY <1>1 DEF Turned, FilingTypeOK, FilerRecord
<1>2. ASSUME NEW f \in Filers, filer' = [filer EXCEPT ![f] = Away]
      PROVE  filer' \in [Filers -> FilerRecord]
  BY <1>2 DEF FilingTypeOK, FilerRecord
<1>3. ASSUME NEW f \in Filers, NEW d \in Invoices, FileInvoice(f, d)
      PROVE  FilingTypeOK'
  <2>1. CASE UNCHANGED filer /\ invoice' = [invoice EXCEPT ![d].status = "sent"]
    BY <1>0, <1>3, <2>1 DEF FileInvoice, FilingTypeOK, listVars
  <2>2. CASE \E kind \in {"report", "validate", "post"} : Turned(f, kind, d, FALSE) /\ UNCHANGED invoice
    BY <1>1, <1>3, <2>2 DEF FileInvoice, FilingTypeOK, listVars, Locking
  <2> QED
    BY <1>3, <2>1, <2>2 DEF FileInvoice
<1>4. ASSUME NEW f \in Filers, Validated(f) \/ CommitFails(f)
      PROVE  FilingTypeOK'
  <2>1. filer[f].doc \in Invoices
    BY <1>4, KindsOfRequests DEF Validated, CommitFails, Locking
  <2>2. filer' \in [Filers -> FilerRecord]
    BY <1>1, <1>4, <2>1 DEF Validated, CommitFails, AfterFailedCommit, Locking, Turned
  <2> QED
    BY <1>4, <2>2 DEF Validated, CommitFails, FilingTypeOK, listVars, documentVars
<1>5. ASSUME NEW f \in Filers, Answered(f)
      PROVE  FilingTypeOK'
  <2>1. filer[f].doc \in Invoices
    BY <1>5, KindsOfRequests DEF Answered, Locking
  <2>2. filer' \in [Filers -> FilerRecord]
    BY <1>1, <1>5, <2>1 DEF Answered, Locking
  <2>3. held' \in [Invoices -> Nat]
    <3>1. held' = [held EXCEPT ![filer[f].doc] = @ + 1] \/ held' = held
      BY <1>5 DEF Answered
    <3>2. held \in [Invoices -> Nat] /\ held[filer[f].doc] + 1 \in Nat
      BY <2>1 DEF FilingTypeOK
    <3> QED
      BY <3>1, <3>2
  <2> QED
    BY <1>5, <2>2, <2>3 DEF Answered, FilingTypeOK, listVars
<1>6. ASSUME NEW f \in Filers, CommitFiled(f) \/ WriteAttempt(f) \/ CrashFiling(f)
      PROVE  FilingTypeOK'
  <2>1. filer[f].doc \in Invoices
    BY <1>6, KindsOfRequests DEF CommitFiled, WriteAttempt, CrashFiling, Locking
  <2>2. filer' \in [Filers -> FilerRecord]
    BY <1>2, <1>6 DEF CommitFiled, WriteAttempt, CrashFiling
  <2>3. \A x \in {"submitted", "failed"} :
            [attempts EXCEPT ![filer[f].doc] = Append(@, x)] \in [Invoices -> Seq({"submitted", "failed"})]
    BY <2>1 DEF FilingTypeOK
  <2>4. CASE CommitFiled(f)
    BY <2>1, <2>2, <2>3, <2>4 DEF CommitFiled, FilingTypeOK, listVars
  <2>5. CASE WriteAttempt(f)
    BY <2>1, <2>2, <2>3, <2>5 DEF WriteAttempt, FilingTypeOK, listVars
  <2>6. CASE CrashFiling(f)
    BY <2>1, <2>2, <2>6 DEF CrashFiling, FilingTypeOK, listVars
  <2> QED
    BY <1>6, <2>4, <2>5, <2>6
<1>7. ASSUME NEW f \in Filers, NEW d \in Invoices, DeleteRead(f, d)
      PROVE  FilingTypeOK'
  <2>1. filer' \in [Filers -> FilerRecord]
    BY <1>1, <1>7 DEF DeleteRead
  <2> QED
    BY <1>7, <2>1 DEF DeleteRead, FilingTypeOK, listVars, documentVars
<1>8. ASSUME NEW f \in Filers, DeleteWrite(f)
      PROVE  FilingTypeOK'
  <2>1. filer[f].doc \in Invoices
    BY <1>8, KindsOfRequests DEF DeleteWrite
  <2>2. [attempts EXCEPT ![filer[f].doc] = <<>>] \in [Invoices -> Seq({"submitted", "failed"})]
    BY <2>1 DEF FilingTypeOK
  <2>3. [invoice EXCEPT ![filer[f].doc] = [status |-> "deleted", number |-> FALSE]]
            \in [Invoices -> [status : {"draft", "sent", "void", "deleted"}, number : BOOLEAN]]
    BY <2>1 DEF FilingTypeOK
  <2>4. filer' \in [Filers -> FilerRecord]
    BY <1>2, <1>8 DEF DeleteWrite
  <2> QED
    BY <1>8, <2>2, <2>3, <2>4 DEF DeleteWrite, FilingTypeOK, listVars
<1>9. ASSUME NEW d \in Invoices, VoidDocument(d)
      PROVE  FilingTypeOK'
  <2>1. invoice' \in [Invoices -> [status : {"draft", "sent", "void", "deleted"}, number : BOOLEAN]]
    BY <1>0, <1>9 DEF VoidDocument
  <2> QED
    BY <1>9, <2>1 DEF VoidDocument, FilingTypeOK, listVars
<1> QED
  BY <1>3, <1>4, <1>5, <1>6, <1>7, <1>8, <1>9 DEF FilingNext

-----------------------------------------------------------------------------
\* What one request r has to its account of the filings of d.
IsPending(r, d) == r.kind \in Locking \cup {"report", "trace"} /\ r.doc = d /\ r.accepted
Weight(r, d)    == IF IsPending(r, d) THEN 1 ELSE 0

\* What the authority holds of d grows by no more than its attempts and what is
\* still to be written, if request f turns into r.
Balanced(f, r, d) ==
    held'[d] - held[d] <= Len(attempts'[d]) - Len(attempts[d]) + Weight(r, d) - Weight(filer[f], d)

\* Those that may carry a number: sent, or a credit note that was voided.
MayCarry(d) == invoice[d].status = "sent" \/ (invoice[d].status = "void" /\ d \in CreditNotes)

NumbersAreVouched ==
    \A d \in Invoices : invoice[d].number =>
        MayCarry(d) /\ \E i \in DOMAIN attempts[d] : attempts[d][i] = "submitted"

\* When request f turns into r, the unwritten filings of d change by its weight.
LEMMA UnwrittenChanges ==
    ASSUME FilingTypeOK, NEW f \in Filers, NEW r, filer' = [filer EXCEPT ![f] = r],
           NEW d \in Invoices, IsFiniteSet(Unwritten(d))
    PROVE  /\ IsFiniteSet(Unwritten(d)') /\ Cardinality(Unwritten(d)) \in Nat
           /\ Cardinality(Unwritten(d)') =
                  Cardinality(Unwritten(d)) + Weight(r, d) - Weight(filer[f], d)
<1> DEFINE U == Unwritten(d)
<1>1. f \in U <=> IsPending(filer[f], d)
  BY DEF Unwritten, IsPending
<1>2. U' = IF IsPending(r, d) THEN U \cup {f} ELSE U \ {f}
  BY DEF Unwritten, IsPending, FilingTypeOK
<1>3. IsFiniteSet(U) /\ U' = Unwritten(d)'
  OBVIOUS
<1> HIDE DEF U
<1>4. /\ IsFiniteSet(U \cup {f}) /\ IsFiniteSet(U \ {f}) /\ Cardinality(U) \in Nat
      /\ Cardinality(U \cup {f}) = IF f \in U THEN Cardinality(U) ELSE Cardinality(U) + 1
      /\ Cardinality(U \ {f}) = IF f \in U THEN Cardinality(U) - 1 ELSE Cardinality(U)
  BY <1>3, FS_AddElement, FS_RemoveElement, FS_CardinalityType
<1>5. /\ IsFiniteSet(U') /\ Cardinality(U) \in Nat
      /\ Cardinality(U') = Cardinality(U) + Weight(r, d) - Weight(filer[f], d)
  BY <1>1, <1>2, <1>4 DEF Weight
<1> QED
  BY <1>5 DEF U

\* A request f turns into r.  The invariant stays if r keeps its parts, if the
\* documents others have locked stay drafts, and if what filings leave is balanced
\* and vouched for.
LEMMA TurningKeepsIInv ==
    ASSUME FiledIInv, FilingTypeOK', NEW f \in Filers, NEW r, filer' = [filer EXCEPT ![f] = r],
           r.kind \in {"validate", "post"} => ~r.accepted,
           r.kind = "commit" => r.accepted,
           r.kind \in Locking => invoice'[r.doc].status = "draft",
           \A g \in Filers \ {f} : filer[g].kind \in Locking =>
               /\ invoice'[filer[g].doc].status = "draft"
               /\ r.kind \in Locking => filer[g].doc # r.doc,
           \A d \in Invoices : invoice'[d].status # "deleted" /\ d \notin cutOff' =>
               /\ invoice[d].status # "deleted" /\ d \notin cutOff
               /\ Balanced(f, r, d),
           NumbersAreVouched'
    PROVE  FiledIInv'
<1>1. filer'[f] = r /\ \A g \in Filers \ {f} : filer'[g] = filer[g]
  BY DEF FiledIInv, FilingTypeOK
<1>2. AnswersComeLast'
  BY <1>1 DEF FiledIInv, AnswersComeLast
<1>3. LockedAreDrafts'
  BY <1>1 DEF FiledIInv, LockedAreDrafts
<1>4. \A d \in Invoices :
        /\ IsFiniteSet(Unwritten(d)') /\ Cardinality(Unwritten(d)) \in Nat
        /\ Cardinality(Unwritten(d)') =
               Cardinality(Unwritten(d)) + Weight(r, d) - Weight(filer[f], d)
  BY UnwrittenChanges DEF FiledIInv, UnwrittenIsFinite
<1>5. UnwrittenIsFinite'
  BY <1>4 DEF UnwrittenIsFinite
<1>6. \A d \in Invoices : /\ held[d] \in Nat /\ held'[d] \in Nat
                          /\ Len(attempts[d]) \in Nat /\ Len(attempts'[d]) \in Nat
                          /\ Weight(r, d) \in Nat /\ Weight(filer[f], d) \in Nat
  BY DEF FiledIInv, FilingTypeOK, Weight
<1>7. FiledIsTraced'
  <2> SUFFICES ASSUME NEW d \in Invoices, invoice'[d].status # "deleted", d \notin cutOff'
               PROVE  held'[d] <= Len(attempts'[d]) + Cardinality(Unwritten(d)')
    BY DEF FiledIsTraced, NumbersAreVouched, MayCarry
  <2>1. held[d] <= Len(attempts[d]) + Cardinality(Unwritten(d))
    BY DEF FiledIInv, FiledIsTraced
  <2>2. held'[d] - held[d] <= Len(attempts'[d]) - Len(attempts[d])
                               + Weight(r, d) - Weight(filer[f], d)
    BY DEF Balanced
  <2>3. /\ Cardinality(Unwritten(d)) \in Nat
        /\ Cardinality(Unwritten(d)') =
               Cardinality(Unwritten(d)) + Weight(r, d) - Weight(filer[f], d)
    BY <1>4
  <2>4. /\ held[d] \in Nat /\ held'[d] \in Nat
        /\ Len(attempts[d]) \in Nat /\ Len(attempts'[d]) \in Nat
        /\ Weight(r, d) \in Nat /\ Weight(filer[f], d) \in Nat
    BY <1>6
  <2>5. \A a, b, k, n, w, v, c \in Int :
            a <= k + c /\ b - a <= n - k + w - v => b <= n + (c + w - v)
    OBVIOUS
  <2>6. held'[d] <= Len(attempts'[d]) + (Cardinality(Unwritten(d)) + Weight(r, d) - Weight(filer[f], d))
    <3> DEFINE a == held[d]  b == held'[d]  k == Len(attempts[d])  n == Len(attempts'[d])
               w == Weight(r, d)  v == Weight(filer[f], d)  c == Cardinality(Unwritten(d))
    <3>1. /\ a \in Int /\ b \in Int /\ k \in Int /\ n \in Int
          /\ w \in Int /\ v \in Int /\ c \in Int
      BY <2>3, <2>4
    <3>2. a <= k + c
      BY <2>1
    <3>3. b - a <= n - k + w - v
      BY <2>2
    <3> HIDE DEF a, b, k, n, w, v, c
    <3>4. b <= n + (c + w - v)
      BY <3>1, <3>2, <3>3, <2>5
    <3> QED
      BY <3>4 DEF a, b, k, n, w, v, c
  <2> QED
    BY <2>3, <2>6
<1> QED
  BY <1>2, <1>3, <1>5, <1>7 DEF FiledIInv

\* A filing that begins has nothing to its account (finalize, _file_with_fbr).
LEMMA BeginningFilingKeepsIInv ==
    ASSUME FiledIInv, FilingTypeOK', NEW f \in Filers, NEW d \in Invoices, FileInvoice(f, d)
    PROVE  FiledIInv'
<1>1. /\ filer[f] = Away /\ invoice[d].status = "draft" /\ UNCHANGED <<attempts, held, cutOff>>
      /\ \A g \in Filers : filer[g].kind \in Locking => filer[g].doc # d
  BY DEF FileInvoice, DocFree
<1>2. \A r, e : Weight(r, e) = 0 /\ e \in Invoices => Balanced(f, r, e)
  BY <1>1 DEF FiledIInv, FilingTypeOK, Balanced, Weight, IsPending, Away, Locking
<1>3. \A g \in Filers : filer[g].kind \in Locking => invoice[filer[g].doc].status = "draft"
                                                   /\ filer[g].doc \in Invoices \ {d}
  BY <1>1, KindsOfRequests DEF FiledIInv, LockedAreDrafts
<1>4. NumbersAreVouched
  BY DEF FiledIInv, FiledIsTraced, NumbersAreVouched, MayCarry
<1>5. CASE UNCHANGED filer /\ invoice' = [invoice EXCEPT ![d].status = "sent"]
  <2>1. filer' = [filer EXCEPT ![f] = Away]
    BY <1>1, <1>5 DEF FiledIInv, FilingTypeOK
  <2>2. \A e \in Invoices : Balanced(f, Away, e)
    BY <1>2 DEF Weight, IsPending, Away, Locking
  <2>3. /\ invoice'[d].status = "sent" /\ invoice'[d].number = invoice[d].number
        /\ \A e \in Invoices \ {d} : invoice'[e] = invoice[e]
    BY <1>5 DEF FiledIInv, FilingTypeOK
  <2>4. \A g \in Filers : filer[g].kind \in Locking => invoice'[filer[g].doc].status = "draft"
    BY <1>3, <2>3
  <2>5. NumbersAreVouched'
    BY <1>1, <1>4, <2>3 DEF NumbersAreVouched, MayCarry
  <2>6. \A e \in Invoices : invoice'[e].status # "deleted" => invoice[e].status # "deleted"
    BY <1>1, <2>3
  <2>7. Away.kind \notin Locking \cup {"validate", "post", "commit"}
    BY DEF Away, Locking
  <2> QED
    BY <1>1, <2>1, <2>2, <2>4, <2>5, <2>6, <2>7, TurningKeepsIInv
<1>6. ASSUME NEW kind \in {"report", "validate", "post"}, Turned(f, kind, d, FALSE), UNCHANGED invoice
      PROVE  FiledIInv'
  <2> DEFINE r == [kind |-> kind, doc |-> d, accepted |-> FALSE]
  <2>1. filer' = [filer EXCEPT ![f] = r]
    BY <1>6 DEF Turned
  <2>2. r.kind = kind /\ r.doc = d /\ ~r.accepted /\ r.kind # "commit"
    OBVIOUS
  <2>3. \A e \in Invoices : Balanced(f, r, e)
    BY <1>2 DEF Weight, IsPending
  <2>4. NumbersAreVouched'
    BY <1>1, <1>4, <1>6 DEF NumbersAreVouched, MayCarry
  <2> HIDE DEF r
  <2> QED
    BY <1>1, <1>3, <1>6, <2>1, <2>2, <2>3, <2>4, TurningKeepsIInv
<1> QED
  BY <1>5, <1>6 DEF FileInvoice

\* The documents others have locked are drafts, and not f's.
LEMMA OthersAreLocked ==
    ASSUME FiledIInv, NEW f \in Filers
    PROVE  \A g \in Filers \ {f} : filer[g].kind \in Locking =>
               /\ filer[g].doc \in Invoices /\ invoice[filer[g].doc].status = "draft"
               /\ filer[f].kind \in Locking => filer[g].doc # filer[f].doc
BY KindsOfRequests DEF FiledIInv, LockedAreDrafts

\* Nothing accepted before and after, and nothing written: the account is as it was.
LEMMA NothingChanges ==
    ASSUME FilingTypeOK, NEW f \in Filers, NEW r, NEW d \in Invoices,
           Weight(r, d) = Weight(filer[f], d), held'[d] = held[d], attempts'[d] = attempts[d]
    PROVE  Balanced(f, r, d)
<1>1. held[d] \in Nat /\ Len(attempts[d]) \in Nat /\ Weight(r, d) \in Nat
  BY DEF FilingTypeOK, Weight
<1> QED
  BY <1>1 DEF Balanced

\* Asking the authority, its answers, and a commit that fails: only an answer that
\* accepts adds to the account, and the request has it to write from then on
\* (submit_invoice).
LEMMA AskingKeepsIInv ==
    ASSUME FiledIInv, FilingTypeOK', NEW f \in Filers, Validated(f) \/ Answered(f) \/ CommitFails(f)
    PROVE  FiledIInv'
<1> DEFINE d == filer[f].doc
<1>1. /\ d \in Invoices /\ invoice[d].status = "draft" /\ UNCHANGED <<invoice, attempts, cutOff>>
      /\ filer[f].kind \in Locking
      /\ filer[f].kind # "commit" => ~filer[f].accepted
  BY KindsOfRequests DEF Validated, Answered, CommitFails, documentVars, Locking, FiledIInv,
                         LockedAreDrafts, AnswersComeLast
<1>2. NumbersAreVouched'
  BY <1>1 DEF FiledIInv, FiledIsTraced, NumbersAreVouched, MayCarry
<1>3. ASSUME NEW r, filer' = [filer EXCEPT ![f] = r], r.kind \in Locking \cup {"report", "trace"},
             r.doc = d, r.kind \in {"validate", "post"} => ~r.accepted, r.kind = "commit" => r.accepted,
             \A e \in Invoices : Balanced(f, r, e)
      PROVE  FiledIInv'
  <2>1. \A g \in Filers \ {f} : filer[g].kind \in Locking =>
            invoice'[filer[g].doc].status = "draft" /\ filer[g].doc # r.doc
    <3>1. \A g \in Filers \ {f} : filer[g].kind \in Locking =>
              invoice[filer[g].doc].status = "draft" /\ filer[g].doc # d
      BY <1>1, OthersAreLocked
    <3>2. invoice' = invoice
      BY <1>1
    <3> QED
      BY <1>3, <3>1, <3>2
  <2>2. \A e \in Invoices : invoice'[e].status # "deleted" /\ e \notin cutOff' =>
            invoice[e].status # "deleted" /\ e \notin cutOff
    BY <1>1
  <2>3. invoice'[r.doc].status = "draft"
    BY <1>1, <1>3
  <2> HIDE DEF d
  <2> QED
    BY <1>2, <1>3, <2>1, <2>2, <2>3, TurningKeepsIInv
<1>4. ASSUME UNCHANGED held, filer[f].kind # "commit", NEW kind \in {"post", "report"},
             Turned(f, kind, d, FALSE)
      PROVE  FiledIInv'
  <2> DEFINE r == [kind |-> kind, doc |-> d, accepted |-> FALSE]
  <2>1. \A e \in Invoices : Weight(r, e) = Weight(filer[f], e)
    <3>1. ~r.accepted /\ ~filer[f].accepted
      BY <1>1, <1>4
    <3> QED
      BY <3>1 DEF Weight, IsPending
  <2>2. \A e \in Invoices : Balanced(f, r, e)
    BY <1>1, <1>4, <2>1, NothingChanges DEF FiledIInv
  <2> QED
    BY <1>3, <1>4, <2>2 DEF Turned, Locking
<1>5. CASE Validated(f)
  BY <1>4, <1>5 DEF Validated, documentVars
<1>6. CASE CommitFails(f)
  <2> DEFINE r == AfterFailedCommit(d)
  <2>1. \A e \in Invoices : Weight(r, e) = Weight(filer[f], e)
    BY <1>6 DEF CommitFails, FiledIInv, AnswersComeLast, AfterFailedCommit, Weight, IsPending, Locking
  <2>2. \A e \in Invoices : Balanced(f, r, e)
    BY <1>6, <2>1, NothingChanges DEF FiledIInv, CommitFails, documentVars
  <2> QED
    BY <1>3, <1>6, <2>2 DEF CommitFails, AfterFailedCommit, Locking
<1>7. ASSUME NEW kind \in {"commit", "report"}, Turned(f, kind, d, TRUE),
             held' = [held EXCEPT ![d] = @ + 1], filer[f].kind = "post"
      PROVE  FiledIInv'
  <2> DEFINE r == [kind |-> kind, doc |-> d, accepted |-> TRUE]
  <2>1. Weight(r, d) = 1 /\ Weight(filer[f], d) = 0
    BY <1>1, <1>7 DEF Weight, IsPending, Locking
  <2>2. held'[d] = held[d] + 1 /\ held[d] \in Nat /\ Len(attempts[d]) \in Nat
    BY <1>1, <1>7 DEF FiledIInv, FilingTypeOK
  <2>3. Balanced(f, r, d)
    BY <1>1, <2>1, <2>2 DEF Balanced
  <2>4. ASSUME NEW e \in Invoices \ {d}
        PROVE  Balanced(f, r, e)
    <3>1. Weight(r, e) = Weight(filer[f], e) /\ held'[e] = held[e] /\ attempts'[e] = attempts[e]
      BY <1>1, <1>7 DEF Weight, IsPending, FiledIInv, FilingTypeOK
    <3> QED
      BY <3>1, NothingChanges DEF FiledIInv
  <2> QED
    BY <1>3, <1>7, <2>3, <2>4 DEF Turned, Locking
<1>8. CASE Answered(f)
  BY <1>4, <1>7, <1>8 DEF Answered
<1> QED
  BY <1>5, <1>6, <1>8

\* An attempt more: those there were are where they were.
LEMMA AttemptsGrow ==
    ASSUME NEW rows \in Seq({"submitted", "failed"}), NEW x \in {"submitted", "failed"}
    PROVE  /\ Len(Append(rows, x)) = Len(rows) + 1 /\ Len(rows) \in Nat
           /\ \A i \in DOMAIN rows : i \in DOMAIN Append(rows, x) /\ Append(rows, x)[i] = rows[i]
           /\ Len(rows) + 1 \in DOMAIN Append(rows, x) /\ Append(rows, x)[Len(rows) + 1] = x
OBVIOUS

\* A request that is through: what it had accepted is an attempt now, or cut off
\* (_commit_filed, record_attempt).
LEMMA EndingFilingKeepsIInv ==
    ASSUME FiledIInv, FilingTypeOK', NEW f \in Filers,
           CommitFiled(f) \/ WriteAttempt(f) \/ CrashFiling(f)
    PROVE  FiledIInv'
<1> DEFINE d == filer[f].doc
<1>1. /\ d \in Invoices /\ UNCHANGED held /\ filer' = [filer EXCEPT ![f] = Away]
      /\ filer[f].kind \in Locking \cup {"report", "trace", "delete"} /\ filer[f].accepted \in BOOLEAN
  <2>1. filer[f].kind \in Locking \cup {"report", "trace", "delete"}
    BY DEF CommitFiled, WriteAttempt, CrashFiling, Locking
  <2> QED
    BY <2>1, KindsOfRequests DEF CommitFiled, WriteAttempt, CrashFiling, FiledIInv
<1>2. \A e \in Invoices : Weight(Away, e) = 0
  BY DEF Weight, IsPending, Away, Locking
<1>3. ASSUME NEW e \in Invoices \ {d}, attempts'[e] = attempts[e]
      PROVE  Balanced(f, Away, e)
  <2>1. Weight(filer[f], e) = 0
    BY <1>3 DEF Weight, IsPending
  <2> QED
    BY <1>1, <1>2, <1>3, <2>1, NothingChanges DEF FiledIInv
<1>4. ASSUME NEW x \in {"submitted", "failed"}, attempts'[d] = Append(attempts[d], x)
      PROVE  Balanced(f, Away, d)
  <2>1. attempts[d] \in Seq({"submitted", "failed"}) /\ held[d] \in Nat
    BY <1>1 DEF FiledIInv, FilingTypeOK
  <2>2. Len(attempts'[d]) = Len(attempts[d]) + 1 /\ Len(attempts[d]) \in Nat
    BY <1>4, <2>1, AttemptsGrow
  <2>3. Weight(filer[f], d) \in {0, 1} /\ Weight(Away, d) = 0 /\ held'[d] = held[d]
    BY <1>1, <1>2 DEF Weight
  <2> HIDE DEF d
  <2> QED
    BY <2>1, <2>2, <2>3 DEF Balanced
<1>5. NumbersAreVouched
  BY DEF FiledIInv, FiledIsTraced, NumbersAreVouched, MayCarry
<1>6. ASSUME \A e \in Invoices : invoice'[e].status # "deleted" /\ e \notin cutOff' =>
                 /\ invoice[e].status # "deleted" /\ e \notin cutOff
                 /\ Balanced(f, Away, e),
             \A e \in Invoices \ {d} : invoice'[e] = invoice[e],
             filer[f].kind \in Locking \/ invoice' = invoice,
             NumbersAreVouched'
      PROVE  FiledIInv'
  <2>1. \A g \in Filers \ {f} : filer[g].kind \in Locking => invoice'[filer[g].doc].status = "draft"
    BY <1>6, OthersAreLocked
  <2>2. Away.kind \notin Locking \cup {"validate", "post", "commit"}
    BY DEF Away, Locking
  <2> QED
    BY <1>1, <1>6, <2>1, <2>2, TurningKeepsIInv
<1>7. CASE CommitFiled(f)
  <2>1. /\ invoice' = [invoice EXCEPT ![d] = [status |-> "sent", number |-> TRUE]]
        /\ attempts' = [attempts EXCEPT ![d] = Append(@, "submitted")] /\ UNCHANGED cutOff
        /\ filer[f].kind \in Locking
    BY <1>7 DEF CommitFiled, Locking
  <2>2. /\ invoice'[d].status = "sent" /\ attempts'[d] = Append(attempts[d], "submitted")
        /\ \A e \in Invoices \ {d} : invoice'[e] = invoice[e] /\ attempts'[e] = attempts[e]
        /\ attempts[d] \in Seq({"submitted", "failed"}) /\ invoice[d].status = "draft"
    BY <1>1, <2>1 DEF FiledIInv, FilingTypeOK, LockedAreDrafts
  <2>3. \A e \in Invoices : Balanced(f, Away, e)
    BY <1>3, <1>4, <2>2
  <2>4. \E i \in DOMAIN attempts'[d] : attempts'[d][i] = "submitted"
    BY <2>2, AttemptsGrow
  <2>5. NumbersAreVouched'
    BY <1>5, <2>2, <2>4 DEF NumbersAreVouched, MayCarry
  <2>6. \A e \in Invoices : invoice'[e].status # "deleted" => invoice[e].status # "deleted"
    BY <2>2
  <2> QED
    BY <1>6, <2>1, <2>2, <2>3, <2>5, <2>6
<1>8. CASE WriteAttempt(f)
  <2>1. PICK x \in {"submitted", "failed"} :
            attempts' = IF invoice[d].status = "deleted" THEN attempts
                        ELSE [attempts EXCEPT ![d] = Append(@, x)]
    BY <1>8 DEF WriteAttempt
  <2>2. UNCHANGED <<invoice, cutOff>>
    BY <1>8 DEF WriteAttempt
  <2>3. /\ attempts[d] \in Seq({"submitted", "failed"})
        /\ \A e \in Invoices \ {d} : attempts'[e] = attempts[e]
        /\ attempts'[d] = IF invoice[d].status = "deleted" THEN attempts[d] ELSE Append(attempts[d], x)
    BY <1>1, <2>1 DEF FiledIInv, FilingTypeOK
  <2>4. \A e \in Invoices : invoice'[e].status # "deleted" => Balanced(f, Away, e)
    BY <1>3, <1>4, <2>2, <2>3
  <2>5. NumbersAreVouched'
    <3>1. \A i \in DOMAIN attempts[d] : i \in DOMAIN attempts'[d] /\ attempts'[d][i] = attempts[d][i]
      BY <2>3, AttemptsGrow
    <3>2. \A e \in Invoices \ {d} : attempts'[e] = attempts[e]
      BY <2>3
    <3> HIDE DEF d
    <3>3. ASSUME NEW e \in Invoices, invoice[e].number
          PROVE  MayCarry(e) /\ \E i \in DOMAIN attempts'[e] : attempts'[e][i] = "submitted"
      <4>1. PICK i \in DOMAIN attempts[e] : attempts[e][i] = "submitted"
        BY <1>5, <3>3 DEF NumbersAreVouched, MayCarry
      <4>2. i \in DOMAIN attempts'[e] /\ attempts'[e][i] = "submitted"
        BY <3>1, <3>2, <4>1
      <4> QED
        BY <1>5, <3>3, <4>2 DEF NumbersAreVouched, MayCarry
    <3> QED
      BY <2>2, <3>3 DEF NumbersAreVouched, MayCarry
  <2> QED
    BY <1>6, <2>2, <2>4, <2>5
<1>9. CASE CrashFiling(f)
  <2>1. /\ UNCHANGED <<invoice, attempts>>
        /\ cutOff' = IF filer[f].accepted THEN cutOff \cup {d} ELSE cutOff
    BY <1>9 DEF CrashFiling
  <2>2. NumbersAreVouched'
    BY <1>5, <2>1 DEF NumbersAreVouched, MayCarry
  <2>3. ~filer[f].accepted => Balanced(f, Away, d)
    <3>1. ~filer[f].accepted => Weight(filer[f], d) = 0
      BY DEF Weight, IsPending
    <3> QED
      BY <1>1, <1>2, <2>1, <3>1, NothingChanges DEF FiledIInv
  <2>4. \A e \in Invoices : e \notin cutOff' => e \notin cutOff /\ Balanced(f, Away, e)
    BY <1>1, <1>3, <2>1, <2>3
  <2> QED
    BY <1>6, <2>1, <2>2, <2>4
<1> QED
  BY <1>7, <1>8, <1>9

\* A deletion that begins has accepted nothing (delete, up to its check).
LEMMA BeginningDeletionKeepsIInv ==
    ASSUME FiledIInv, FilingTypeOK', NEW f \in Filers, NEW d \in Invoices, DeleteRead(f, d)
    PROVE  FiledIInv'
<1> DEFINE r == [kind |-> "delete", doc |-> d, accepted |-> FALSE]
<1>1. filer' = [filer EXCEPT ![f] = r] /\ UNCHANGED documentVars /\ filer[f] = Away
  BY DEF DeleteRead, Turned
<1>2. r.kind \notin Locking \cup {"validate", "post", "commit"}
  BY DEF Locking
<1>3. \A e \in Invoices : Weight(r, e) = 0 /\ Weight(filer[f], e) = 0
  BY <1>1 DEF Weight, IsPending, Away, Locking
<1> HIDE DEF r
<1>4. \A e \in Invoices : Balanced(f, r, e)
  BY <1>1, <1>3, NothingChanges DEF FiledIInv, documentVars
<1>5. \A g \in Filers \ {f} : filer[g].kind \in Locking => invoice'[filer[g].doc].status = "draft"
  BY <1>1, OthersAreLocked DEF documentVars
<1>6. NumbersAreVouched'
  BY <1>1 DEF FiledIInv, FiledIsTraced, NumbersAreVouched, MayCarry, documentVars
<1> QED
  BY <1>1, <1>2, <1>4, <1>5, <1>6, TurningKeepsIInv DEF documentVars

\* A document that is deleted takes its attempts and its number along, whatever it
\* has become since it was found a draft (delete).
LEMMA DeletingKeepsFiledIInv ==
    ASSUME FiledIInv, FilingTypeOK', NEW f \in Filers, DeleteWrite(f)
    PROVE  FiledIInv'
<1> DEFINE d == filer[f].doc
<1>1. /\ d \in Invoices /\ UNCHANGED <<held, cutOff>> /\ filer' = [filer EXCEPT ![f] = Away]
      /\ invoice' = [invoice EXCEPT ![d] = [status |-> "deleted", number |-> FALSE]]
      /\ attempts' = [attempts EXCEPT ![d] = <<>>]
      /\ \A g \in Filers : filer[g].kind \in Locking => filer[g].doc # d
  BY KindsOfRequests DEF DeleteWrite, DocFree, FiledIInv
<1>2. /\ invoice'[d].status = "deleted" /\ ~invoice'[d].number
      /\ \A e \in Invoices \ {d} : invoice'[e] = invoice[e] /\ attempts'[e] = attempts[e]
  BY <1>1 DEF FiledIInv, FilingTypeOK
<1>3. \A e \in Invoices : Weight(Away, e) = 0 /\ Weight(filer[f], e) = 0
  BY DEF DeleteWrite, Weight, IsPending, Away, Locking
<1>4. \A e \in Invoices \ {d} : Balanced(f, Away, e)
  BY <1>1, <1>2, <1>3, NothingChanges DEF FiledIInv
<1>5. \A g \in Filers : filer[g].kind \in Locking =>
          filer[g].doc \in Invoices \ {d} /\ invoice[filer[g].doc].status = "draft"
  BY <1>1, KindsOfRequests DEF FiledIInv, LockedAreDrafts
<1>6. NumbersAreVouched'
  BY <1>2 DEF FiledIInv, FiledIsTraced, NumbersAreVouched, MayCarry
<1>7. Away.kind \notin Locking \cup {"validate", "post", "commit"}
  BY DEF Away, Locking
<1> HIDE DEF d
<1> QED
  BY <1>1, <1>2, <1>4, <1>5, <1>6, <1>7, TurningKeepsIInv

\* A document that is voided keeps its number and its attempts, and carries a number
\* only if it is a credit note (void).
LEMMA VoidingKeepsFiledIInv ==
    ASSUME FiledIInv, FilingTypeOK', NEW d \in Invoices, VoidDocument(d)
    PROVE  FiledIInv'
<1>1. /\ invoice'[d].status = "void" /\ invoice'[d].number = invoice[d].number
      /\ \A e \in Invoices \ {d} : invoice'[e] = invoice[e]
      /\ invoice[d].status = "sent" /\ (invoice[d].number => d \in CreditNotes)
      /\ UNCHANGED <<attempts, held, filer, cutOff>>
  BY DEF VoidDocument, FiledIInv, FilingTypeOK
<1>2. \A e : Unwritten(e)' = Unwritten(e)
  BY <1>1 DEF Unwritten
<1>3. \A g \in Filers : filer[g].kind \in Locking => filer[g].doc \in Invoices \ {d}
  BY KindsOfRequests DEF VoidDocument, DocFree, FiledIInv
<1>4. FiledIsTraced'
  <2>1. \A e \in Invoices : /\ invoice'[e].status # "deleted" => invoice[e].status # "deleted"
                            /\ Cardinality(Unwritten(e)') = Cardinality(Unwritten(e))
    BY <1>1, <1>2
  <2>2. \A e \in Invoices : invoice'[e].status # "deleted" /\ e \notin cutOff' =>
            held'[e] <= Len(attempts'[e]) + Cardinality(Unwritten(e)')
    BY <1>1, <2>1 DEF FiledIInv, FiledIsTraced
  <2>3. NumbersAreVouched'
    BY <1>1 DEF FiledIInv, FiledIsTraced, NumbersAreVouched, MayCarry
  <2> QED
    BY <2>2, <2>3 DEF FiledIsTraced, NumbersAreVouched, MayCarry
<1>5. AnswersComeLast' /\ LockedAreDrafts' /\ UnwrittenIsFinite'
  BY <1>1, <1>2, <1>3 DEF FiledIInv, AnswersComeLast, LockedAreDrafts, UnwrittenIsFinite
<1> QED
  BY <1>4, <1>5 DEF FiledIInv

-----------------------------------------------------------------------------
\* A request for lists turns into another, or ends; no document is touched.
ListKinds == {"idle", "ask", "sync"}

TurnsList(f, r) ==
    r \in FilerRecord /\ {r.kind, filer[f].kind} \subseteq ListKinds /\ filer' = [filer EXCEPT ![f] = r]

\* The rows of an answer are rows of the list.
LEMMA RowsAreRows == \A codes \in SUBSET Codes : RowsOf(codes) \in SUBSET Rows
BY DEF RowsOf, Rows

LEMMA RequestsForLists ==
    ASSUME FilingTypeOK, ListsNext
    PROVE  /\ UNCHANGED documentVars
           /\ UNCHANGED filer \/ \E f \in Filers : \E r : TurnsList(f, r)
<1>1. ASSUME NEW f \in Filers, NEW l \in Lists, AskList(f, l)
      PROVE  UNCHANGED documentVars /\ \E r : TurnsList(f, r)
  <2>1. TurnsList(f, [kind |-> "ask", list |-> l])
    BY <1>1 DEF AskList, TurnsList, FilerRecord, ListKinds, Away
  <2> QED
    BY <1>1, <2>1 DEF AskList
<1>2. ASSUME NEW f \in Filers, StoreList(f) \/ EndSync(f) \/ StopFetching(f)
      PROVE  UNCHANGED documentVars /\ \E r : TurnsList(f, r)
  <2>1. TurnsList(f, Away)
    BY <1>2 DEF StoreList, EndSync, StopFetching, TurnsList, FilerRecord, ListKinds, Away
  <2> QED
    BY <1>2, <2>1 DEF StoreList, EndSync, StopFetching
<1>3. ASSUME NEW f \in Filers, StartSync(f)
      PROVE  UNCHANGED documentVars /\ \E r : TurnsList(f, r)
  <2> DEFINE r == [kind |-> "sync", todo |-> {l \in Lists : cache[l] = {}}, batch |-> {}]
  <2>1. r \in FilerRecord
    BY DEF FilerRecord
  <2>2. TurnsList(f, r)
    BY <1>3, <2>1 DEF StartSync, TurnsList, ListKinds, Away
  <2> QED
    BY <1>3, <2>2 DEF StartSync
<1>4. ASSUME NEW f \in Filers, NEW l \in Lists, SkipList(f, l)
      PROVE  UNCHANGED documentVars /\ \E r : TurnsList(f, r)
  <2> DEFINE r == [filer[f] EXCEPT !.todo = @ \ {l}]
  <2>1. /\ filer[f].kind = "sync" /\ filer[f].batch \in SUBSET (Lists \X Rows)
        /\ filer[f] \in FilerRecord
    BY <1>4, KindsOfRequests DEF SkipList, FilingTypeOK
  <2>2. r \in FilerRecord /\ r.kind = "sync"
    BY <2>1 DEF FilerRecord, Away, Locking
  <2>3. filer' = [filer EXCEPT ![f] = r]
    BY <1>4 DEF SkipList
  <2>4. TurnsList(f, r)
    BY <2>1, <2>2, <2>3 DEF TurnsList, ListKinds
  <2> QED
    BY <1>4, <2>4 DEF SkipList
<1>5. ASSUME NEW f \in Filers, NEW l \in Lists, SyncList(f, l)
      PROVE  UNCHANGED documentVars /\ \E r : TurnsList(f, r)
  <2> DEFINE batch == filer[f].batch \cup {<<l, c>> : c \in RowsOf(answer[l])}
             r == [filer[f] EXCEPT !.todo = @ \ {l}, !.batch = batch \ Flushed(batch)]
  <2>1. /\ filer[f].kind = "sync" /\ filer[f].batch \in SUBSET (Lists \X Rows)
        /\ filer[f] \in FilerRecord /\ RowsOf(answer[l]) \in SUBSET Rows
    BY <1>5, KindsOfRequests, RowsAreRows DEF SyncList, FilingTypeOK
  <2>2. batch \ Flushed(batch) \in SUBSET (Lists \X Rows)
    BY <2>1
  <2>3. filer' = [filer EXCEPT ![f] = r]
    BY <1>5 DEF SyncList
  <2> HIDE DEF batch
  <2>4. r \in FilerRecord /\ r.kind = "sync"
    BY <2>1, <2>2 DEF FilerRecord, Away, Locking
  <2>5. TurnsList(f, r)
    BY <2>1, <2>3, <2>4 DEF TurnsList, ListKinds
  <2> QED
    BY <1>5, <2>5 DEF SyncList
<1>6. ASSUME NEW l \in Lists, ListChanges(l)
      PROVE  UNCHANGED documentVars /\ UNCHANGED filer
  BY <1>6 DEF ListChanges
<1> QED
  BY <1>1, <1>2, <1>3, <1>4, <1>5, <1>6 DEF ListsNext

\* Requests for lists leave the account of the filings as it is.
LEMMA ListsKeepFiledIInv ==
    ASSUME FiledIInv, FilingTypeOK', ListsNext
    PROVE  FiledIInv'
<1>1. UNCHANGED documentVars /\ (UNCHANGED filer \/ \E f \in Filers : \E r : TurnsList(f, r))
  BY RequestsForLists DEF FiledIInv
<1>2. NumbersAreVouched'
  BY <1>1 DEF FiledIInv, FiledIsTraced, NumbersAreVouched, MayCarry, documentVars
<1>3. CASE UNCHANGED filer
  BY <1>1, <1>3 DEF FiledIInv, AnswersComeLast, LockedAreDrafts, UnwrittenIsFinite, FiledIsTraced,
                    Unwritten, documentVars
<1>4. ASSUME NEW f \in Filers, NEW r, TurnsList(f, r)
      PROVE  FiledIInv'
  <2>1. /\ filer' = [filer EXCEPT ![f] = r]
        /\ r.kind \notin Locking \cup {"validate", "post", "commit"}
        /\ \A d \in Invoices : Weight(r, d) = 0 /\ Weight(filer[f], d) = 0
    BY <1>4 DEF TurnsList, ListKinds, Locking, Weight, IsPending
  <2>2. \A d \in Invoices : Balanced(f, r, d)
    BY <1>1, <2>1, NothingChanges DEF FiledIInv, documentVars
  <2>3. \A g \in Filers \ {f} : filer[g].kind \in Locking => invoice'[filer[g].doc].status = "draft"
    BY <1>1, OthersAreLocked DEF documentVars
  <2> QED
    BY <1>1, <1>2, <2>1, <2>2, <2>3, TurningKeepsIInv DEF documentVars
<1> QED
  BY <1>1, <1>3, <1>4

-----------------------------------------------------------------------------
\* Rows: those of a batch by list, and what is stored of it.
LEMMA RowsByList ==
    ASSUME NEW batch, NEW l, NEW X, NEW m
    PROVE  /\ RowsIn({}, l) = {}
           /\ RowsIn(batch \cup {<<l, c>> : c \in X}, l) = RowsIn(batch, l) \cup X
           /\ m # l => RowsIn(batch \cup {<<l, c>> : c \in X}, m) = RowsIn(batch, m)
<1> DEFINE more == {<<l, c>> : c \in X}
<1>1. RowsIn({}, l) = {}
  BY DEF RowsIn
<1>2. RowsIn(batch \cup more, l) = RowsIn(batch, l) \cup X
  <2>1. \A c \in X : <<l, c>> \in more /\ <<l, c>>[1] = l /\ <<l, c>>[2] = c
    OBVIOUS
  <2>2. \A q \in more : q[1] = l /\ q[2] \in X
    OBVIOUS
  <2> HIDE DEF more
  <2> QED
    BY <2>1, <2>2 DEF RowsIn
<1>3. m # l => RowsIn(batch \cup more, m) = RowsIn(batch, m)
  <2>1. \A q \in more : q[1] = l
    OBVIOUS
  <2> HIDE DEF more
  <2> QED
    BY <2>1 DEF RowsIn
<1> QED
  BY <1>1, <1>2, <1>3

\* Wholes stay whole when the authority answers more, when they are joined, and an
\* answer is one (_cached_reference, sync_sro_items).
LEMMA WholesStay ==
    ASSUME NEW rows, NEW answers, NEW later, answers \subseteq later, IsWhole(rows, answers)
    PROVE  IsWhole(rows, later)
BY DEF IsWhole

LEMMA WholesJoin ==
    ASSUME NEW rows, NEW more, NEW answers, IsWhole(rows, answers), IsWhole(more, answers)
    PROVE  IsWhole(rows \cup more, answers)
BY DEF IsWhole

LEMMA AnswersAreWhole ==
    ASSUME NEW answers, NEW codes \in answers, codes \subseteq Codes
    PROVE  IsWhole(RowsOf(codes), answers)
BY FilingAssumption DEF IsWhole, RowsOf

LEMMA NothingIsWhole == \A answers : IsWhole({}, answers)
BY DEF IsWhole

\* What an action on the lists has to show: types, what is stored of each list, and
\* the batch of the job that it moves.
LEMMA ListActionKeeps ==
    ASSUME CachedIInv, ListsNext,
           answer' \in [Lists -> SUBSET Codes],
           cache' \in [Lists -> SUBSET Rows], given' \in [Lists -> SUBSET (SUBSET Codes)],
           \A l \in Lists : given[l] \subseteq given'[l] /\ IsWhole(cache'[l], given'[l]),
           \A f \in Filers : filer'[f] = filer[f] \/ filer'[f].kind # "sync"
               \/ \A l \in Lists : IsWhole(RowsIn(filer'[f].batch, l), given'[l])
    PROVE  CachedIInv'
<1>1. FilingTypeOK'
  <2>1. UNCHANGED documentVars /\ (UNCHANGED filer \/ \E f \in Filers : \E r : TurnsList(f, r))
    BY RequestsForLists DEF CachedIInv
  <2>2. filer' \in [Filers -> FilerRecord]
    <3>1. filer \in [Filers -> FilerRecord]
      BY DEF CachedIInv, FilingTypeOK
    <3>2. ASSUME NEW f \in Filers, NEW r, TurnsList(f, r)
          PROVE  filer' \in [Filers -> FilerRecord]
      BY <3>1, <3>2 DEF TurnsList
    <3> QED
      BY <2>1, <3>1, <3>2
  <2> QED
    BY <2>1, <2>2 DEF CachedIInv, FilingTypeOK, documentVars
<1>2. CachedListIsWhole'
  BY DEF IsWhole, CachedListIsWhole
<1>3. BatchesAreWhole'
  <2> SUFFICES ASSUME NEW f \in Filers, NEW l \in Lists, filer'[f] = filer[f], filer[f].kind = "sync"
               PROVE  IsWhole(RowsIn(filer[f].batch, l), given'[l])
    BY DEF BatchesAreWhole
  <2>1. IsWhole(RowsIn(filer[f].batch, l), given[l]) /\ given[l] \subseteq given'[l]
    BY DEF CachedIInv, BatchesAreWhole
  <2> QED
    BY <2>1, WholesStay
<1> QED
  BY <1>1, <1>2, <1>3 DEF CachedIInv

\* What is stored of a list when rows are stored.
LEMMA StoredByList ==
    ASSUME CachedIInv, NEW rows, NEW l \in Lists
    PROVE  Upserted(rows)[l] = cache[l] \cup RowsIn(rows, l)
BY DEF Upserted, RowsIn

LEMMA StoredRowsAreRows ==
    ASSUME CachedIInv, NEW rows \in SUBSET (Lists \X Rows)
    PROVE  Upserted(rows) \in [Lists -> SUBSET Rows]
BY DEF Upserted, CachedIInv, FilingTypeOK

LEMMA ListsKeepCachedIInv ==
    ASSUME CachedIInv, ListsNext
    PROVE  CachedIInv'
<1>0. FilingTypeOK /\ filer \in [Filers -> FilerRecord] /\ answer \in [Lists -> SUBSET Codes]
      /\ cache \in [Lists -> SUBSET Rows] /\ given \in [Lists -> SUBSET (SUBSET Codes)]
  BY DEF CachedIInv, FilingTypeOK
<1>1. \A l \in Lists : IsWhole(cache[l], given[l])
  BY DEF CachedIInv, CachedListIsWhole, IsWhole
<1>2. \A f \in Filers, l \in Lists : filer[f].kind = "sync" => IsWhole(RowsIn(filer[f].batch, l), given[l])
  BY DEF CachedIInv, BatchesAreWhole
<1>3. ASSUME NEW f \in Filers, NEW r, filer' = [filer EXCEPT ![f] = r], UNCHANGED listVars,
             r.kind # "sync" \/ \A l \in Lists : IsWhole(RowsIn(r.batch, l), given[l])
      PROVE  CachedIInv'
  BY <1>0, <1>1, <1>3, ListActionKeeps DEF listVars
<1>4. ASSUME NEW f \in Filers, NEW l \in Lists, AskList(f, l)
      PROVE  CachedIInv'
  BY <1>3, <1>4 DEF AskList
<1>5. ASSUME NEW f \in Filers, StopFetching(f)
      PROVE  CachedIInv'
  BY <1>3, <1>5 DEF StopFetching, Away
<1>6. ASSUME NEW f \in Filers, StartSync(f)
      PROVE  CachedIInv'
  <2>1. \A l \in Lists : IsWhole(RowsIn({}, l), given[l])
    BY NothingIsWhole DEF RowsIn
  <2> QED
    BY <1>3, <1>6, <2>1 DEF StartSync
<1>7. ASSUME NEW f \in Filers, NEW l \in Lists, SkipList(f, l)
      PROVE  CachedIInv'
  <2> DEFINE r == [filer[f] EXCEPT !.todo = @ \ {l}]
  <2>1. DOMAIN filer[f] = {"kind", "todo", "batch"} /\ filer[f].kind = "sync"
    BY <1>0, <1>7, KindsOfRequests DEF SkipList
  <2>2. filer' = [filer EXCEPT ![f] = r] /\ r.batch = filer[f].batch
    BY <1>7, <2>1 DEF SkipList
  <2> QED
    BY <1>2, <1>3, <1>7, <2>1, <2>2 DEF SkipList
<1>8. ASSUME NEW f \in Filers, StoreList(f)
      PROVE  CachedIInv'
  <2> DEFINE l == filer[f].list
  <2>1. l \in Lists /\ answer[l] \in SUBSET Codes /\ RowsOf(answer[l]) \in SUBSET Rows
    BY <1>0, <1>8, KindsOfRequests, RowsAreRows DEF StoreList
  <2>2. /\ cache' = [cache EXCEPT ![l] = @ \cup RowsOf(answer[l])]
        /\ given' = [given EXCEPT ![l] = @ \cup {answer[l]}]
        /\ filer' = [filer EXCEPT ![f] = Away] /\ UNCHANGED answer
    BY <1>8 DEF StoreList
  <2>3. /\ cache' \in [Lists -> SUBSET Rows] /\ given' \in [Lists -> SUBSET (SUBSET Codes)]
        /\ \A m \in Lists : given[m] \subseteq given'[m]
    BY <1>0, <2>1, <2>2
  <2>4. IsWhole(cache'[l], given'[l])
    <3>1. IsWhole(cache[l], given'[l])
      BY <1>1, <2>1, <2>3, WholesStay
    <3>2. IsWhole(RowsOf(answer[l]), given'[l])
      BY <1>0, <2>1, <2>2, AnswersAreWhole
    <3> QED
      BY <1>0, <2>1, <2>2, <3>1, <3>2, WholesJoin
  <2>5. \A m \in Lists \ {l} : IsWhole(cache'[m], given'[m])
    BY <1>0, <1>1, <2>2
  <2>6. \A g \in Filers : filer'[g] = filer[g] \/ filer'[g].kind # "sync"
    BY <1>0, <2>2 DEF Away
  <2> QED
    BY <1>0, <1>8, <2>2, <2>3, <2>4, <2>5, <2>6, ListActionKeeps DEF ListsNext
<1>9. ASSUME NEW f \in Filers, NEW l \in Lists, SyncList(f, l)
      PROVE  CachedIInv'
  <2> DEFINE batch == filer[f].batch \cup {<<l, c>> : c \in RowsOf(answer[l])}
             flushed == Flushed(batch)
             r == [filer[f] EXCEPT !.todo = @ \ {l}, !.batch = batch \ flushed]
  <2>1. /\ answer[l] \in SUBSET Codes /\ RowsOf(answer[l]) \in SUBSET Rows
        /\ filer[f].kind = "sync" /\ filer[f].batch \in SUBSET (Lists \X Rows)
        /\ DOMAIN filer[f] = {"kind", "todo", "batch"}
    BY <1>0, <1>9, KindsOfRequests, RowsAreRows DEF SyncList
  <2>2. batch \in SUBSET (Lists \X Rows) /\ flushed \in {batch, {}}
    BY <2>1 DEF Flushed
  <2>3. /\ cache' = Upserted(flushed) /\ given' = [given EXCEPT ![l] = @ \cup {answer[l]}]
        /\ filer' = [filer EXCEPT ![f] = r] /\ UNCHANGED answer
    BY <1>9 DEF SyncList
  <2>4. \A m \in Lists : given[m] \subseteq given'[m]
    BY <1>0, <2>3
  <2>5. ASSUME NEW m \in Lists
        PROVE  IsWhole(RowsIn(batch, m), given'[m])
    <3>1. IsWhole(RowsIn(filer[f].batch, m), given'[m])
      BY <1>2, <2>1, <2>4, WholesStay
    <3>2. IsWhole(RowsOf(answer[l]), given'[l])
      BY <1>0, <2>1, <2>3, AnswersAreWhole
    <3>3. /\ RowsIn(batch, l) = RowsIn(filer[f].batch, l) \cup RowsOf(answer[l])
          /\ m # l => RowsIn(batch, m) = RowsIn(filer[f].batch, m)
      BY RowsByList
    <3> HIDE DEF batch
    <3> QED
      BY <3>1, <3>2, <3>3, WholesJoin
  <2> HIDE DEF batch
  <2>6. \A m \in Lists : IsWhole(RowsIn(flushed, m), given'[m])
                         /\ IsWhole(RowsIn(batch \ flushed, m), given'[m])
    <3>1. \A m \in Lists : RowsIn({}, m) = {} /\ IsWhole({}, given'[m])
      BY NothingIsWhole DEF RowsIn
    <3>2. batch \ {} = batch /\ batch \ batch = {}
      OBVIOUS
    <3> HIDE DEF flushed
    <3> QED
      BY <2>2, <2>5, <3>1, <3>2
  <2> HIDE DEF flushed
  <2>7. \A m \in Lists : IsWhole(cache'[m], given'[m])
    <3> SUFFICES ASSUME NEW m \in Lists PROVE IsWhole(cache'[m], given'[m])
      OBVIOUS
    <3>1. IsWhole(cache[m], given'[m])
      BY <1>1, <2>4, WholesStay
    <3>2. cache'[m] = cache[m] \cup RowsIn(flushed, m)
      BY <2>3, StoredByList
    <3> QED
      BY <2>6, <3>1, <3>2, WholesJoin
  <2>8. cache' \in [Lists -> SUBSET Rows]
    BY <2>2, <2>3, StoredRowsAreRows
  <2>9. given' \in [Lists -> SUBSET (SUBSET Codes)]
    BY <1>0, <2>1, <2>3
  <2>10. \A g \in Filers :
            filer'[g] = filer[g] \/ \A m \in Lists : IsWhole(RowsIn(filer'[g].batch, m), given'[m])
    <3>1. r.batch = batch \ flushed
      BY <2>1
    <3>2. filer'[f] = r /\ \A g \in Filers \ {f} : filer'[g] = filer[g]
      BY <1>0, <2>3
    <3> HIDE DEF r
    <3> QED
      BY <2>6, <3>1, <3>2
  <2> HIDE DEF r
  <2> QED
    BY <1>0, <1>9, <2>3, <2>4, <2>7, <2>8, <2>9, <2>10, ListActionKeeps DEF ListsNext
<1>10. ASSUME NEW f \in Filers, EndSync(f)
      PROVE  CachedIInv'
  <2>1. /\ filer[f].kind = "sync" /\ filer[f].batch \in SUBSET (Lists \X Rows)
        /\ cache' = Upserted(filer[f].batch) /\ filer' = [filer EXCEPT ![f] = Away]
        /\ UNCHANGED <<answer, given>>
    BY <1>0, <1>10, KindsOfRequests DEF EndSync
  <2>2. \A m \in Lists : IsWhole(cache'[m], given'[m])
    BY <1>1, <1>2, <2>1, StoredByList, WholesJoin
  <2>3. cache' \in [Lists -> SUBSET Rows]
    BY <2>1, StoredRowsAreRows
  <2>4. \A g \in Filers : filer'[g] = filer[g] \/ filer'[g].kind # "sync"
    BY <1>0, <2>1 DEF Away
  <2> QED
    BY <1>0, <1>10, <2>1, <2>2, <2>3, <2>4, ListActionKeeps DEF ListsNext
<1>11. ASSUME NEW l \in Lists, ListChanges(l)
      PROVE  CachedIInv'
  <2>1. answer' \in [Lists -> SUBSET Codes] /\ UNCHANGED <<filer, cache, given>>
    BY <1>0, <1>11 DEF ListChanges
  <2> QED
    BY <1>0, <1>1, <1>11, <2>1, ListActionKeeps DEF ListsNext
<1> QED
  BY <1>4, <1>5, <1>6, <1>7, <1>8, <1>9, <1>10, <1>11 DEF ListsNext

\* Filings leave the lists, and the jobs that fetch them, as they are.
LEMMA FilingsKeepCachedIInv ==
    ASSUME CachedIInv, FilingTypeOK', FilingNext
    PROVE  CachedIInv'
<1>1. UNCHANGED listVars
  BY DEF FilingNext, FileInvoice, Validated, Answered, CommitFiled, CommitFails, WriteAttempt,
         CrashFiling, DeleteRead, DeleteWrite, VoidDocument
<1>2. \A f \in Filers : filer'[f].kind = "sync" => filer'[f] = filer[f]
  <2>1. ASSUME NEW f \in Filers, filer' = [filer EXCEPT ![f] = Away]
        PROVE  \A g \in Filers : filer'[g].kind = "sync" => filer'[g] = filer[g]
    BY <2>1 DEF CachedIInv, FilingTypeOK, Away
  <2>2. ASSUME NEW f \in Filers,
               NEW kind \in {"report", "validate", "post", "commit", "trace", "delete"},
               NEW d, NEW accepted, Turned(f, kind, d, accepted)
        PROVE  \A g \in Filers : filer'[g].kind = "sync" => filer'[g] = filer[g]
    BY <2>2 DEF CachedIInv, FilingTypeOK, Turned
  <2>3. ASSUME NEW f \in Filers, CommitFails(f)
        PROVE  Turned(f, "trace", filer[f].doc, TRUE)
    BY <2>3 DEF CommitFails, AfterFailedCommit, Turned
  <2>4. ASSUME NEW f \in Filers, NEW d \in Invoices, FileInvoice(f, d)
        PROVE  \A g \in Filers : filer'[g].kind = "sync" => filer'[g] = filer[g]
    BY <2>2, <2>4 DEF FileInvoice
  <2>5. ASSUME NEW f \in Filers, Validated(f) \/ Answered(f)
        PROVE  \A g \in Filers : filer'[g].kind = "sync" => filer'[g] = filer[g]
    BY <2>2, <2>5 DEF Validated, Answered
  <2>6. ASSUME NEW f \in Filers, CommitFiled(f) \/ WriteAttempt(f) \/ DeleteWrite(f) \/ CrashFiling(f)
        PROVE  \A g \in Filers : filer'[g].kind = "sync" => filer'[g] = filer[g]
    BY <2>1, <2>6 DEF CommitFiled, WriteAttempt, DeleteWrite, CrashFiling
  <2>7. ASSUME NEW d \in Invoices, VoidDocument(d)
        PROVE  UNCHANGED filer
    BY <2>7 DEF VoidDocument
  <2>8. ASSUME NEW f \in Filers, NEW d \in Invoices, DeleteRead(f, d)
        PROVE  \A g \in Filers : filer'[g].kind = "sync" => filer'[g] = filer[g]
    BY <2>2, <2>8 DEF DeleteRead
  <2> QED
    BY <2>2, <2>3, <2>4, <2>5, <2>6, <2>7, <2>8 DEF FilingNext
<1>3. BatchesAreWhole' /\ CachedListIsWhole'
  BY <1>1, <1>2 DEF CachedIInv, BatchesAreWhole, CachedListIsWhole, listVars
<1> QED
  BY <1>3 DEF CachedIInv

-----------------------------------------------------------------------------
\* Both invariants, together: the lists' one has their types.
LEMMA FilingInvariant == FilingSpec => [](FiledIInv /\ CachedIInv)
<1>1. FilingInit => FiledIInv /\ CachedIInv
  BY FilingInitIInv
<1>2. FiledIInv /\ CachedIInv /\ [FilingNext \/ ListsNext]_filingVars => (FiledIInv /\ CachedIInv)'
  <2> SUFFICES ASSUME FiledIInv, CachedIInv, [FilingNext \/ ListsNext]_filingVars
               PROVE  FiledIInv' /\ CachedIInv'
    OBVIOUS
  <2>1. CASE FilingNext
    <3>1. FilingTypeOK'
      BY <2>1, FilingTypeStep DEF FiledIInv
    <3>2. CachedIInv'
      BY <2>1, <3>1, FilingsKeepCachedIInv
    <3>3. CASE \E f \in Filers, d \in Invoices : FileInvoice(f, d)
      BY <3>1, <3>2, <3>3, BeginningFilingKeepsIInv
    <3>4. CASE \E f \in Filers : Validated(f) \/ Answered(f) \/ CommitFails(f)
      BY <3>1, <3>2, <3>4, AskingKeepsIInv
    <3>5. CASE \E f \in Filers : CommitFiled(f) \/ WriteAttempt(f) \/ CrashFiling(f)
      BY <3>1, <3>2, <3>5, EndingFilingKeepsIInv
    <3>6. CASE \E f \in Filers, d \in Invoices : DeleteRead(f, d)
      BY <3>1, <3>2, <3>6, BeginningDeletionKeepsIInv
    <3>7. CASE \E f \in Filers : DeleteWrite(f)
      BY <3>1, <3>2, <3>7, DeletingKeepsFiledIInv
    <3>8. CASE \E d \in Invoices : VoidDocument(d)
      BY <3>1, <3>2, <3>8, VoidingKeepsFiledIInv
    <3> QED
      BY <2>1, <3>3, <3>4, <3>5, <3>6, <3>7, <3>8 DEF FilingNext
  <2>2. CASE ListsNext
    BY <2>2, ListsKeepCachedIInv, ListsKeepFiledIInv DEF CachedIInv
  <2>3. CASE UNCHANGED filingVars
    <3>1. FiledIInv'
      <4>1. \A d : Unwritten(d)' = Unwritten(d)
        BY <2>3 DEF filingVars, Unwritten
      <4>2. FilingTypeOK' /\ AnswersComeLast' /\ LockedAreDrafts'
        BY <2>3 DEF filingVars, FiledIInv, FilingTypeOK, AnswersComeLast, LockedAreDrafts
      <4>3. UnwrittenIsFinite' /\ FiledIsTraced'
        BY <2>3, <4>1 DEF filingVars, FiledIInv, UnwrittenIsFinite, FiledIsTraced
      <4> QED
        BY <4>2, <4>3 DEF FiledIInv
    <3>2. CachedIInv'
      BY <2>3 DEF filingVars, CachedIInv, FilingTypeOK, BatchesAreWhole, CachedListIsWhole
    <3> QED
      BY <3>1, <3>2
  <2> QED
    BY <2>1, <2>2, <2>3
<1> QED
  BY <1>1, <1>2, PTL DEF FilingSpec

\* Every filing the authority accepted leaves an attempt, unless the process died
\* before it was written or the document was deleted with its attempts; a number is
\* never carried without one, nor by a void invoice (_file_with_fbr, _commit_filed,
\* void, delete).
THEOREM FilingsAreTraced == FilingSpec => []FiledIsTraced
<1>1. FiledIInv => FiledIsTraced
  BY DEF FiledIInv
<1> QED
  BY <1>1, FilingInvariant, PTL

\* What is cached of a list holds a whole answer of the authority, however jobs and
\* requests are cut off or run beside each other (sync_hs_uom, sync_sro_items,
\* _cached_reference).
THEOREM CachedListsAreWhole == FilingSpec => []CachedListIsWhole
<1>1. CachedIInv => CachedListIsWhole
  BY DEF CachedIInv
<1> QED
  BY <1>1, FilingInvariant, PTL
=============================================================================
