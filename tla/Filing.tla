------------------------------- MODULE Filing -------------------------------
(***************************************************************************)
(* Filing invoices and credit notes with the tax authority, and the cache of  *)
(* its reference lists.  backend/app/modules/fbr/service.py, client.py and     *)
(* sync.py; _file_with_fbr and _commit_filed of documents/service.py.          *)
(*                                                                          *)
(* The authority is outside the database: what it accepts stays accepted when  *)
(* the local transaction rolls back, and its reply may be lost.  What else     *)
(* finalizing and voiding do is DocumentFlow's matter.                        *)
(***************************************************************************)
EXTENDS Naturals, Sequences, FiniteSets

CONSTANTS
    Invoices,     \* the documents that are filed
    CreditNotes,  \* the credit notes among them
    Unreasoned,   \* those of them without a reason
    Lists,        \* the reference lists: units of a code, items of a schedule
    Codes,        \* what is on them
    NoneMark,     \* the row that stands for an empty list
    Filers,       \* requests and sync jobs at a time
    BatchSize,    \* rows after which a sync job commits
    MaxFilings,   \* bound: accepted filings, and attempts, of a document
    MaxAnswers    \* bound: answers the authority gives for a list

ASSUME FilingAssumption ==
    /\ Unreasoned \subseteq CreditNotes /\ CreditNotes \subseteq Invoices
    /\ NoneMark \notin Codes
    /\ BatchSize \in Nat \ {0} /\ {MaxFilings, MaxAnswers} \subseteq Nat

VARIABLES
    invoice,    \* invoice[d]: [status, number], number when filed and stored
    attempts,   \* attempts[d]: its rows of fbr_submission_attempts
    held,       \* held[d]: how often the authority accepted d
    filer,      \* filer[f]: the request there
    cutOff,     \* documents with a filing that a crash cut off (history)
    answer,     \* answer[l]: the list as the authority has it
    cache,      \* cache[l]: the rows stored of it
    given       \* given[l]: the answers it has given (history)

filingVars == <<invoice, attempts, held, filer, cutOff, answer, cache, given>>
listVars == <<answer, cache, given>>
documentVars == <<invoice, attempts, held, cutOff>>

Away == [kind |-> "idle"]

FilingInit ==
    /\ invoice = [d \in Invoices |-> [status |-> "draft", number |-> FALSE]]
    /\ attempts = [d \in Invoices |-> <<>>]
    /\ held = [d \in Invoices |-> 0]
    /\ filer = [f \in Filers |-> Away]
    /\ cutOff = {}
    /\ answer \in [Lists -> SUBSET Codes]
    /\ cache = [l \in Lists |-> {}]
    /\ given = [l \in Lists |-> {}]

(***************************************************************************)
(* Filing                                                                    *)
(***************************************************************************)

\* A request that asks the authority, or commits, has the document locked; one
\* that rolled back and writes its attempt has not.
Locking == {"validate", "post", "commit"}
DocFree(d) == \A f \in Filers : filer[f].kind \in Locking => filer[f].doc # d

Turned(f, kind, d, accepted) ==
    filer' = [filer EXCEPT ![f] = [kind |-> kind, doc |-> d, accepted |-> accepted]]

\* finalize up to the authority.  The organisation's settings are what they
\* are found to be: e-invoicing off, and the document is sent as it is; no
\* token, and the attempt fails; a validation first, or not.
FileInvoice(f, d) ==
    /\ filer[f] = Away /\ DocFree(d) /\ invoice[d].status = "draft"
    /\ Len(attempts[d]) < MaxFilings
    /\ \/ invoice' = [invoice EXCEPT ![d].status = "sent"] /\ UNCHANGED filer
       \/ /\ \E kind \in IF d \in Unreasoned THEN {"report"} ELSE {"report", "validate", "post"} :
                Turned(f, kind, d, FALSE)
          /\ UNCHANGED invoice
    /\ UNCHANGED <<attempts, held, cutOff, listVars>>

\* validate_invoice: found valid, or not, or no answer.
Validated(f) ==
    /\ filer[f].kind = "validate"
    /\ \E kind \in {"post", "report"} : Turned(f, kind, filer[f].doc, FALSE)
    /\ UNCHANGED <<documentVars, listVars>>

\* post_invoice: accepted, or refused, or no answer, though it may have been
\* accepted.  Only a reply that says so goes on to the commit.
Answered(f) ==
    LET d == filer[f].doc IN
    /\ filer[f].kind = "post"
    /\ \/ /\ held[d] < MaxFilings
          /\ held' = [held EXCEPT ![d] = @ + 1]
          /\ \E kind \in {"commit", "report"} : Turned(f, kind, d, TRUE)
       \/ Turned(f, "report", d, FALSE) /\ UNCHANGED held
    /\ UNCHANGED <<invoice, attempts, cutOff, listVars>>

\* _commit_filed: the document, its number and the attempt are stored at once.
CommitFiled(f) ==
    LET d == filer[f].doc IN
    /\ filer[f].kind = "commit"
    /\ invoice' = [invoice EXCEPT ![d] = [status |-> "sent", number |-> TRUE]]
    /\ attempts' = [attempts EXCEPT ![d] = Append(@, "submitted")]
    /\ filer' = [filer EXCEPT ![f] = Away]
    /\ UNCHANGED <<held, cutOff, listVars>>

\* Mutant: a commit that fails is only raised.
RaisesOnly(d) == Away

\* What is left to do when the commit failed: a trace of the filing.
AfterFailedCommit(d) == [kind |-> "trace", doc |-> d, accepted |-> TRUE]

CommitFails(f) ==
    /\ filer[f].kind = "commit"
    /\ filer' = [filer EXCEPT ![f] = AfterFailedCommit(filer[f].doc)]
    /\ UNCHANGED <<documentVars, listVars>>

\* The attempt that is written after the rollback; its document may have been
\* deleted by now, and then it cannot be.
WriteAttempt(f) ==
    LET d == filer[f].doc IN
    /\ filer[f].kind \in {"report", "trace"}
    /\ attempts' = IF invoice[d].status = "deleted" THEN attempts
                   ELSE [attempts EXCEPT ![d] =
                           Append(@, IF filer[f].kind = "trace" THEN "submitted" ELSE "failed")]
    /\ filer' = [filer EXCEPT ![f] = Away]
    /\ UNCHANGED <<invoice, held, cutOff, listVars>>

\* void: a filed invoice is refused, a filed credit note is not, and the number
\* stays.  Refused too while it has dependents or payments, which are not here.
VoidDocument(d) ==
    /\ DocFree(d) /\ invoice[d].status = "sent"
    /\ invoice[d].number => d \in CreditNotes
    /\ invoice' = [invoice EXCEPT ![d].status = "void"]
    /\ UNCHANGED <<attempts, held, filer, cutOff, listVars>>

\* delete, up to its check: the row is read without a lock.
DeleteRead(f, d) ==
    /\ filer[f] = Away /\ invoice[d].status = "draft"
    /\ Turned(f, "delete", d, FALSE)
    /\ UNCHANGED <<documentVars, listVars>>

\* The row goes, whatever it has become, and its attempts by the foreign key.
DeleteWrite(f) ==
    LET d == filer[f].doc IN
    /\ filer[f].kind = "delete" /\ DocFree(d)
    /\ invoice' = [invoice EXCEPT ![d] = [status |-> "deleted", number |-> FALSE]]
    /\ attempts' = [attempts EXCEPT ![d] = <<>>]
    /\ filer' = [filer EXCEPT ![f] = Away]
    /\ UNCHANGED <<held, cutOff, listVars>>

\* The process dies: the transaction is rolled back and nothing is written.
CrashFiling(f) ==
    /\ filer[f].kind \in Locking \cup {"report", "trace", "delete"}
    /\ cutOff' = IF filer[f].accepted THEN cutOff \cup {filer[f].doc} ELSE cutOff
    /\ filer' = [filer EXCEPT ![f] = Away]
    /\ UNCHANGED <<invoice, attempts, held, listVars>>

(***************************************************************************)
(* Reference lists                                                           *)
(***************************************************************************)

\* The rows that stand for an answer.
RowsOf(codes) == IF codes = {} THEN {NoneMark} ELSE codes

\* _cached_reference of a list that is not cached; one that is, is read.
AskList(f, l) ==
    /\ filer[f] = Away /\ cache[l] = {}
    /\ filer' = [filer EXCEPT ![f] = [kind |-> "ask", list |-> l]]
    /\ UNCHANGED <<documentVars, listVars>>

\* The answer is stored beside what another request stored meanwhile.
StoreList(f) ==
    LET l == filer[f].list IN
    /\ filer[f].kind = "ask"
    /\ cache' = [cache EXCEPT ![l] = @ \cup RowsOf(answer[l])]
    /\ given' = [given EXCEPT ![l] = @ \cup {answer[l]}]
    /\ filer' = [filer EXCEPT ![f] = Away]
    /\ UNCHANGED <<documentVars, answer>>

\* sync_hs_uom, sync_sro_items: the lists nothing is stored of, one by one.
StartSync(f) ==
    /\ filer[f] = Away
    /\ filer' = [filer EXCEPT ![f] =
                   [kind |-> "sync", todo |-> {l \in Lists : cache[l] = {}}, batch |-> {}]]
    /\ UNCHANGED <<documentVars, listVars>>

\* Mutant: the batch is cut at its size, wherever a list ends.
LeadingRows(batch) ==
    IF Cardinality(batch) < BatchSize THEN {}
    ELSE CHOOSE rows \in SUBSET batch : Cardinality(rows) = BatchSize

\* The rows to commit now.
Flushed(batch) == IF Cardinality(batch) >= BatchSize THEN batch ELSE {}

Upserted(rows) == [l \in Lists |-> cache[l] \cup {r[2] : r \in {q \in rows : q[1] = l}}]

\* A list is fetched, at the third try if need be, and put in the batch.
SyncList(f, l) ==
    LET batch == filer[f].batch \cup {<<l, c>> : c \in RowsOf(answer[l])} IN
    /\ filer[f].kind = "sync" /\ l \in filer[f].todo
    /\ cache' = Upserted(Flushed(batch))
    /\ given' = [given EXCEPT ![l] = @ \cup {answer[l]}]
    /\ filer' = [filer EXCEPT ![f].todo = @ \ {l}, ![f].batch = batch \ Flushed(batch)]
    /\ UNCHANGED <<documentVars, answer>>

\* Three tries failed: the list is left for the next sync.
SkipList(f, l) ==
    /\ filer[f].kind = "sync" /\ l \in filer[f].todo
    /\ filer' = [filer EXCEPT ![f].todo = @ \ {l}]
    /\ UNCHANGED <<documentVars, listVars>>

EndSync(f) ==
    /\ filer[f].kind = "sync" /\ filer[f].todo = {}
    /\ cache' = Upserted(filer[f].batch)
    /\ filer' = [filer EXCEPT ![f] = Away]
    /\ UNCHANGED <<documentVars, answer, given>>

\* The service is unavailable, or the process dies: what is not committed is lost.
StopFetching(f) ==
    /\ filer[f].kind \in {"ask", "sync"}
    /\ filer' = [filer EXCEPT ![f] = Away]
    /\ UNCHANGED <<documentVars, listVars>>

\* A list that changes before it was ever given is another list to begin with.
ListChanges(l) ==
    /\ answer[l] \in given[l] /\ Cardinality(given[l]) < MaxAnswers
    /\ \E codes \in SUBSET Codes \ {answer[l]} : answer' = [answer EXCEPT ![l] = codes]
    /\ UNCHANGED <<documentVars, filer, cache, given>>

FilingNext ==
    \/ \E f \in Filers :
        \/ \E d \in Invoices : FileInvoice(f, d) \/ DeleteRead(f, d)
        \/ Validated(f) \/ Answered(f) \/ CommitFiled(f) \/ CommitFails(f)
        \/ WriteAttempt(f) \/ DeleteWrite(f) \/ CrashFiling(f)
    \/ \E d \in Invoices : VoidDocument(d)

ListsNext ==
    \/ \E f \in Filers :
        \/ \E l \in Lists : AskList(f, l) \/ SyncList(f, l) \/ SkipList(f, l)
        \/ StoreList(f) \/ StartSync(f) \/ EndSync(f) \/ StopFetching(f)
    \/ \E l \in Lists : ListChanges(l)

FilingSpec == FilingInit /\ [][FilingNext \/ ListsNext]_filingVars

(***************************************************************************)
(* Properties                                                                *)
(***************************************************************************)

\* The filings of d that were accepted and are not yet written down.
Unwritten(d) == {f \in Filers : filer[f].kind \in Locking \cup {"report", "trace"}
                                  /\ filer[f].doc = d /\ filer[f].accepted}

\* Every filing the authority accepted has left an attempt, unless the process
\* died before it was written or the document was deleted with its attempts: a
\* draft, or one that was filed after delete had found it a draft.  A document
\* carries a number only if an attempt says so and it is sent, or is a credit
\* note that was voided since; a filed invoice is never void (void; _commit_filed:
\* "Leave a durable trace so the mismatch is discoverable").
FiledIsTraced ==
    \A d \in Invoices :
        /\ invoice[d].status # "deleted" /\ d \notin cutOff =>
                held[d] <= Len(attempts[d]) + Cardinality(Unwritten(d))
        /\ invoice[d].number =>
                /\ invoice[d].status = "sent" \/ (invoice[d].status = "void" /\ d \in CreditNotes)
                /\ \E i \in DOMAIN attempts[d] : attempts[d][i] = "submitted"

\* What is cached of a list contains a whole answer of the authority, and the
\* mark of an empty one only if it was empty once: a sync that is cut off, or
\* a request beside it, never leaves a part that is taken for the list
\* (_cached_reference, sync_hs_uom, sync_sro_items).
CachedListIsWhole ==
    \A l \in Lists :
        /\ cache[l] # {} => \E codes \in given[l] : RowsOf(codes) \subseteq cache[l]
        /\ NoneMark \in cache[l] => {} \in given[l]
=============================================================================
