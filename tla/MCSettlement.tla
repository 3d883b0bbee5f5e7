--------------------------- MODULE MCSettlement ---------------------------
(* Small instances of Settlement for TLC.                                   *)
EXTENDS Settlement, TLC

CONSTANTS MaxTotal      \* every invoice amounts to this

EvenTotal == [i \in Invoices |-> MaxTotal]

\* Every way to allocate a payment to one invoice.
ToOneInvoice ==
    {[j \in Invoices |-> IF j = i THEN n ELSE 0] : i \in Invoices, n \in 1..MaxTotal}

\* One unit to one invoice.
OneUnit == {[j \in Invoices |-> IF j = i THEN 1 ELSE 0] : i \in Invoices}

\* One unit to every invoice, or two to one of them.
ToAllInvoices == {[j \in Invoices |-> 1]} \cup ToOneInvoice

Credits == 1..MaxTotal

Symmetry == Permutations(Payments) \cup Permutations(Notes) \cup Permutations(Workers)

\* Liveness is checked without symmetry.  Instead the rows are used in one order, and
\* not all of them: of two payments and two notes, at most three.
UsedPayments == {p \in Payments : payment[p] # "absent"}
UsedNotes    == {c \in Notes : note[c] # "absent"}

First(S) == CHOOSE x \in S : TRUE

FewRows ==
    /\ UsedPayments # {} => First(Payments) \in UsedPayments
    /\ UsedNotes # {}    => First(Notes) \in UsedNotes
    /\ UsedPayments = Payments => UsedNotes # Notes

\* Only drafting uses a row, so FewRows holds up no request and weakens no fairness.
FewRowsSpec == Init /\ [][Next /\ FewRows']_vars /\ Fairness
=============================================================================
