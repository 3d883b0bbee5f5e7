------------------------------- MODULE Claims -------------------------------
(***************************************************************************)
(* Expenses and commission payouts: what is claimed, what is booked for it,   *)
(* and what a salesperson has earned.  backend/app/modules/expenses/service.py *)
(* and commissions/service.py, with the posting and reversing of              *)
(* accounting/poster.py and the commission of documents/service.py.            *)
(*                                                                          *)
(* A request reads the claim and later writes it.  Submitting and cancelling a *)
(* payout hold its row lock in between; everything else holds none, and what   *)
(* it writes may rest on a claim that changed meanwhile.  The lines and taxes  *)
(* of an expense are Postings' matter: here it has one amount.                *)
(***************************************************************************)
EXTENDS Integers, Sequences, FiniteSets, FiniteSetsExt

CONSTANTS
    Expenses, Payouts,   \* the claims
    People,              \* the salespeople
    Sales,               \* their documents
    SaleOf,              \* SaleOf[s]: [who, net, sign], sign -1 for a credit note
    Rates,               \* the commission rates, in percent
    Sums,                \* the amounts claimed
    Desks,               \* requests at a time
    MaxClaims,           \* bound: claims ever made
    Nobody               \* no salesperson, no claim

ASSUME ClaimsAssumption ==
    /\ Expenses \cap Payouts = {} /\ Nobody \notin People \cup Expenses \cup Payouts
    /\ IsFiniteSet(Expenses) /\ IsFiniteSet(Payouts) /\ IsFiniteSet(Sales)
    /\ MaxClaims \in Nat /\ Sums \subseteq Nat \ {0} /\ Rates \subseteq 0..100
    /\ SaleOf \in [Sales -> [who : People, net : Nat, sign : {-1, 1}]]

VARIABLES
    claim,      \* claim[k]: [status, amount, who]; status none before it is made
    booked,     \* booked[k]: its vouchers, [amount, reversed]
    commission, \* commission[s]: what sale s earned when it was sent
    sale,       \* sale[s]: its status
    rate,       \* rate[p]: the commission rate of p now
    desk,       \* desk[d]: the request there
    crossed     \* claims written from a stale read, and people whose commission
                \* fell or was paid by two requests at once (history)

claimVars == <<claim, booked, commission, sale, rate, desk, crossed>>

ClaimIds == Expenses \cup Payouts
Unmade == [status |-> "none", amount |-> 0, who |-> Nobody]
Vacant == [kind |-> "idle", claim |-> Nobody]

ClaimsInit ==
    /\ claim = [k \in ClaimIds |-> Unmade]
    /\ booked = [k \in ClaimIds |-> <<>>]
    /\ commission = [s \in Sales |-> 0]
    /\ sale = [s \in Sales |-> "draft"]
    /\ rate \in [People -> Rates]
    /\ desk = [d \in Desks |-> Vacant]
    /\ crossed = {}

(***************************************************************************)
(* Commission                                                                *)
(***************************************************************************)

\* The sum of f over S.
SumOver(S, f(_)) == MapThenSumSet(f, S)

Earned(p) ==
    SumOver({s \in Sales : SaleOf[s].who = p /\ sale[s] = "sent"},
          LAMBDA s : SaleOf[s].sign * commission[s])

Paid(p) ==
    SumOver({k \in Payouts : claim[k].who = p /\ claim[k].status = "submitted"},
          LAMBDA k : claim[k].amount)

\* Mutant: what was paid already is not taken off.
EarnedAltogether(p) == Earned(p)

\* balance_for
Outstanding(p) == Earned(p) - Paid(p)

\* Finalizing the document fixes the rate of that moment.
SendSale(s) ==
    LET p == SaleOf[s].who IN
    /\ sale[s] = "draft"
    /\ sale' = [sale EXCEPT ![s] = "sent"]
    /\ commission' = [commission EXCEPT ![s] = (SaleOf[s].net * rate[p]) \div 100]
    /\ crossed' = IF SaleOf[s].sign = -1 THEN crossed \cup {p} ELSE crossed
    /\ UNCHANGED <<claim, booked, rate, desk>>

VoidSale(s) ==
    /\ sale[s] = "sent"
    /\ sale' = [sale EXCEPT ![s] = "void"]
    /\ crossed' = IF SaleOf[s].sign = 1 THEN crossed \cup {SaleOf[s].who} ELSE crossed
    /\ UNCHANGED <<claim, booked, commission, rate, desk>>

\* A bound: rates fall, which is what could leave a person overpaid.
ChangeRate(p, r) ==
    /\ r < rate[p]
    /\ rate' = [rate EXCEPT ![p] = r]
    /\ UNCHANGED <<claim, booked, commission, sale, desk, crossed>>

(***************************************************************************)
(* Claims                                                                    *)
(***************************************************************************)

\* Payouts are alike: which id the next one gets makes no difference.
NextId(k) == k \in Payouts => k = CHOOSE o \in Payouts : claim[o].status = "none"

CreateClaim(k, x, p) ==
    /\ claim[k].status = "none" /\ NextId(k)
    /\ Cardinality({o \in ClaimIds : claim[o].status # "none"}) < MaxClaims
    /\ claim' = [claim EXCEPT ![k] = [status |-> "draft", amount |-> x,
                                      who |-> IF k \in Payouts THEN p ELSE Nobody]]
    /\ UNCHANGED <<booked, commission, sale, rate, desk, crossed>>

\* Mutant: the payout is read without its lock.
NeverLocks(kind, k) == FALSE

\* get(lock=True)
Locks(kind, k) == k \in Payouts /\ kind \in {"submit", "cancel"}

\* No other request has the row of claim k locked.
RowUnlocked(k, d) ==
    \A e \in Desks \ {d} : desk[e].claim = k => ~Locks(desk[e].kind, k)

\* The status a claim must have for this request.
Admits(kind, status) == IF kind = "cancel" THEN status \in {"draft", "submitted"}
                        ELSE status = "draft"

Standing(k) == {i \in DOMAIN booked[k] : ~booked[k][i].reversed}

\* The claim is read and checked; of its vouchers, whether there is one
\* (_already_posted), which stands (_reverse); of the balance, what is left.
ReadClaim(d, kind, k) ==
    /\ desk[d] = Vacant
    /\ Admits(kind, claim[k].status)
    /\ Locks(kind, k) => RowUnlocked(k, d)
    /\ kind = "submit" /\ k \in Payouts => claim[k].amount <= Outstanding(claim[k].who)
    /\ desk' = [desk EXCEPT ![d] =
                  [kind |-> kind, claim |-> k, read |-> claim[k], stale |-> FALSE,
                   posted |-> booked[k] # <<>>, standing |-> Standing(k)]]
    /\ UNCHANGED <<claim, booked, commission, sale, rate, crossed>>

\* d's request ends; what others read of the claim is stale, and so is the
\* balance of p with those that submit a payout to the same person.
Done(d, k) ==
    desk' = [e \in Desks |->
               IF e = d THEN Vacant
               ELSE IF desk[e] # Vacant /\ (desk[e].claim = k \/ (desk[e].kind = "submit"
                          /\ desk[d].kind = "submit" /\ {k, desk[e].claim} \subseteq Payouts
                          /\ desk[e].read.who = desk[d].read.who))
                 THEN [desk[e] EXCEPT !.stale = TRUE]
               ELSE desk[e]]

\* Only a request that took no lock can write a claim from a stale read; two
\* submits of different payouts can overdraw one person.  It may also move what
\* was submitted meanwhile to another person.
Crossing(d, new) ==
    LET k == desk[d].claim IN
    IF ~desk[d].stale THEN {}
    ELSE IF desk[d].kind = "submit" /\ k \in Payouts THEN {desk[d].read.who}
    ELSE IF desk[d].kind = "cancel" /\ k \in Payouts THEN {}
    ELSE {k, claim[k].who, new.who} \ {Nobody}

\* d's request writes its claim anew.
Finish(d, kind, new) ==
    LET k == desk[d].claim IN
    /\ desk[d].kind = kind
    /\ claim[k].status # "deleted" /\ RowUnlocked(k, d)
    /\ claim' = [claim EXCEPT ![k] = new]
    /\ Done(d, k)
    /\ crossed' = crossed \cup Crossing(d, new)
    /\ UNCHANGED <<commission, sale, rate>>

\* update: only what differs from what was read is written.
UpdateClaim(d, x, p) ==
    LET k == desk[d].claim IN
    /\ Finish(d, "update",
              [claim[k] EXCEPT !.amount = IF x = desk[d].read.amount THEN @ ELSE x,
                               !.who = IF k \in Expenses \/ p = desk[d].read.who THEN @ ELSE p])
    /\ UNCHANGED booked

\* submit: posted unless a voucher of this claim is found.  An expense may be
\* looked up before or after another request posted it.
SubmitClaim(d) ==
    LET k == desk[d].claim IN
    /\ Finish(d, "submit", [claim[k] EXCEPT !.status = "submitted"])
    /\ \E found \in {desk[d].posted, booked[k] # <<>>} :
        booked' = IF found THEN booked
                  ELSE [booked EXCEPT ![k] =
                          Append(@, [amount |-> desk[d].read.amount, reversed |-> FALSE])]

\* cancel: a voucher that stands is reversed if the claim was read submitted.
CancelClaim(d) ==
    LET k == desk[d].claim IN
    /\ Finish(d, "cancel", [claim[k] EXCEPT !.status = "cancelled"])
    /\ IF desk[d].read.status = "submitted" /\ desk[d].standing # {}
         THEN \E i \in desk[d].standing : booked' = [booked EXCEPT ![k][i].reversed = TRUE]
         ELSE UNCHANGED booked

DeleteClaim(d) ==
    LET k == desk[d].claim IN
    /\ Finish(d, "delete", [claim[k] EXCEPT !.status = "deleted"])
    /\ UNCHANGED booked

GiveUp(d) ==
    /\ desk[d] # Vacant
    /\ desk' = [desk EXCEPT ![d] = Vacant]
    /\ UNCHANGED <<claim, booked, commission, sale, rate, crossed>>

ClaimsNext ==
    \/ \E s \in Sales : SendSale(s) \/ VoidSale(s)
    \/ \E p \in People, r \in Rates : ChangeRate(p, r)
    \/ \E k \in ClaimIds, x \in Sums, p \in People : CreateClaim(k, x, p)
    \/ \E d \in Desks :
        \/ \E kind \in {"update", "submit", "cancel", "delete"}, k \in ClaimIds : ReadClaim(d, kind, k)
        \/ \E x \in Sums, p \in People : UpdateClaim(d, x, p)
        \/ SubmitClaim(d) \/ CancelClaim(d) \/ DeleteClaim(d) \/ GiveUp(d)

ClaimsSpec == ClaimsInit /\ [][ClaimsNext]_claimVars

(***************************************************************************)
(* Properties                                                                *)
(***************************************************************************)

\* A claim is booked with its amount, once, exactly while it is submitted; that
\* holds for a payout however its submits and cancels meet, and for an expense
\* or an edited payout unless two requests overlapped on it (submit, cancel,
\* update and delete of both services).
ClaimsMatchBooks ==
    \A k \in ClaimIds \ crossed :
        SumOver(Standing(k), LAMBDA i : booked[k][i].amount)
            = IF claim[k].status = "submitted" THEN claim[k].amount ELSE 0

\* A salesperson is never paid more commission than the sales earned at the
\* rates of their day, though the rate changes later, unless an invoice was
\* voided or credited afterwards, two payouts were submitted at once, or a payout
\* was edited or deleted while it was submitted
\* (CommissionService.submit, balance_for).
CommissionWithinEarned ==
    \A p \in People \ crossed : Paid(p) <= Earned(p)
=============================================================================
