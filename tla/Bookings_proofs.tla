--------------------------- MODULE Bookings_proofs ---------------------------
(***************************************************************************)
(* Proofs about what is booked, in two parts that share no state: the claims *)
(* of expenses and commissions (Claims), and the papers of a chain with their *)
(* journals (Postings).  Each holds for any of its constants.                *)
(***************************************************************************)
EXTENDS Claims, Postings, Sums_proofs

-----------------------------------------------------------------------------
(***************************************************************************)
(* A claim is booked as it stands, and nobody is paid more commission than   *)
(* was earned, unless requests crossed: for any claims, people, sales and    *)
(* amounts and any number of requests at the same time.                      *)
(*                                                                           *)
(* What a request read is worth by the time it writes is in                  *)
(* RequestsAreCurrent: still so, unless another wrote the claim in between,  *)
(* which no other can while the claim is locked.  The balance a submit was   *)
(* checked against is no part of that lock; SubmitsAreCovered says how far it *)
(* can be relied on.                                                         *)
(***************************************************************************)

Statuses == {"none", "draft", "submitted", "cancelled", "deleted"}
ClaimRecords == [status : Statuses, amount : Nat, who : People \cup {Nobody}]
Vouchers == [amount : Nat, reversed : BOOLEAN]
Requests ==
    [kind : {"update", "submit", "cancel", "delete"}, claim : ClaimIds, read : ClaimRecords,
     stale : BOOLEAN, posted : BOOLEAN, standing : SUBSET Nat]

\* Claims, vouchers, sales and requests keep their types.
ClaimsTypeOK ==
    /\ claim \in [ClaimIds -> ClaimRecords]
    /\ booked \in [ClaimIds -> Seq(Vouchers)]
    /\ commission \in [Sales -> Nat]
    /\ sale \in [Sales -> {"draft", "sent", "void"}]
    /\ rate \in [People -> Rates]
    /\ desk \in [Desks -> {Vacant} \cup Requests]
    /\ crossed \subseteq ClaimIds \cup People \cup {Nobody}

\* What a request read of its claim and of the vouchers is still so.
IsCurrent(r) ==
    /\ r.read = claim[r.claim]
    /\ r.posted = (booked[r.claim] # <<>>)
    /\ r.standing = Standing(r.claim)

\* A request was admitted by the status it read, and what it read is still so unless
\* another wrote the claim, which no other can that it has locked.
RequestsAreCurrent ==
    \A d \in Desks :
        desk[d] # Vacant =>
            /\ Admits(desk[d].kind, desk[d].read.status)
            /\ ~desk[d].stale \/ Locks(desk[d].kind, desk[d].claim) => IsCurrent(desk[d])

\* A claim is booked as it stands: nothing before it is submitted, its amount then,
\* and nothing that is not reversed once it is cancelled.
IsBooked(k) ==
    /\ claim[k].status \in {"none", "draft", "deleted"} => booked[k] = <<>>
    /\ claim[k].status = "submitted" =>
          booked[k] = <<[amount |-> claim[k].amount, reversed |-> FALSE]>>
    /\ claim[k].status = "cancelled" => Standing(k) = {}

ClaimsAreBooked == \A k \in ClaimIds \ crossed : IsBooked(k)

IsPayoutSubmit(r) == r # Vacant /\ r.kind = "submit" /\ r.claim \in Payouts

\* A payout that is being submitted is within what is outstanding, unless another was
\* submitted to the same person since, or that person crossed.
SubmitsAreCovered ==
    \A d \in Desks :
        IsPayoutSubmit(desk[d]) /\ ~desk[d].stale /\ desk[d].read.who \in People \ crossed =>
            desk[d].read.amount <= Outstanding(desk[d].read.who)

ClaimsIInv ==
    /\ ClaimsTypeOK
    /\ RequestsAreCurrent
    /\ ClaimsAreBooked
    /\ SubmitsAreCovered
    /\ CommissionWithinEarned

-----------------------------------------------------------------------------
(* What was earned and what was paid, as sums.                               *)

\* What sale s earns p, and what claim k pays p.
EarnedOn(s, p) ==
    IF SaleOf[s].who = p /\ sale[s] = "sent" THEN SaleOf[s].sign * commission[s] ELSE 0

PaidBy(k, p) ==
    IF claim[k].who = p /\ claim[k].status = "submitted" THEN claim[k].amount ELSE 0

EarnedIsSum ==
    \A p \in People : Earned(p) = SumOf([s \in Sales |-> EarnedOn(s, p)], Sales)
PaidIsSum ==
    \A p \in People : Paid(p) = SumOf([k \in Payouts |-> PaidBy(k, p)], Payouts)

EarnedTypes == \A s \in Sales, p \in People : EarnedOn(s, p) \in Int
PaidTypes == \A k \in ClaimIds, p \in People : PaidBy(k, p) \in Nat

LEMMA SignsOfSales ==
  ASSUME ClaimsTypeOK, NEW s \in Sales
  PROVE  /\ SaleOf[s].sign \in {-1, 1} /\ SaleOf[s].who \in People /\ SaleOf[s].net \in Nat
         /\ commission[s] \in Nat
         /\ SaleOf[s].sign * commission[s]
              = IF SaleOf[s].sign = 1 THEN commission[s] ELSE 0 - commission[s]
<1>1. /\ SaleOf[s].sign \in {-1, 1} /\ SaleOf[s].who \in People /\ SaleOf[s].net \in Nat
      /\ commission[s] \in Nat
  BY ClaimsAssumption DEF ClaimsTypeOK
<1>2. 1 * commission[s] = commission[s] /\ (-1) * commission[s] = 0 - commission[s]
  BY <1>1
<1> QED
  BY <1>1, <1>2

LEMMA EarnedAndPaidTypes == ClaimsTypeOK => EarnedTypes /\ PaidTypes
<1> SUFFICES ASSUME ClaimsTypeOK PROVE EarnedTypes /\ PaidTypes
  OBVIOUS
<1>1. EarnedTypes
  <2> SUFFICES ASSUME NEW s \in Sales, NEW p \in People PROVE EarnedOn(s, p) \in Int
    BY DEF EarnedTypes
  <2>1. SaleOf[s].sign * commission[s] \in Int
    <3>1. commission[s] \in Nat
      BY SignsOfSales
    <3>2. commission[s] \in Int /\ 0 - commission[s] \in Int
      BY <3>1
    <3> QED
      BY <3>2, SignsOfSales
  <2> QED
    BY <2>1 DEF EarnedOn
<1>2. PaidTypes
  BY DEF PaidTypes, PaidBy, ClaimsTypeOK, ClaimRecords
<1> QED
  BY <1>1, <1>2

LEMMA EarnedAsSum == ClaimsTypeOK => EarnedIsSum
<1> SUFFICES ASSUME ClaimsTypeOK, NEW p \in People
             PROVE  Earned(p) = SumOf([s \in Sales |-> EarnedOn(s, p)], Sales)
  BY DEF EarnedIsSum
<1> DEFINE S == {s \in Sales : SaleOf[s].who = p /\ sale[s] = "sent"}
           f == [s \in Sales |-> SaleOf[s].sign * commission[s]]
           h == [s \in Sales |-> EarnedOn(s, p)]
           A(g) == [t \in SUBSET S |->
                      IF t = {} THEN 0
                      ELSE SaleOf[CHOOSE x \in t : TRUE].sign * commission[CHOOSE x \in t : TRUE]
                           + g[t \ {CHOOSE x \in t : TRUE}]]
           B(g) == [t \in SUBSET S |->
                      IF t = {} THEN 0
                      ELSE f[CHOOSE x \in t : TRUE] + g[t \ {CHOOSE x \in t : TRUE}]]
<1>1. \A g : A(g) = B(g)
  <2>1. \A t \in SUBSET S : t # {} =>
          f[CHOOSE x \in t : TRUE]
            = SaleOf[CHOOSE x \in t : TRUE].sign * commission[CHOOSE x \in t : TRUE]
    OBVIOUS
  <2> HIDE DEF S, f
  <2> QED
    BY <2>1
<1>2. Earned(p) = (CHOOSE g : g = A(g))[S]
  BY DEF Earned, SumOver, MapThenSumSet, MapThenFoldSet
<1>3. SumOf(f, S) = (CHOOSE g : g = B(g))[S]
  BY DEF SumOf, MapThenSumSet, MapThenFoldSet
<1>4. (CHOOSE g : g = A(g)) = (CHOOSE g : g = B(g))
  <2> HIDE DEF A, B
  <2> QED BY <1>1
<1>5. SumOf(f, S) = SumOf(h, Sales)
  <2>1. \A x \in S : f[x] \in Int /\ h[x] = f[x]
    BY EarnedAndPaidTypes DEF EarnedTypes, EarnedOn
  <2>2. \A x \in Sales \ S : h[x] = 0
    BY DEF EarnedOn
  <2>3. IsFiniteSet(Sales) /\ S \in SUBSET Sales
    BY ClaimsAssumption
  <2> HIDE DEF S, f, h
  <2> QED
    BY <2>1, <2>2, <2>3, SumOfPart
<1> QED
  BY <1>2, <1>3, <1>4, <1>5

LEMMA PaidAsSum == ClaimsTypeOK => PaidIsSum
<1> SUFFICES ASSUME ClaimsTypeOK, NEW p \in People
             PROVE  Paid(p) = SumOf([k \in Payouts |-> PaidBy(k, p)], Payouts)
  BY DEF PaidIsSum
<1> DEFINE S == {k \in Payouts : claim[k].who = p /\ claim[k].status = "submitted"}
           f == [k \in Payouts |-> claim[k].amount]
           h == [k \in Payouts |-> PaidBy(k, p)]
           A(g) == [t \in SUBSET S |->
                      IF t = {} THEN 0
                      ELSE claim[CHOOSE x \in t : TRUE].amount
                           + g[t \ {CHOOSE x \in t : TRUE}]]
           B(g) == [t \in SUBSET S |->
                      IF t = {} THEN 0
                      ELSE f[CHOOSE x \in t : TRUE] + g[t \ {CHOOSE x \in t : TRUE}]]
<1>1. \A g : A(g) = B(g)
  <2>1. \A t \in SUBSET S : t # {} =>
          f[CHOOSE x \in t : TRUE] = claim[CHOOSE x \in t : TRUE].amount
    OBVIOUS
  <2> HIDE DEF S, f
  <2> QED
    BY <2>1
<1>2. Paid(p) = (CHOOSE g : g = A(g))[S]
  BY DEF Paid, SumOver, MapThenSumSet, MapThenFoldSet
<1>3. SumOf(f, S) = (CHOOSE g : g = B(g))[S]
  BY DEF SumOf, MapThenSumSet, MapThenFoldSet
<1>4. (CHOOSE g : g = A(g)) = (CHOOSE g : g = B(g))
  <2> HIDE DEF A, B
  <2> QED BY <1>1
<1>5. SumOf(f, S) = SumOf(h, Payouts)
  <2>1. \A x \in S : f[x] \in Int /\ h[x] = f[x]
    BY DEF PaidBy, ClaimsTypeOK, ClaimRecords, ClaimIds
  <2>2. \A x \in Payouts \ S : h[x] = 0
    BY DEF PaidBy
  <2>3. IsFiniteSet(Payouts) /\ S \in SUBSET Payouts
    BY ClaimsAssumption
  <2> HIDE DEF S, f, h
  <2> QED
    BY <2>1, <2>2, <2>3, SumOfPart
<1> QED
  BY <1>2, <1>3, <1>4, <1>5

\* When one sale changes, what its person has earned changes by what it earns.
LEMMA EarnedChanges ==
  ASSUME ClaimsTypeOK, ClaimsTypeOK', NEW s \in Sales, NEW p \in People,
         \A o \in Sales \ {s} : sale'[o] = sale[o] /\ commission'[o] = commission[o]
  PROVE  /\ Earned(p) \in Int
         /\ Earned(p)' = Earned(p) - EarnedOn(s, p) + EarnedOn(s, p)'
<1> DEFINE f == [o \in Sales |-> EarnedOn(o, p)]
           g == [o \in Sales |-> EarnedOn(o, p)']
<1>1. Earned(p) = SumOf(f, Sales)
  BY EarnedAsSum DEF EarnedIsSum
<1>2. Earned(p)' = SumOf(g, Sales)
  <2>1. (ClaimsTypeOK => EarnedIsSum)'
    BY EarnedAsSum, PTL
  <2> QED
    BY <2>1 DEF EarnedIsSum
<1>3. (ClaimsTypeOK => EarnedTypes /\ PaidTypes)'
  BY EarnedAndPaidTypes, PTL
<1>4. \A o \in Sales : f[o] \in Int /\ g[o] \in Int
  BY <1>3, EarnedAndPaidTypes DEF EarnedTypes
<1>5. \A o \in Sales : o # s => f[o] = g[o]
  BY DEF EarnedOn
<1>6. f[s] = EarnedOn(s, p) /\ g[s] = EarnedOn(s, p)' /\ IsFiniteSet(Sales)
  BY ClaimsAssumption
<1> HIDE DEF f, g
<1>7. SumOf(g, Sales) = SumOf(f, Sales) - f[s] + g[s]
  BY <1>4, <1>5, <1>6, SumChanges
<1>8. SumOf(f, Sales) \in Int
  BY <1>4, <1>6, SumIsInteger
<1> QED
  BY <1>1, <1>2, <1>6, <1>7, <1>8

\* When one claim changes, what a person was paid changes by what it pays.
LEMMA PaidChanges ==
  ASSUME ClaimsTypeOK, ClaimsTypeOK', NEW k \in Payouts, NEW p \in People,
         \A o \in Payouts \ {k} : claim'[o] = claim[o]
  PROVE  /\ Paid(p) \in Int
         /\ Paid(p)' = Paid(p) - PaidBy(k, p) + PaidBy(k, p)'
<1> DEFINE f == [o \in Payouts |-> PaidBy(o, p)]
           g == [o \in Payouts |-> PaidBy(o, p)']
<1>1. Paid(p) = SumOf(f, Payouts)
  BY PaidAsSum DEF PaidIsSum
<1>2. Paid(p)' = SumOf(g, Payouts)
  <2>1. (ClaimsTypeOK => PaidIsSum)'
    BY PaidAsSum, PTL
  <2> QED
    BY <2>1 DEF PaidIsSum
<1>3. (ClaimsTypeOK => EarnedTypes /\ PaidTypes)'
  BY EarnedAndPaidTypes, PTL
<1>4. \A o \in Payouts : f[o] \in Int /\ g[o] \in Int
  BY <1>3, EarnedAndPaidTypes DEF PaidTypes, ClaimIds
<1>5. \A o \in Payouts : o # k => f[o] = g[o]
  BY DEF PaidBy
<1>6. f[k] = PaidBy(k, p) /\ g[k] = PaidBy(k, p)' /\ IsFiniteSet(Payouts)
  BY ClaimsAssumption
<1> HIDE DEF f, g
<1>7. SumOf(g, Payouts) = SumOf(f, Payouts) - f[k] + g[k]
  BY <1>4, <1>5, <1>6, SumChanges
<1>8. SumOf(f, Payouts) \in Int
  BY <1>4, <1>6, SumIsInteger
<1> QED
  BY <1>1, <1>2, <1>6, <1>7, <1>8

\* Where no payout changes, nobody is paid anything else.
LEMMA PaidStays ==
  ASSUME ClaimsTypeOK, ClaimsTypeOK', NEW p \in People,
         \A o \in Payouts : claim'[o] = claim[o]
  PROVE  Paid(p) \in Int /\ Paid(p)' = Paid(p)
<1> DEFINE f == [o \in Payouts |-> PaidBy(o, p)]
<1>1. Paid(p) = SumOf(f, Payouts)
  BY PaidAsSum DEF PaidIsSum
<1>2. Paid(p)' = SumOf([o \in Payouts |-> PaidBy(o, p)'], Payouts)
  <2>1. (ClaimsTypeOK => PaidIsSum)'
    BY PaidAsSum, PTL
  <2> QED
    BY <2>1 DEF PaidIsSum
<1>3. [o \in Payouts |-> PaidBy(o, p)'] = f
  BY DEF PaidBy
<1>4. \A o \in Payouts : f[o] \in Int
  BY EarnedAndPaidTypes DEF PaidTypes, ClaimIds
<1>5. SumOf(f, Payouts) \in Int
  <2> HIDE DEF f
  <2> QED BY <1>4, SumIsInteger, ClaimsAssumption
<1> QED
  BY <1>1, <1>2, <1>3, <1>5

PaidAreIntegers == \A p \in People : Paid(p) \in Int

LEMMA PaidIsInteger == ClaimsTypeOK => PaidAreIntegers
<1> SUFFICES ASSUME ClaimsTypeOK, NEW p \in People PROVE Paid(p) \in Int
  BY DEF PaidAreIntegers
<1> DEFINE f == [o \in Payouts |-> PaidBy(o, p)]
<1>1. \A o \in Payouts : f[o] \in Int
  BY EarnedAndPaidTypes DEF PaidTypes, ClaimIds
<1>2. Paid(p) = SumOf(f, Payouts)
  BY PaidAsSum DEF PaidIsSum
<1> HIDE DEF f
<1> QED
  BY <1>1, <1>2, SumIsInteger, ClaimsAssumption

\* Where no sale changes, nobody has earned anything else.
LEMMA EarnedStays ==
  ASSUME ClaimsTypeOK, ClaimsTypeOK', NEW p \in People, UNCHANGED <<sale, commission>>
  PROVE  Earned(p) \in Int /\ Earned(p)' = Earned(p)
<1> DEFINE f == [o \in Sales |-> EarnedOn(o, p)]
<1>1. Earned(p) = SumOf(f, Sales)
  BY EarnedAsSum DEF EarnedIsSum
<1>2. \A o \in Sales : f[o] \in Int
  BY EarnedAndPaidTypes DEF EarnedTypes
<1>3. SumOf(f, Sales) \in Int
  <2> HIDE DEF f
  <2> QED BY <1>2, SumIsInteger, ClaimsAssumption
<1>4. Earned(p)' = SumOf([o \in Sales |-> EarnedOn(o, p)'], Sales)
  <2>1. (ClaimsTypeOK => EarnedIsSum)'
    BY EarnedAsSum, PTL
  <2> QED
    BY <2>1 DEF EarnedIsSum
<1>5. [o \in Sales |-> EarnedOn(o, p)'] = f
  BY DEF EarnedOn
<1> QED
  BY <1>1, <1>3, <1>4, <1>5

-----------------------------------------------------------------------------
(* Requests.                                                                 *)

LEMMA RequestTypes ==
  ASSUME ClaimsTypeOK, NEW d \in Desks, desk[d] # Vacant
  PROVE  /\ desk[d] \in Requests /\ desk[d].claim \in ClaimIds /\ desk[d].read \in ClaimRecords
         /\ claim[desk[d].claim] \in ClaimRecords /\ booked[desk[d].claim] \in Seq(Vouchers)
BY DEF ClaimsTypeOK, Requests

LEMMA VacantIsNoRequest == Vacant \notin Requests
<1>1. \A r \in Requests : r.kind \in {"update", "submit", "cancel", "delete"}
  BY DEF Requests
<1>2. Vacant.kind = "idle"
  BY DEF Vacant
<1> QED
  BY <1>1, <1>2

LEMMA StandingTypes ==
  ASSUME ClaimsTypeOK, NEW k \in ClaimIds
  PROVE  Standing(k) \in SUBSET Nat /\ Standing(k) \in SUBSET DOMAIN booked[k]
<1>1. booked[k] \in Seq(Vouchers)
  BY DEF ClaimsTypeOK
<1>2. DOMAIN booked[k] = 1..Len(booked[k]) /\ Len(booked[k]) \in Nat
  BY <1>1
<1> QED
  BY <1>2 DEF Standing

\* What a step that writes claim k does to the requests.
LEMMA Finishing ==
  ASSUME ClaimsTypeOK, NEW d \in Desks, NEW kind \in {"update", "submit", "cancel", "delete"},
         NEW new \in ClaimRecords, Finish(d, kind, new)
  PROVE  LET k == desk[d].claim IN
         /\ desk[d] \in Requests /\ desk[d] # Vacant /\ desk[d].kind = kind /\ k \in ClaimIds
         /\ claim' = [claim EXCEPT ![k] = new]
         /\ desk' \in [Desks -> {Vacant} \cup Requests] /\ desk'[d] = Vacant
         /\ \A e \in Desks \ {d} :
               /\ desk[e] # Vacant /\ desk[e].claim = k => ~Locks(desk[e].kind, k)
               /\ desk'[e] # Vacant =>
                     /\ desk[e] # Vacant /\ desk[e] \in Requests /\ desk'[e] \in Requests
                     /\ desk'[e] = desk[e] \/ desk'[e] = [desk[e] EXCEPT !.stale = TRUE]
                     /\ desk[e].claim = k => desk'[e].stale
                     /\ IsPayoutSubmit(desk[e]) /\ IsPayoutSubmit(desk[d])
                           /\ desk[e].read.who = desk[d].read.who => desk'[e].stale
         /\ crossed' = crossed \cup Crossing(d, new)
         /\ UNCHANGED <<commission, sale, rate>>
<1> DEFINE k == desk[d].claim
           Marked(e) == desk[e].claim = k \/ (desk[e].kind = "submit"
                          /\ desk[d].kind = "submit" /\ {k, desk[e].claim} \subseteq Payouts
                          /\ desk[e].read.who = desk[d].read.who)
<1>1. desk[d].kind = kind /\ desk[d] # Vacant
  BY DEF Finish, Vacant
<1>2. desk[d] \in Requests /\ k \in ClaimIds
  BY <1>1, RequestTypes
<1>3. \A e \in Desks :
         desk'[e] = IF e = d THEN Vacant
                    ELSE IF desk[e] # Vacant /\ Marked(e) THEN [desk[e] EXCEPT !.stale = TRUE]
                    ELSE desk[e]
  BY DEF Finish, Done
<1>4. \A e \in Desks : desk[e] # Vacant =>
         desk[e] \in Requests /\ [desk[e] EXCEPT !.stale = TRUE] \in Requests
  BY DEF ClaimsTypeOK, Requests
<1>5. desk' = [e \in Desks |-> desk'[e]]
  BY DEF Finish, Done
<1>6. desk' \in [Desks -> {Vacant} \cup Requests] /\ desk'[d] = Vacant
  BY <1>3, <1>4, <1>5
<1>7. ASSUME NEW e \in Desks \ {d}, desk[e] # Vacant, desk[e].claim = k
      PROVE  ~Locks(desk[e].kind, k)
  BY <1>7 DEF Finish, RowUnlocked
<1>8. ASSUME NEW e \in Desks \ {d}, desk'[e] # Vacant
      PROVE  /\ desk[e] # Vacant /\ desk[e] \in Requests /\ desk'[e] \in Requests
             /\ desk'[e] = desk[e] \/ desk'[e] = [desk[e] EXCEPT !.stale = TRUE]
             /\ Marked(e) => desk'[e].stale
  <2>1. desk[e] # Vacant
    BY <1>3, <1>8
  <2>2. desk[e] \in Requests /\ [desk[e] EXCEPT !.stale = TRUE] \in Requests
        /\ [desk[e] EXCEPT !.stale = TRUE].stale
    BY <1>4, <2>1 DEF Requests
  <2> HIDE DEF Marked
  <2> QED
    BY <1>3, <2>1, <2>2
<1>9. ASSUME NEW e \in Desks \ {d}, IsPayoutSubmit(desk[e]), IsPayoutSubmit(desk[d]),
             desk[e].read.who = desk[d].read.who
      PROVE  Marked(e)
  BY <1>9 DEF IsPayoutSubmit
<1>10. /\ claim' = [claim EXCEPT ![k] = new] /\ crossed' = crossed \cup Crossing(d, new)
       /\ UNCHANGED <<commission, sale, rate>>
  BY DEF Finish
<1> QED
  BY <1>1, <1>2, <1>6, <1>7, <1>8, <1>9, <1>10

\* What is written from a stale read marks the claim as crossed, unless it was locked.
LEMMA UncrossedIsCurrent ==
  ASSUME ClaimsIInv, NEW d \in Desks, NEW kind \in {"update", "submit", "cancel", "delete"},
         NEW new \in ClaimRecords, Finish(d, kind, new),
         desk[d].claim \notin crossed' \/ Locks(kind, desk[d].claim)
  PROVE  IsCurrent(desk[d]) /\ Admits(kind, claim[desk[d].claim].status)
<1> USE DEF ClaimsIInv
<1> DEFINE k == desk[d].claim
<1>1. /\ desk[d] \in Requests /\ desk[d] # Vacant /\ desk[d].kind = kind /\ k \in ClaimIds
      /\ crossed' = crossed \cup Crossing(d, new)
  BY Finishing
<1>2. k # Nobody
  BY <1>1, ClaimsAssumption DEF ClaimIds
<1>3. ~desk[d].stale \/ Locks(kind, k)
  BY <1>1, <1>2 DEF Crossing, Locks
<1>4. IsCurrent(desk[d]) /\ Admits(kind, desk[d].read.status)
  BY <1>1, <1>3 DEF RequestsAreCurrent
<1> QED
  BY <1>4 DEF IsCurrent

\* What the others read is still so when one claim is written, with its vouchers.
LEMMA OthersStayCurrent ==
  ASSUME ClaimsIInv, NEW d \in Desks, NEW kind \in {"update", "submit", "cancel", "delete"},
         NEW new \in ClaimRecords, Finish(d, kind, new),
         \A o \in ClaimIds : o # desk[d].claim => booked'[o] = booked[o]
  PROVE  RequestsAreCurrent'
<1> USE DEF ClaimsIInv
<1> DEFINE k == desk[d].claim
<1> SUFFICES ASSUME NEW e \in Desks, desk'[e] # Vacant
             PROVE  /\ Admits(desk'[e].kind, desk'[e].read.status)
                    /\ ~desk'[e].stale \/ Locks(desk'[e].kind, desk'[e].claim)
                          => IsCurrent(desk[e])'
  BY DEF RequestsAreCurrent
<1>1. /\ e # d /\ k \in ClaimIds /\ claim' = [claim EXCEPT ![k] = new]
      /\ desk[e].claim = k => ~Locks(desk[e].kind, k)
      /\ desk[e] # Vacant /\ desk[e] \in Requests /\ desk'[e] \in Requests
      /\ desk'[e] = desk[e] \/ desk'[e] = [desk[e] EXCEPT !.stale = TRUE]
      /\ desk[e].claim = k => desk'[e].stale
  <2>1. e # d
    BY Finishing
  <2> QED
    BY <2>1, Finishing
<1>2. /\ desk'[e].kind = desk[e].kind /\ desk'[e].claim = desk[e].claim
      /\ desk'[e].read = desk[e].read /\ desk'[e].posted = desk[e].posted
      /\ desk'[e].standing = desk[e].standing
      /\ ~desk'[e].stale => ~desk[e].stale
  BY <1>1 DEF Requests
<1>3. Admits(desk[e].kind, desk[e].read.status)
  BY <1>1 DEF RequestsAreCurrent
<1>4. ASSUME ~desk'[e].stale \/ Locks(desk'[e].kind, desk'[e].claim)
      PROVE  IsCurrent(desk[e])'
  <2>1. desk[e].claim # k /\ IsCurrent(desk[e])
    BY <1>1, <1>2, <1>4 DEF RequestsAreCurrent
  <2>2. desk[e].claim \in ClaimIds
    BY <1>1 DEF Requests
  <2>3. claim'[desk[e].claim] = claim[desk[e].claim] /\ booked'[desk[e].claim] = booked[desk[e].claim]
    BY <1>1, <2>1, <2>2 DEF ClaimsTypeOK
  <2>4. Standing(desk[e].claim)' = Standing(desk[e].claim)
    BY <1>1, <1>2, <2>3 DEF Standing
  <2> QED
    BY <1>2, <2>1, <2>3, <2>4 DEF IsCurrent
<1> QED
  BY <1>2, <1>3, <1>4

-----------------------------------------------------------------------------
(* Claims.                                                                   *)

\* A claim that is current is written with its vouchers: what is left is booked as it
\* stands, and the claims that others write are not touched.
LEMMA WrittenIsBooked ==
  ASSUME ClaimsIInv, NEW d \in Desks, NEW kind \in {"update", "submit", "cancel", "delete"},
         NEW new \in ClaimRecords, Finish(d, kind, new), NEW k \in ClaimIds, k = desk[d].claim,
         \A o \in ClaimIds : o # k => booked'[o] = booked[o],
         k \notin crossed' => IsBooked(k)'
  PROVE  ClaimsAreBooked'
<1>1. claim' = [claim EXCEPT ![k] = new] /\ crossed \subseteq crossed'
  BY Finishing DEF ClaimsIInv
<1> SUFFICES ASSUME NEW o \in ClaimIds \ crossed', o # k PROVE IsBooked(o)'
  BY DEF ClaimsAreBooked
<1>2. IsBooked(o)
  BY <1>1 DEF ClaimsIInv, ClaimsAreBooked
<1>3. claim'[o] = claim[o] /\ booked'[o] = booked[o]
  BY <1>1 DEF ClaimsIInv, ClaimsTypeOK
<1>4. Standing(o)' = Standing(o)
  BY <1>3 DEF Standing
<1> QED
  BY <1>2, <1>3, <1>4 DEF IsBooked

\* A request that ends pays nobody more, but for a submit of a payout, which was covered.
LEMMA PaidOnFinish ==
  ASSUME ClaimsIInv, ClaimsTypeOK', NEW d \in Desks, NEW k \in ClaimIds, k = desk[d].claim,
         NEW kind \in {"update", "submit", "cancel", "delete"},
         NEW new \in ClaimRecords, Finish(d, kind, new),
         kind = "submit" => new = [claim[k] EXCEPT !.status = "submitted"],
         kind = "cancel" => new.status = "cancelled",
         kind \in {"update", "delete"} =>
             new.status \in {claim[k].status, "deleted"},
         NEW p \in People \ crossed'
  PROVE  \/ Paid(p)' <= Paid(p)
         \/ /\ IsPayoutSubmit(desk[d]) /\ desk[d].read.who = p
            /\ Paid(p)' <= Earned(p)
<1> USE DEF ClaimsIInv
<1>1. /\ desk[d] \in Requests /\ desk[d] # Vacant /\ desk[d].kind = kind /\ k \in ClaimIds
      /\ claim' = [claim EXCEPT ![k] = new] /\ crossed' = crossed \cup Crossing(d, new)
  BY Finishing
<1>2. CASE k \notin Payouts
  <2>1. \A o \in Payouts : claim'[o] = claim[o]
    BY <1>1, <1>2
  <2>2. Paid(p) \in Int /\ Paid(p)' = Paid(p)
    BY <2>1, PaidStays
  <2> QED
    BY <2>2
<1>3. CASE k \in Payouts
  <2>1. Paid(p) \in Int /\ Paid(p)' = Paid(p) - PaidBy(k, p) + PaidBy(k, p)'
    <3>1. \A o \in Payouts \ {k} : claim'[o] = claim[o]
      BY <1>1
    <3> QED
      BY <1>3, <3>1, PaidChanges
  <2>2. claim'[k] = new
    BY <1>1 DEF ClaimsTypeOK
  <2>3. PaidBy(k, p) \in Nat
    BY <1>1, EarnedAndPaidTypes DEF PaidTypes
  <2>4. CASE PaidBy(k, p)' = 0
    <3>1. Paid(p)' <= Paid(p)
      BY <2>1, <2>3, <2>4
    <3> QED
      BY <3>1
  <2>5. CASE PaidBy(k, p)' # 0
    <3>1. new.who = p /\ new.status = "submitted" /\ PaidBy(k, p)' = new.amount
      BY <2>2, <2>5 DEF PaidBy
    <3>2. p # Nobody /\ k # Nobody
      BY <1>1, ClaimsAssumption DEF ClaimIds
    <3>3. kind = "submit"
      <4>1. CASE kind \in {"update", "delete"} /\ desk[d].stale
        <5>1. p \in Crossing(d, new)
          BY <1>1, <3>1, <3>2, <4>1 DEF Crossing
        <5> QED
          BY <1>1, <5>1
      <4>2. CASE kind \in {"update", "delete"} /\ ~desk[d].stale
        <5>1. IsCurrent(desk[d]) /\ Admits(kind, desk[d].read.status)
          BY <1>1, <4>2 DEF RequestsAreCurrent
        <5>2. claim[k].status = "draft"
          BY <4>2, <5>1 DEF IsCurrent, Admits
        <5> QED
          BY <3>1, <4>2, <5>2
      <4> QED
        BY <3>1, <4>1, <4>2
    <3>4. IsCurrent(desk[d]) /\ Admits(kind, claim[k].status)
      <4>1. Locks(kind, k)
        BY <1>3, <3>3 DEF Locks
      <4> QED
        BY <4>1, UncrossedIsCurrent
    <3>5. claim[k] = desk[d].read /\ claim[k].status = "draft" /\ claim[k] \in ClaimRecords
      BY <1>1, <3>3, <3>4 DEF IsCurrent, Admits, ClaimsTypeOK
    <3>6. new.who = claim[k].who /\ new.amount = claim[k].amount
      BY <3>3, <3>5 DEF ClaimRecords
    <3>7. IsPayoutSubmit(desk[d]) /\ desk[d].read.who = p
      BY <1>1, <1>3, <3>1, <3>3, <3>5, <3>6 DEF IsPayoutSubmit
    <3>8. ~desk[d].stale
      <4>1. ASSUME desk[d].stale PROVE p \in Crossing(d, new)
        BY <1>1, <1>3, <3>3, <3>7, <4>1 DEF Crossing
      <4> QED
        BY <1>1, <4>1
    <3>9. desk[d].read.amount <= Outstanding(p)
      BY <1>1, <3>7, <3>8 DEF SubmitsAreCovered
    <3>10. PaidBy(k, p) = 0
      BY <3>5 DEF PaidBy
    <3>11. Earned(p) \in Int
      BY <1>1, EarnedStays DEF Finish
    <3>12. new.amount \in Nat
      BY DEF ClaimRecords
    <3>13. Paid(p)' <= Earned(p)
      BY <2>1, <3>1, <3>5, <3>6, <3>9, <3>10, <3>11, <3>12 DEF Outstanding
    <3> QED
      BY <3>7, <3>13
  <2> QED
    BY <2>4, <2>5
<1> QED
  BY <1>2, <1>3

\* So nobody has been paid more than was earned, and what is being submitted is covered.
LEMMA FinishKeepsWithinEarned ==
  ASSUME ClaimsIInv, ClaimsTypeOK', NEW d \in Desks, NEW k \in ClaimIds, k = desk[d].claim,
         NEW kind \in {"update", "submit", "cancel", "delete"},
         NEW new \in ClaimRecords, Finish(d, kind, new),
         kind = "submit" => new = [claim[k] EXCEPT !.status = "submitted"],
         kind = "cancel" => new.status = "cancelled",
         kind \in {"update", "delete"} =>
             new.status \in {claim[k].status, "deleted"}
  PROVE  CommissionWithinEarned' /\ SubmitsAreCovered'
<1> USE DEF ClaimsIInv
<1>1. crossed \subseteq crossed' /\ UNCHANGED <<sale, commission>>
  BY DEF Finish
<1>2. ASSUME NEW p \in People \ crossed'
      PROVE  /\ Paid(p) \in Int /\ Paid(p)' \in Int /\ Earned(p) \in Int /\ Earned(p)' = Earned(p)
             /\ Paid(p) <= Earned(p)
             /\ \/ Paid(p)' <= Paid(p)
                \/ /\ IsPayoutSubmit(desk[d]) /\ desk[d].read.who = p
                   /\ Paid(p)' <= Earned(p)
  <2>1. Earned(p) \in Int /\ Earned(p)' = Earned(p)
    BY <1>1, EarnedStays
  <2>2. Paid(p) <= Earned(p)
    BY <1>1 DEF CommissionWithinEarned
  <2>3. Paid(p) \in Int /\ Paid(p)' \in Int
    <3>1. (ClaimsTypeOK => PaidAreIntegers)'
      BY PaidIsInteger, PTL
    <3> QED
      BY <3>1, PaidIsInteger DEF PaidAreIntegers
  <2>4. \/ Paid(p)' <= Paid(p)
        \/ /\ IsPayoutSubmit(desk[d]) /\ desk[d].read.who = p
           /\ Paid(p)' <= Earned(p)
    BY PaidOnFinish
  <2> QED
    BY <2>1, <2>2, <2>3, <2>4
<1>3. CommissionWithinEarned'
  <2> SUFFICES ASSUME NEW p \in People \ crossed' PROVE Paid(p)' <= Earned(p)'
    BY DEF CommissionWithinEarned
  <2> QED
    BY <1>2
<1>4. SubmitsAreCovered'
  <2> SUFFICES ASSUME NEW e \in Desks, IsPayoutSubmit(desk'[e]), ~desk'[e].stale,
                      desk'[e].read.who \in People \ crossed'
               PROVE  desk'[e].read.amount <= Outstanding(desk[e].read.who)'
    BY DEF SubmitsAreCovered, IsPayoutSubmit
  <2> PICK p \in People \ crossed' : p = desk'[e].read.who
    OBVIOUS
  <2>1. e # d
    BY Finishing DEF IsPayoutSubmit
  <2>2. /\ desk[e] # Vacant /\ desk[e] \in Requests
        /\ desk'[e] = desk[e] \/ desk'[e] = [desk[e] EXCEPT !.stale = TRUE]
        /\ IsPayoutSubmit(desk[e]) /\ IsPayoutSubmit(desk[d])
              /\ desk[e].read.who = desk[d].read.who => desk'[e].stale
    BY <2>1, Finishing DEF IsPayoutSubmit
  <2>3. desk'[e] = desk[e] /\ ~desk[e].stale
    BY <2>2 DEF Requests
  <2>4. desk[e].read.amount <= Outstanding(p)
    BY <1>1, <2>3 DEF SubmitsAreCovered
  <2>5. Paid(p)' <= Paid(p)
    BY <1>2, <2>2, <2>3
  <2>6. desk[e].read.amount \in Nat
    BY <2>2 DEF Requests, ClaimRecords
  <2>7. desk'[e].read.amount <= Outstanding(p)'
    BY <1>2, <2>3, <2>4, <2>5, <2>6 DEF Outstanding
  <2> QED
    BY <2>3, <2>7 DEF Outstanding
<1> QED
  BY <1>3, <1>4

-----------------------------------------------------------------------------
(* Steps of requests.                                                        *)

\* A request that ends leaves the types as they are, if its vouchers have theirs.
LEMMA FinishTypes ==
  ASSUME ClaimsTypeOK, NEW d \in Desks, NEW kind \in {"update", "submit", "cancel", "delete"},
         NEW new \in ClaimRecords, Finish(d, kind, new), booked' \in [ClaimIds -> Seq(Vouchers)]
  PROVE  ClaimsTypeOK'
<1>1. /\ desk[d] \in Requests /\ desk[d].kind = kind /\ desk[d].claim \in ClaimIds
      /\ claim' = [claim EXCEPT ![desk[d].claim] = new]
      /\ desk' \in [Desks -> {Vacant} \cup Requests]
      /\ crossed' = crossed \cup Crossing(d, new)
      /\ UNCHANGED <<commission, sale, rate>>
  BY Finishing
<1>2. claim' \in [ClaimIds -> ClaimRecords]
  BY <1>1 DEF ClaimsTypeOK
<1>3. Crossing(d, new) \subseteq ClaimIds \cup People \cup {Nobody}
  <2>1. /\ desk[d].read.who \in People \cup {Nobody} /\ new.who \in People \cup {Nobody}
        /\ claim[desk[d].claim].who \in People \cup {Nobody}
    BY <1>1 DEF Requests, ClaimRecords, ClaimsTypeOK
  <2> QED
    BY <1>1, <2>1 DEF Crossing
<1> QED
  BY <1>1, <1>2, <1>3 DEF ClaimsTypeOK

LEMMA UpdatingKeepsIInv ==
  ASSUME ClaimsIInv, NEW d \in Desks, NEW x \in Sums, NEW p \in People, UpdateClaim(d, x, p)
  PROVE  ClaimsIInv'
<1> USE DEF ClaimsIInv
<1> PICK k : k = desk[d].claim
  OBVIOUS
<1> DEFINE new == [claim[k] EXCEPT
                     !.amount = IF x = desk[d].read.amount THEN @ ELSE x,
                     !.who = IF k \in Expenses \/ p = desk[d].read.who THEN @ ELSE p]
<1>1. Finish(d, "update", new) /\ booked' = booked
  BY DEF UpdateClaim
<1>2. k \in ClaimIds /\ claim[k] \in ClaimRecords
  <2>1. desk[d] # Vacant
    BY <1>1 DEF Finish, Vacant
  <2> QED
    BY <2>1, RequestTypes
<1>3. new \in ClaimRecords /\ new.status = claim[k].status
  <2>1. x \in Nat
    BY ClaimsAssumption
  <2> QED
    BY <1>2, <2>1 DEF ClaimRecords
<1> HIDE DEF new
<1>4. ClaimsTypeOK'
  BY <1>1, <1>3, FinishTypes DEF ClaimsTypeOK
<1>5. RequestsAreCurrent'
  BY <1>1, <1>3, OthersStayCurrent
<1>6. ClaimsAreBooked'
  <2>1. ASSUME k \notin crossed' PROVE IsBooked(k)'
    <3>1. claim[k].status = "draft"
      BY <1>1, <1>3, <2>1, UncrossedIsCurrent DEF Admits
    <3>2. IsBooked(k)
      BY <1>1, <1>2, <2>1 DEF ClaimsAreBooked, Finish
    <3>3. claim'[k] = new
      BY <1>1, <1>2 DEF Finish, ClaimsTypeOK
    <3> QED
      BY <1>1, <1>3, <3>1, <3>2, <3>3 DEF IsBooked
  <2> QED
    BY <1>1, <1>2, <1>3, <2>1, WrittenIsBooked
<1>7. CommissionWithinEarned' /\ SubmitsAreCovered'
  BY <1>1, <1>2, <1>3, <1>4, FinishKeepsWithinEarned
<1> QED
  BY <1>4, <1>5, <1>6, <1>7

LEMMA DeletingClaimKeepsIInv ==
  ASSUME ClaimsIInv, NEW d \in Desks, DeleteClaim(d)
  PROVE  ClaimsIInv'
<1> USE DEF ClaimsIInv
<1> PICK k : k = desk[d].claim
  OBVIOUS
<1> DEFINE new == [claim[k] EXCEPT !.status = "deleted"]
<1>1. Finish(d, "delete", new) /\ booked' = booked
  BY DEF DeleteClaim
<1>2. k \in ClaimIds /\ claim[k] \in ClaimRecords
  <2>1. desk[d] # Vacant
    BY <1>1 DEF Finish, Vacant
  <2> QED
    BY <2>1, RequestTypes
<1>3. new \in ClaimRecords /\ new.status = "deleted"
  BY <1>2 DEF ClaimRecords, Statuses
<1> HIDE DEF new
<1>4. ClaimsTypeOK'
  BY <1>1, <1>3, FinishTypes DEF ClaimsTypeOK
<1>5. RequestsAreCurrent'
  BY <1>1, <1>3, OthersStayCurrent
<1>6. ClaimsAreBooked'
  <2>1. ASSUME k \notin crossed' PROVE IsBooked(k)'
    <3>1. claim[k].status = "draft"
      BY <1>1, <1>3, <2>1, UncrossedIsCurrent DEF Admits
    <3>2. IsBooked(k)
      BY <1>1, <1>2, <2>1 DEF ClaimsAreBooked, Finish
    <3>3. claim'[k] = new
      BY <1>1, <1>2 DEF Finish, ClaimsTypeOK
    <3> QED
      BY <1>1, <1>3, <3>1, <3>2, <3>3 DEF IsBooked
  <2> QED
    BY <1>1, <1>2, <1>3, <2>1, WrittenIsBooked
<1>7. CommissionWithinEarned' /\ SubmitsAreCovered'
  BY <1>1, <1>2, <1>3, <1>4, FinishKeepsWithinEarned
<1> QED
  BY <1>4, <1>5, <1>6, <1>7

\* A current draft has no voucher, so that it is posted whichever way it is looked up.
LEMMA SubmittingKeepsIInv ==
  ASSUME ClaimsIInv, NEW d \in Desks, SubmitClaim(d)
  PROVE  ClaimsIInv'
<1> USE DEF ClaimsIInv
<1> PICK k : k = desk[d].claim
  OBVIOUS
<1> DEFINE new == [claim[k] EXCEPT !.status = "submitted"]
           v   == [amount |-> desk[d].read.amount, reversed |-> FALSE]
<1>1. /\ Finish(d, "submit", new)
      /\ \E found \in {desk[d].posted, booked[k] # <<>>} :
           booked' = IF found THEN booked ELSE [booked EXCEPT ![k] = Append(@, v)]
  BY DEF SubmitClaim
<1>2. /\ k \in ClaimIds /\ claim[k] \in ClaimRecords /\ desk[d].read \in ClaimRecords
      /\ booked[k] \in Seq(Vouchers)
  <2>1. desk[d] # Vacant
    BY <1>1 DEF Finish, Vacant
  <2> QED
    BY <2>1, RequestTypes
<1>3. new \in ClaimRecords /\ new.status = "submitted" /\ new.amount = claim[k].amount
  BY <1>2 DEF ClaimRecords, Statuses
<1>4. v \in Vouchers
  BY <1>2 DEF Vouchers, ClaimRecords
<1>5. booked' \in [ClaimIds -> Seq(Vouchers)] /\ \A o \in ClaimIds : o # k => booked'[o] = booked[o]
  <2>1. Append(booked[k], v) \in Seq(Vouchers)
    BY <1>2, <1>4
  <2> QED
    BY <1>1, <1>2, <2>1 DEF ClaimsTypeOK
<1>6. ClaimsTypeOK'
  <2> HIDE DEF new, v
  <2> QED BY <1>1, <1>3, <1>5, FinishTypes
<1>7. RequestsAreCurrent'
  <2> HIDE DEF new, v
  <2> QED BY <1>1, <1>3, <1>5, OthersStayCurrent
<1>8. ClaimsAreBooked'
  <2>1. ASSUME k \notin crossed' PROVE IsBooked(k)'
    <3>1. IsCurrent(desk[d]) /\ claim[k].status = "draft"
      <4> HIDE DEF new, v
      <4> QED BY <1>1, <1>3, <2>1, UncrossedIsCurrent DEF Admits
    <3>2. booked[k] = <<>> /\ desk[d].read = claim[k] /\ ~desk[d].posted
      <4>1. IsBooked(k)
        BY <1>1, <1>2, <2>1 DEF ClaimsAreBooked, Finish
      <4> QED
        BY <3>1, <4>1 DEF IsBooked, IsCurrent
    <3>3. claim'[k] = new
      BY <1>1, <1>2 DEF Finish, ClaimsTypeOK
    <3>4. booked'[k] = <<v>>
      <4>1. booked' = [booked EXCEPT ![k] = Append(@, v)]
        BY <1>1, <3>2
      <4>2. booked'[k] = Append(<<>>, v)
        BY <1>2, <3>2, <4>1 DEF ClaimsTypeOK
      <4> HIDE DEF v
      <4> QED
        BY <4>2
    <3> QED
      BY <1>3, <3>2, <3>3, <3>4 DEF IsBooked
  <2> HIDE DEF new, v
  <2> QED
    BY <1>1, <1>2, <1>3, <1>5, <2>1, WrittenIsBooked
<1>9. CommissionWithinEarned' /\ SubmitsAreCovered'
  <2>1. new = [claim[k] EXCEPT !.status = "submitted"]
    OBVIOUS
  <2> HIDE DEF new, v
  <2> QED BY <1>1, <1>2, <1>3, <1>6, <2>1, FinishKeepsWithinEarned
<1> QED
  BY <1>6, <1>7, <1>8, <1>9

\* A current claim that was submitted has one voucher that stands: it is reversed.
LEMMA CancellingKeepsIInv ==
  ASSUME ClaimsIInv, NEW d \in Desks, CancelClaim(d)
  PROVE  ClaimsIInv'
<1> USE DEF ClaimsIInv
<1> PICK k : k = desk[d].claim
  OBVIOUS
<1> DEFINE new == [claim[k] EXCEPT !.status = "cancelled"]
<1>1. /\ Finish(d, "cancel", new)
      /\ IF desk[d].read.status = "submitted" /\ desk[d].standing # {}
           THEN \E i \in desk[d].standing : booked' = [booked EXCEPT ![k][i].reversed = TRUE]
           ELSE booked' = booked
  BY DEF CancelClaim
<1>2. /\ k \in ClaimIds /\ claim[k] \in ClaimRecords /\ desk[d].read \in ClaimRecords
      /\ booked[k] \in Seq(Vouchers)
  <2>1. desk[d] # Vacant
    BY <1>1 DEF Finish, Vacant
  <2> QED
    BY <2>1, RequestTypes
<1>3. new \in ClaimRecords /\ new.status = "cancelled"
  BY <1>2 DEF ClaimRecords, Statuses
<1> HIDE DEF new
<1>4. booked' \in [ClaimIds -> Seq(Vouchers)] /\ \A o \in ClaimIds : o # k => booked'[o] = booked[o]
  <2>1. CASE booked' = booked
    BY <2>1 DEF ClaimsTypeOK
  <2>2. ASSUME NEW i \in desk[d].standing, booked' = [booked EXCEPT ![k][i].reversed = TRUE]
        PROVE  booked' \in [ClaimIds -> Seq(Vouchers)]
               /\ \A o \in ClaimIds : o # k => booked'[o] = booked[o]
    <3> DEFINE b == [j \in DOMAIN booked[k] |->
                       IF j = i THEN [booked[k][j] EXCEPT !.reversed = TRUE] ELSE booked[k][j]]
    <3>1. b \in Seq(Vouchers)
      <4>1. DOMAIN booked[k] = 1..Len(booked[k]) /\ Len(booked[k]) \in Nat
            /\ \A j \in DOMAIN booked[k] : booked[k][j] \in Vouchers
        BY <1>2
      <4>2. \A j \in 1..Len(booked[k]) : b[j] \in Vouchers
        BY <4>1 DEF Vouchers
      <4>3. b \in [1..Len(booked[k]) -> Vouchers]
        <5>1. DOMAIN b = 1..Len(booked[k]) /\ b = [j \in DOMAIN b |-> b[j]]
          BY <4>1
        <5> HIDE DEF b
        <5> QED
          BY <4>2, <5>1
      <4> HIDE DEF b
      <4> QED
        BY <4>1, <4>3
    <3>2. booked' = [booked EXCEPT ![k] = b]
      <4>1. [booked[k] EXCEPT ![i].reversed = TRUE] = b
        BY <1>2
      <4> QED
        BY <2>2, <4>1
    <3> HIDE DEF b
    <3> QED
      BY <1>2, <3>1, <3>2 DEF ClaimsTypeOK
  <2> QED
    BY <1>1, <2>1, <2>2
<1>5. ClaimsTypeOK'
  BY <1>1, <1>3, <1>4, FinishTypes
<1>6. RequestsAreCurrent'
  BY <1>1, <1>3, <1>4, OthersStayCurrent
<1>7. ClaimsAreBooked'
  <2>1. ASSUME k \notin crossed' PROVE IsBooked(k)'
    <3>1. IsCurrent(desk[d]) /\ claim[k].status \in {"draft", "submitted"}
      BY <1>1, <1>3, <2>1, UncrossedIsCurrent DEF Admits
    <3>2. IsBooked(k)
      BY <1>1, <1>2, <2>1 DEF ClaimsAreBooked, Finish
    <3>3. claim'[k] = new
      BY <1>1, <1>2 DEF Finish, ClaimsTypeOK
    <3>4. Standing(k)' = {}
      <4>1. CASE claim[k].status = "draft"
        <5>1. booked'[k] = <<>>
          BY <1>1, <3>1, <3>2, <4>1 DEF IsCurrent, IsBooked
        <5> QED
          BY <5>1 DEF Standing
      <4>2. CASE claim[k].status = "submitted"
        <5>1. booked[k] = <<[amount |-> claim[k].amount, reversed |-> FALSE]>>
          BY <3>2, <4>2 DEF IsBooked
        <5>2. Standing(k) = {1}
          BY <5>1 DEF Standing
        <5>3. booked' = [booked EXCEPT ![k][1].reversed = TRUE]
          BY <1>1, <3>1, <4>2, <5>2 DEF IsCurrent
        <5>4. booked'[k] = [booked[k] EXCEPT ![1].reversed = TRUE]
          BY <1>2, <5>3 DEF ClaimsTypeOK
        <5>5. DOMAIN booked'[k] = {1} /\ booked'[k][1].reversed
          BY <5>1, <5>4
        <5> QED
          BY <5>5 DEF Standing
      <4> QED
        BY <3>1, <4>1, <4>2
    <3> QED
      BY <1>3, <3>3, <3>4 DEF IsBooked
  <2> QED
    BY <1>1, <1>2, <1>3, <1>4, <2>1, WrittenIsBooked
<1>8. CommissionWithinEarned' /\ SubmitsAreCovered'
  BY <1>1, <1>2, <1>3, <1>5, FinishKeepsWithinEarned
<1> QED
  BY <1>5, <1>6, <1>7, <1>8

-----------------------------------------------------------------------------
(* Sales, rates and the steps that write no claim.                           *)

\* Where neither claims, vouchers nor requests change, and nobody new has crossed
\* less than before, the requests stay current and the claims booked.
LEMMA ClaimsStayAsTheyAre ==
  ASSUME ClaimsIInv, UNCHANGED <<claim, booked, desk>>, crossed \subseteq crossed'
  PROVE  RequestsAreCurrent' /\ ClaimsAreBooked'
<1>1. \A k \in ClaimIds : Standing(k)' = Standing(k)
  BY DEF Standing
<1>2. RequestsAreCurrent'
  <2> SUFFICES ASSUME NEW d \in Desks, desk[d] # Vacant
               PROVE  /\ Admits(desk[d].kind, desk[d].read.status)
                      /\ ~desk[d].stale \/ Locks(desk[d].kind, desk[d].claim) => IsCurrent(desk[d])'
    BY DEF RequestsAreCurrent, Admits, Locks
  <2>1. desk[d].claim \in ClaimIds
    BY RequestTypes DEF ClaimsIInv
  <2>2. IsCurrent(desk[d]) => IsCurrent(desk[d])'
    BY <1>1, <2>1 DEF IsCurrent
  <2> QED
    BY <2>2 DEF ClaimsIInv, RequestsAreCurrent
<1>3. ClaimsAreBooked'
  <2> SUFFICES ASSUME NEW k \in ClaimIds, k \notin crossed' PROVE IsBooked(k)'
    BY DEF ClaimsAreBooked
  <2>1. IsBooked(k)
    BY DEF ClaimsIInv, ClaimsAreBooked
  <2> QED
    BY <1>1, <2>1 DEF IsBooked
<1> QED
  BY <1>2, <1>3

\* A sale that earns its person less than before marks that person as crossed.
LEMMA SaleKeepsIInv ==
  ASSUME ClaimsIInv, ClaimsTypeOK', NEW s \in Sales,
         \A o \in Sales \ {s} : sale'[o] = sale[o] /\ commission'[o] = commission[o],
         UNCHANGED <<claim, booked, desk>>, crossed \subseteq crossed',
         SaleOf[s].who \in crossed' \/ EarnedOn(s, SaleOf[s].who) <= EarnedOn(s, SaleOf[s].who)'
  PROVE  ClaimsIInv'
<1>1. RequestsAreCurrent' /\ ClaimsAreBooked'
  BY ClaimsStayAsTheyAre
<1>2. ASSUME NEW p \in People, p \notin crossed'
      PROVE  /\ Earned(p) \in Int /\ Earned(p)' \in Int /\ Earned(p) <= Earned(p)'
             /\ Paid(p) \in Int /\ Paid(p)' = Paid(p)
  <2>1. Earned(p) \in Int /\ Earned(p)' = Earned(p) - EarnedOn(s, p) + EarnedOn(s, p)'
    BY EarnedChanges DEF ClaimsIInv
  <2>2. EarnedOn(s, p) \in Int
    BY EarnedAndPaidTypes DEF EarnedTypes, ClaimsIInv
  <2>3. EarnedOn(s, p)' \in Int
    <3>1. (ClaimsTypeOK => EarnedTypes /\ PaidTypes)'
      BY EarnedAndPaidTypes, PTL
    <3> QED
      BY <3>1 DEF EarnedTypes
  <2>4. EarnedOn(s, p) <= EarnedOn(s, p)'
    <3>1. CASE SaleOf[s].who = p
      BY <1>2, <3>1
    <3>2. CASE SaleOf[s].who # p
      BY <3>2 DEF EarnedOn
    <3> QED
      BY <3>1, <3>2
  <2>5. Paid(p) \in Int /\ Paid(p)' = Paid(p)
    BY PaidStays DEF ClaimsIInv
  <2> QED
    BY <2>1, <2>2, <2>3, <2>4, <2>5
<1>3. CommissionWithinEarned'
  <2> SUFFICES ASSUME NEW p \in People, p \notin crossed' PROVE Paid(p)' <= Earned(p)'
    BY DEF CommissionWithinEarned
  <2>1. Paid(p) <= Earned(p)
    BY DEF ClaimsIInv, CommissionWithinEarned
  <2> QED
    BY <1>2, <2>1
<1>4. SubmitsAreCovered'
  <2> SUFFICES ASSUME NEW d \in Desks, IsPayoutSubmit(desk[d]), ~desk[d].stale,
                      desk[d].read.who \in People \ crossed'
               PROVE  desk[d].read.amount <= Outstanding(desk[d].read.who)'
    BY DEF SubmitsAreCovered, IsPayoutSubmit
  <2> DEFINE p == desk[d].read.who
  <2>1. desk[d].read.amount <= Earned(p) - Paid(p)
    BY DEF ClaimsIInv, SubmitsAreCovered, Outstanding
  <2>2. desk[d].read.amount \in Int
    BY RequestTypes DEF IsPayoutSubmit, ClaimRecords, ClaimsIInv
  <2>3. PICK q : q = p
    OBVIOUS
  <2>4. q \in People /\ q \notin crossed'
    BY <2>3
  <2>5. /\ Earned(q) \in Int /\ Earned(q)' \in Int /\ Earned(q) <= Earned(q)'
        /\ Paid(q) \in Int /\ Paid(q)' = Paid(q)
    BY <1>2, <2>4
  <2>6. Outstanding(desk[d].read.who)' = Outstanding(q)'
    BY <2>3 DEF Outstanding, Earned, Paid
  <2>7. desk[d].read.amount <= Outstanding(q)'
    BY <2>1, <2>2, <2>3, <2>5 DEF Outstanding
  <2> QED
    BY <2>6, <2>7
<1> QED
  BY <1>1, <1>3, <1>4 DEF ClaimsIInv

\* An invoice that is sent earns something or nothing; a credit note marks its person.
LEMMA SendingKeepsIInv ==
  ASSUME ClaimsIInv, NEW s \in Sales, SendSale(s)
  PROVE  ClaimsIInv'
<1> DEFINE p == SaleOf[s].who
           c == (SaleOf[s].net * rate[p]) \div 100
<1>1. /\ p \in People /\ SaleOf[s].net \in Nat /\ SaleOf[s].sign \in {-1, 1} /\ rate[p] \in 0..100
  BY SignsOfSales, ClaimsAssumption DEF ClaimsIInv, ClaimsTypeOK
<1>2. c \in Nat
  <2>1. SaleOf[s].net * rate[p] \in Nat
    BY <1>1
  <2> QED
    BY <2>1
<1>3. /\ sale[s] = "draft" /\ sale' = [sale EXCEPT ![s] = "sent"]
      /\ commission' = [commission EXCEPT ![s] = c]
      /\ crossed' = IF SaleOf[s].sign = -1 THEN crossed \cup {p} ELSE crossed
      /\ UNCHANGED <<claim, booked, rate, desk>>
  BY DEF SendSale
<1> HIDE DEF c
<1>4. ClaimsTypeOK'
  BY <1>1, <1>2, <1>3 DEF ClaimsIInv, ClaimsTypeOK
<1>5. \A o \in Sales \ {s} : sale'[o] = sale[o] /\ commission'[o] = commission[o]
  BY <1>3 DEF ClaimsIInv, ClaimsTypeOK
<1>6. SaleOf[s].who \in crossed' \/ EarnedOn(s, SaleOf[s].who) <= EarnedOn(s, SaleOf[s].who)'
  <2>1. CASE SaleOf[s].sign = -1
    BY <1>3, <2>1
  <2>2. CASE SaleOf[s].sign = 1
    <3>1. EarnedOn(s, SaleOf[s].who) = 0
      BY <1>3 DEF EarnedOn
    <3>2. sale'[s] = "sent" /\ commission'[s] = c
      BY <1>3 DEF ClaimsIInv, ClaimsTypeOK
    <3>3. EarnedOn(s, SaleOf[s].who)' = c
      BY <1>2, <2>2, <3>2 DEF EarnedOn
    <3> QED
      BY <1>2, <3>1, <3>3
  <2> QED
    BY <1>1, <2>1, <2>2
<1> QED
  BY <1>3, <1>4, <1>5, <1>6, SaleKeepsIInv

\* An invoice that is voided marks its person; a voided credit note takes nothing away.
LEMMA VoidingKeepsIInv ==
  ASSUME ClaimsIInv, NEW s \in Sales, VoidSale(s)
  PROVE  ClaimsIInv'
<1>1. /\ sale[s] = "sent" /\ sale' = [sale EXCEPT ![s] = "void"]
      /\ crossed' = IF SaleOf[s].sign = 1 THEN crossed \cup {SaleOf[s].who} ELSE crossed
      /\ UNCHANGED <<claim, booked, commission, rate, desk>>
  BY DEF VoidSale
<1>2. SaleOf[s].who \in People /\ SaleOf[s].sign \in {-1, 1} /\ commission[s] \in Nat
      /\ SaleOf[s].sign * commission[s]
           = IF SaleOf[s].sign = 1 THEN commission[s] ELSE 0 - commission[s]
  BY SignsOfSales DEF ClaimsIInv
<1>3. ClaimsTypeOK'
  BY <1>1, <1>2 DEF ClaimsIInv, ClaimsTypeOK
<1>4. \A o \in Sales \ {s} : sale'[o] = sale[o] /\ commission'[o] = commission[o]
  BY <1>1 DEF ClaimsIInv, ClaimsTypeOK
<1>5. SaleOf[s].who \in crossed' \/ EarnedOn(s, SaleOf[s].who) <= EarnedOn(s, SaleOf[s].who)'
  <2>1. CASE SaleOf[s].sign = 1
    BY <1>1, <2>1
  <2>2. CASE SaleOf[s].sign = -1
    <3>1. EarnedOn(s, SaleOf[s].who) = 0 - commission[s]
      BY <1>1, <1>2, <2>2 DEF EarnedOn
    <3>2. sale'[s] = "void"
      BY <1>1 DEF ClaimsIInv, ClaimsTypeOK
    <3>3. EarnedOn(s, SaleOf[s].who)' = 0
      BY <3>2 DEF EarnedOn
    <3> QED
      BY <1>2, <3>1, <3>3
  <2> QED
    BY <1>2, <2>1, <2>2
<1> QED
  BY <1>1, <1>3, <1>4, <1>5, SaleKeepsIInv

\* Where only requests end or rates change, everything else stays.
LEMMA BooksStayAsTheyAre ==
  ASSUME ClaimsIInv, ClaimsTypeOK', UNCHANGED <<claim, booked, commission, sale, crossed>>,
         \A d \in Desks : desk'[d] = desk[d] \/ desk'[d] = Vacant
  PROVE  ClaimsIInv'
<1>1. ASSUME NEW p \in People
      PROVE  Earned(p)' = Earned(p) /\ Paid(p)' = Paid(p)
  BY EarnedStays, PaidStays DEF ClaimsIInv
<1>2. CommissionWithinEarned'
  BY <1>1 DEF ClaimsIInv, CommissionWithinEarned
<1>3. ClaimsAreBooked'
  <2> SUFFICES ASSUME NEW k \in ClaimIds, k \notin crossed PROVE IsBooked(k)'
    BY DEF ClaimsAreBooked
  <2>1. Standing(k)' = Standing(k)
    BY DEF Standing
  <2> QED
    BY <2>1 DEF ClaimsIInv, ClaimsAreBooked, IsBooked
<1>4. RequestsAreCurrent'
  <2> SUFFICES ASSUME NEW d \in Desks, desk'[d] # Vacant
               PROVE  /\ Admits(desk'[d].kind, desk'[d].read.status)
                      /\ ~desk'[d].stale \/ Locks(desk'[d].kind, desk'[d].claim)
                            => IsCurrent(desk[d])'
    BY DEF RequestsAreCurrent, Admits, Locks
  <2>1. desk'[d] = desk[d] /\ desk[d] # Vacant
    OBVIOUS
  <2>2. Standing(desk[d].claim)' = Standing(desk[d].claim)
    BY <2>1 DEF Standing
  <2>3. IsCurrent(desk[d]) => IsCurrent(desk[d])'
    BY <2>1, <2>2 DEF IsCurrent
  <2> QED
    BY <2>1, <2>3 DEF ClaimsIInv, RequestsAreCurrent
<1>5. SubmitsAreCovered'
  <2> SUFFICES ASSUME NEW d \in Desks, IsPayoutSubmit(desk[d])', ~desk'[d].stale,
                      desk'[d].read.who \in People \ crossed
               PROVE  desk'[d].read.amount <= Outstanding(desk[d].read.who)'
    BY DEF SubmitsAreCovered
  <2>1. desk'[d] = desk[d]
    BY DEF IsPayoutSubmit
  <2>2. PICK p : p = desk[d].read.who
    OBVIOUS
  <2>3. p \in People /\ Outstanding(p)' = Outstanding(p)
    BY <1>1, <2>1, <2>2 DEF Outstanding
  <2>4. Outstanding(desk[d].read.who)' = Outstanding(p)'
    BY <2>1, <2>2 DEF Outstanding, Earned, Paid
  <2>5. desk[d].read.amount <= Outstanding(p)
    BY <2>1, <2>2 DEF ClaimsIInv, SubmitsAreCovered, IsPayoutSubmit
  <2> QED
    BY <2>1, <2>3, <2>4, <2>5
<1> QED
  BY <1>2, <1>3, <1>4, <1>5 DEF ClaimsIInv

\* A new claim is a draft that nobody has read, booked nowhere and paid to nobody.
LEMMA CreatingKeepsIInv ==
  ASSUME ClaimsIInv, NEW k \in ClaimIds, NEW x \in Sums, NEW p \in People, CreateClaim(k, x, p)
  PROVE  ClaimsIInv'
<1> DEFINE new == [status |-> "draft", amount |-> x, who |-> IF k \in Payouts THEN p ELSE Nobody]
<1>1. /\ claim[k].status = "none" /\ claim' = [claim EXCEPT ![k] = new]
      /\ UNCHANGED <<booked, commission, sale, rate, desk, crossed>>
  BY DEF CreateClaim
<1>2. new \in ClaimRecords /\ new.status = "draft"
  BY ClaimsAssumption DEF ClaimRecords, Statuses
<1> HIDE DEF new
<1>3. ClaimsTypeOK'
  BY <1>1, <1>2 DEF ClaimsIInv, ClaimsTypeOK
<1>4. claim'[k] = new /\ \A o \in ClaimIds : o # k => claim'[o] = claim[o]
  BY <1>1 DEF ClaimsIInv, ClaimsTypeOK
<1>5. \A o \in ClaimIds : Standing(o)' = Standing(o)
  BY <1>1 DEF Standing
<1>6. RequestsAreCurrent'
  <2> SUFFICES ASSUME NEW d \in Desks, desk[d] # Vacant
               PROVE  /\ Admits(desk[d].kind, desk[d].read.status)
                      /\ ~desk[d].stale \/ Locks(desk[d].kind, desk[d].claim) => IsCurrent(desk[d])'
    BY <1>1 DEF RequestsAreCurrent, Admits, Locks
  <2>1. /\ Admits(desk[d].kind, desk[d].read.status)
        /\ ~desk[d].stale \/ Locks(desk[d].kind, desk[d].claim) => IsCurrent(desk[d])
    BY DEF ClaimsIInv, RequestsAreCurrent
  <2>2. ASSUME IsCurrent(desk[d]) PROVE desk[d].claim # k
    BY <1>1, <2>1, <2>2 DEF IsCurrent, Admits
  <2>3. desk[d].claim \in ClaimIds
    BY RequestTypes DEF ClaimsIInv
  <2>4. ASSUME IsCurrent(desk[d]) PROVE IsCurrent(desk[d])'
    BY <1>1, <1>4, <1>5, <2>2, <2>3, <2>4 DEF IsCurrent
  <2> QED
    BY <2>1, <2>4
<1>7. ClaimsAreBooked'
  <2> SUFFICES ASSUME NEW o \in ClaimIds, o \notin crossed PROVE IsBooked(o)'
    BY <1>1 DEF ClaimsAreBooked
  <2>1. IsBooked(o)
    BY DEF ClaimsIInv, ClaimsAreBooked
  <2>2. CASE o = k
    BY <1>1, <1>2, <1>4, <2>1, <2>2 DEF IsBooked
  <2>3. CASE o # k
    BY <1>1, <1>4, <1>5, <2>1, <2>3 DEF IsBooked
  <2> QED
    BY <2>2, <2>3
<1>8. ASSUME NEW q \in People PROVE Earned(q)' = Earned(q) /\ Paid(q)' = Paid(q)
  <2>1. Earned(q)' = Earned(q)
    BY <1>1, <1>3, EarnedStays DEF ClaimsIInv
  <2>2. CASE k \in Payouts
    <3>1. Paid(q) \in Int /\ Paid(q)' = Paid(q) - PaidBy(k, q) + PaidBy(k, q)'
      BY <1>3, <1>4, <2>2, PaidChanges DEF ClaimsIInv, ClaimIds
    <3>2. PaidBy(k, q) = 0 /\ PaidBy(k, q)' = 0
      BY <1>1, <1>2, <1>4 DEF PaidBy
    <3> QED
      BY <2>1, <3>1, <3>2
  <2>3. CASE k \notin Payouts
    BY <1>3, <1>4, <2>1, <2>3, PaidStays DEF ClaimsIInv, ClaimIds
  <2> QED
    BY <2>2, <2>3
<1>9. CommissionWithinEarned'
  BY <1>1, <1>8 DEF ClaimsIInv, CommissionWithinEarned
<1>10. SubmitsAreCovered'
  <2> SUFFICES ASSUME NEW d \in Desks, IsPayoutSubmit(desk[d]), ~desk[d].stale,
                      desk[d].read.who \in People \ crossed
               PROVE  desk[d].read.amount <= Outstanding(desk[d].read.who)'
    BY <1>1 DEF SubmitsAreCovered, IsPayoutSubmit
  <2>1. PICK q : q = desk[d].read.who
    OBVIOUS
  <2>2. q \in People /\ Outstanding(q)' = Outstanding(q)
    BY <1>8, <2>1 DEF Outstanding
  <2>3. Outstanding(desk[d].read.who)' = Outstanding(q)'
    BY <1>1, <2>1 DEF Outstanding, Earned, Paid
  <2>4. desk[d].read.amount <= Outstanding(q)
    BY <2>1 DEF ClaimsIInv, SubmitsAreCovered
  <2> QED
    BY <2>2, <2>3, <2>4
<1> QED
  BY <1>3, <1>6, <1>7, <1>9, <1>10 DEF ClaimsIInv

\* What a request reads is so when it is read; of a payout that is submitted, that the
\* balance covers it.
LEMMA ReadingKeepsIInv ==
  ASSUME ClaimsIInv, NEW d \in Desks, NEW kind \in {"update", "submit", "cancel", "delete"},
         NEW k \in ClaimIds, ReadClaim(d, kind, k)
  PROVE  ClaimsIInv'
<1> DEFINE r == [kind |-> kind, claim |-> k, read |-> claim[k], stale |-> FALSE,
                 posted |-> booked[k] # <<>>, standing |-> Standing(k)]
<1>1. /\ desk[d] = Vacant /\ Admits(kind, claim[k].status)
      /\ kind = "submit" /\ k \in Payouts => claim[k].amount <= Outstanding(claim[k].who)
      /\ desk' = [desk EXCEPT ![d] = r]
      /\ UNCHANGED <<claim, booked, commission, sale, rate, crossed>>
  BY DEF ReadClaim
<1>2. r \in Requests
  <2>1. claim[k] \in ClaimRecords
    BY DEF ClaimsIInv, ClaimsTypeOK
  <2>2. Standing(k) \in SUBSET Nat
    BY StandingTypes DEF ClaimsIInv
  <2> QED
    BY <2>1, <2>2 DEF Requests
<1>3. r.kind = kind /\ r.claim = k /\ r.read = claim[k] /\ IsCurrent(r)
  BY DEF IsCurrent
<1> HIDE DEF r
<1>4. ClaimsTypeOK'
  BY <1>1, <1>2 DEF ClaimsIInv, ClaimsTypeOK
<1>5. desk'[d] = r /\ \A e \in Desks : e # d => desk'[e] = desk[e]
  BY <1>1 DEF ClaimsIInv, ClaimsTypeOK
<1>6. ASSUME NEW q \in People PROVE Earned(q)' = Earned(q) /\ Paid(q)' = Paid(q)
  BY <1>1, <1>4, EarnedStays, PaidStays DEF ClaimsIInv
<1>7. RequestsAreCurrent'
  <2> SUFFICES ASSUME NEW e \in Desks, desk'[e] # Vacant
               PROVE  /\ Admits(desk'[e].kind, desk'[e].read.status)
                      /\ ~desk'[e].stale \/ Locks(desk'[e].kind, desk'[e].claim)
                            => IsCurrent(desk[e])'
    BY DEF RequestsAreCurrent, Admits, Locks
  <2>1. PICK q : q = desk'[e]
    OBVIOUS
  <2>2. Standing(q.claim)' = Standing(q.claim)
    BY <1>1 DEF Standing
  <2>3. IsCurrent(q) => IsCurrent(desk[e])'
    BY <1>1, <2>1, <2>2 DEF IsCurrent, Standing
  <2>4. CASE e = d
    BY <1>1, <1>3, <1>5, <2>1, <2>3, <2>4 DEF Admits
  <2>5. CASE e # d
    BY <1>5, <2>1, <2>3, <2>5 DEF ClaimsIInv, RequestsAreCurrent
  <2> QED
    BY <2>4, <2>5
<1>8. ClaimsAreBooked'
  <2> SUFFICES ASSUME NEW o \in ClaimIds, o \notin crossed PROVE IsBooked(o)'
    BY <1>1 DEF ClaimsAreBooked
  <2>1. IsBooked(o) /\ Standing(o)' = Standing(o)
    BY <1>1 DEF ClaimsIInv, ClaimsAreBooked, Standing
  <2> QED
    BY <1>1, <2>1 DEF IsBooked
<1>9. CommissionWithinEarned'
  BY <1>1, <1>6 DEF ClaimsIInv, CommissionWithinEarned
<1>10. SubmitsAreCovered'
  <2> SUFFICES ASSUME NEW e \in Desks, IsPayoutSubmit(desk[e])', ~desk'[e].stale,
                      desk'[e].read.who \in People \ crossed
               PROVE  desk'[e].read.amount <= Outstanding(desk[e].read.who)'
    BY <1>1 DEF SubmitsAreCovered
  <2>1. PICK q : q = desk'[e].read.who
    OBVIOUS
  <2>2. q \in People /\ Outstanding(q)' = Outstanding(q)
    BY <1>6, <2>1 DEF Outstanding
  <2>3. Outstanding(desk[e].read.who)' = Outstanding(q)'
    BY <2>1 DEF Outstanding, Earned, Paid
  <2>4. desk'[e].read.amount <= Outstanding(q)
    <3>1. CASE e = d
      BY <1>1, <1>3, <1>5, <2>1, <3>1 DEF IsPayoutSubmit
    <3>2. CASE e # d
      BY <1>5, <2>1, <3>2 DEF ClaimsIInv, SubmitsAreCovered, IsPayoutSubmit
    <3> QED
      BY <3>1, <3>2
  <2> QED
    BY <2>2, <2>3, <2>4
<1> QED
  BY <1>4, <1>7, <1>8, <1>9, <1>10 DEF ClaimsIInv

-----------------------------------------------------------------------------
(* The theorems.                                                             *)

\* Initially nothing is claimed, sold, booked or requested.
LEMMA NoClaimsYet == ClaimsInit => ClaimsIInv
<1> SUFFICES ASSUME ClaimsInit PROVE ClaimsIInv
  OBVIOUS
<1>1. ClaimsTypeOK
  BY DEF ClaimsInit, ClaimsTypeOK, Unmade, ClaimRecords, Statuses
<1>2. RequestsAreCurrent /\ SubmitsAreCovered
  BY DEF ClaimsInit, RequestsAreCurrent, SubmitsAreCovered, IsPayoutSubmit
<1>3. ClaimsAreBooked
  BY DEF ClaimsInit, ClaimsAreBooked, IsBooked, Unmade
<1>4. CommissionWithinEarned
  <2> SUFFICES ASSUME NEW p \in People PROVE Paid(p) = 0 /\ Earned(p) = 0
    BY DEF CommissionWithinEarned
  <2>1. Earned(p) = 0
    <3>1. Earned(p) = SumOf([s \in Sales |-> EarnedOn(s, p)], Sales)
      BY <1>1, EarnedAsSum DEF EarnedIsSum
    <3>2. \A s \in Sales : [o \in Sales |-> EarnedOn(o, p)][s] = 0
      BY DEF EarnedOn, ClaimsInit
    <3> QED
      BY <3>1, <3>2, SumOfZeros, ClaimsAssumption
  <2>2. Paid(p) = 0
    <3>1. Paid(p) = SumOf([k \in Payouts |-> PaidBy(k, p)], Payouts)
      BY <1>1, PaidAsSum DEF PaidIsSum
    <3>2. \A k \in Payouts : [o \in Payouts |-> PaidBy(o, p)][k] = 0
      BY DEF PaidBy, ClaimsInit, ClaimIds, Unmade
    <3> QED
      BY <3>1, <3>2, SumOfZeros, ClaimsAssumption
  <2> QED
    BY <2>1, <2>2
<1> QED
  BY <1>1, <1>2, <1>3, <1>4 DEF ClaimsIInv

LEMMA ClaimsStep == ClaimsIInv /\ [ClaimsNext]_claimVars => ClaimsIInv'
<1> SUFFICES ASSUME ClaimsIInv, [ClaimsNext]_claimVars PROVE ClaimsIInv'
  OBVIOUS
<1>1. ASSUME NEW s \in Sales, SendSale(s) PROVE ClaimsIInv'
  BY <1>1, SendingKeepsIInv
<1>2. ASSUME NEW s \in Sales, VoidSale(s) PROVE ClaimsIInv'
  BY <1>2, VoidingKeepsIInv
<1>3. ASSUME NEW p \in People, NEW r \in Rates, ChangeRate(p, r) PROVE ClaimsIInv'
  <2>1. /\ UNCHANGED <<claim, booked, commission, sale, desk, crossed>>
        /\ rate' = [rate EXCEPT ![p] = r]
    BY <1>3 DEF ChangeRate
  <2>2. ClaimsTypeOK'
    BY <2>1 DEF ClaimsIInv, ClaimsTypeOK
  <2> QED
    BY <2>1, <2>2, BooksStayAsTheyAre
<1>4. ASSUME NEW k \in ClaimIds, NEW x \in Sums, NEW p \in People, CreateClaim(k, x, p)
      PROVE  ClaimsIInv'
  BY <1>4, CreatingKeepsIInv
<1>5. ASSUME NEW d \in Desks, NEW kind \in {"update", "submit", "cancel", "delete"},
             NEW k \in ClaimIds, ReadClaim(d, kind, k)
      PROVE  ClaimsIInv'
  BY <1>5, ReadingKeepsIInv
<1>6. ASSUME NEW d \in Desks, NEW x \in Sums, NEW p \in People, UpdateClaim(d, x, p)
      PROVE  ClaimsIInv'
  BY <1>6, UpdatingKeepsIInv
<1>7. ASSUME NEW d \in Desks, SubmitClaim(d) PROVE ClaimsIInv'
  BY <1>7, SubmittingKeepsIInv
<1>8. ASSUME NEW d \in Desks, CancelClaim(d) PROVE ClaimsIInv'
  BY <1>8, CancellingKeepsIInv
<1>9. ASSUME NEW d \in Desks, DeleteClaim(d) PROVE ClaimsIInv'
  BY <1>9, DeletingClaimKeepsIInv
<1>10. ASSUME NEW d \in Desks, GiveUp(d) PROVE ClaimsIInv'
  <2>1. /\ UNCHANGED <<claim, booked, commission, sale, rate, crossed>>
        /\ desk' = [desk EXCEPT ![d] = Vacant]
    BY <1>10 DEF GiveUp
  <2>2. ClaimsTypeOK' /\ \A e \in Desks : desk'[e] = desk[e] \/ desk'[e] = Vacant
    BY <2>1 DEF ClaimsIInv, ClaimsTypeOK
  <2> QED
    BY <2>1, <2>2, BooksStayAsTheyAre
<1>11. CASE UNCHANGED claimVars
  <2>1. UNCHANGED <<claim, booked, commission, sale, rate, desk, crossed>>
    BY <1>11 DEF claimVars
  <2>2. ClaimsTypeOK'
    BY <2>1 DEF ClaimsIInv, ClaimsTypeOK
  <2> QED
    BY <2>1, <2>2, BooksStayAsTheyAre
<1> QED
  BY <1>1, <1>2, <1>3, <1>4, <1>5, <1>6, <1>7, <1>8, <1>9, <1>10, <1>11 DEF ClaimsNext

\* Requests that read and write claims in any order keep every claim booked as it
\* stands, and every person within what was earned, but for those that crossed.
THEOREM ClaimsInductive == ClaimsSpec => []ClaimsIInv
<1> QED
  BY NoClaimsYet, ClaimsStep, PTL DEF ClaimsSpec

\* What stands booked for a claim is its amount while it is submitted, and nothing
\* before and after, unless requests crossed on it (submit, cancel, update and delete
\* of both services).
THEOREM ClaimsAreBookedOnce == ClaimsSpec => []ClaimsMatchBooks
<1>1. ClaimsIInv => ClaimsMatchBooks
  <2> SUFFICES ASSUME ClaimsIInv, NEW k \in ClaimIds \ crossed
               PROVE  SumOver(Standing(k), LAMBDA i : booked[k][i].amount)
                        = IF claim[k].status = "submitted" THEN claim[k].amount ELSE 0
    BY DEF ClaimsMatchBooks
  <2>1. IsBooked(k) /\ claim[k] \in ClaimRecords
    BY DEF ClaimsIInv, ClaimsAreBooked, ClaimsTypeOK
  <2> DEFINE S == Standing(k)
             f == [i \in S |-> booked[k][i].amount]
             A(g) == [t \in SUBSET S |->
                        IF t = {} THEN 0
                        ELSE booked[k][CHOOSE x \in t : TRUE].amount
                             + g[t \ {CHOOSE x \in t : TRUE}]]
             B(g) == [t \in SUBSET S |->
                        IF t = {} THEN 0
                        ELSE f[CHOOSE x \in t : TRUE] + g[t \ {CHOOSE x \in t : TRUE}]]
  <2>2. SumOver(S, LAMBDA i : booked[k][i].amount) = SumOf(f, S)
    <3>1. \A g : A(g) = B(g)
      <4>1. \A t \in SUBSET S : t # {} =>
              f[CHOOSE x \in t : TRUE] = booked[k][CHOOSE x \in t : TRUE].amount
        OBVIOUS
      <4> HIDE DEF S, f
      <4> QED
        BY <4>1
    <3>2. SumOver(S, LAMBDA i : booked[k][i].amount) = (CHOOSE g : g = A(g))[S]
      BY DEF SumOver, MapThenSumSet, MapThenFoldSet
    <3>3. SumOf(f, S) = (CHOOSE g : g = B(g))[S]
      BY DEF SumOf, MapThenSumSet, MapThenFoldSet
    <3>4. (CHOOSE g : g = A(g)) = (CHOOSE g : g = B(g))
      <4> HIDE DEF A, B
      <4> QED BY <3>1
    <3> QED
      BY <3>2, <3>3, <3>4
  <2> SUFFICES SumOf(f, S) = IF claim[k].status = "submitted" THEN claim[k].amount ELSE 0
    BY <2>2
  <2>3. CASE claim[k].status = "submitted"
    <3>1. booked[k] = <<[amount |-> claim[k].amount, reversed |-> FALSE]>>
      BY <2>1, <2>3 DEF IsBooked
    <3>2. S = {1}
      BY <3>1 DEF Standing
    <3>3. f[1] = claim[k].amount /\ f[1] \in Int
      BY <2>1, <3>1, <3>2 DEF ClaimRecords
    <3>4. SumOf(f, {1}) = f[1]
      <4> HIDE DEF f
      <4> QED BY <3>3, SumOfOne
    <3> HIDE DEF S, f
    <3> QED
      BY <2>3, <3>2, <3>3, <3>4
  <2>4. CASE claim[k].status # "submitted"
    <3>1. S = {}
      BY <2>1, <2>4 DEF IsBooked, ClaimRecords, Statuses, Standing
    <3> HIDE DEF S, f
    <3> QED
      BY <2>4, <3>1, SumOfNone
  <2> QED
    BY <2>3, <2>4
<1> QED
  BY <1>1, ClaimsInductive, PTL

\* Nobody is paid more commission than was earned at the rates of the day, however
\* many people, sales and payouts there are, unless that person crossed
\* (CommissionService.submit, balance_for).
THEOREM CommissionStaysWithinEarned == ClaimsSpec => []CommissionWithinEarned
<1>1. ClaimsIInv => CommissionWithinEarned
  BY DEF ClaimsIInv
<1> QED
  BY <1>1, ClaimsInductive, PTL

-----------------------------------------------------------------------------
(***************************************************************************)
(* The books hold what the standing papers say, for any papers and prices.   *)
(*                                                                           *)
(* A journal is weighed: Weigh(w, J) adds up a weight of its lines, which is *)
(* what the journal enters on an account (OnAccount) or on a side (Debits,   *)
(* Credits).  Weights add over parts of a journal, so what the journal of each *)
(* kind of paper enters, and when it is accepted, is found part by part      *)
(* (SaleJournal, CreditNoteJournal, BillJournal, ValueJournal, ExpenseJournal). *)
(* The amounts are in whole cents (Whole), which the books do not round.     *)
(*                                                                           *)
(* PostingIInv then says of every standing paper what it was drawn up to say *)
(* (IsDrawnUp), what its journal enters (IsEntered) and that the books took  *)
(* it, and of every account that it holds the entries of the standing papers. *)
(***************************************************************************)

(* Sums along a sequence, and of something weighed element by element.       *)

LEMMA TotalIsSum ==
  ASSUME NEW s
  PROVE  Total(s) = SumOf(s, DOMAIN s)
  BY DEF Total, FoldSeq, FoldFunction, FoldFunctionOnSet, SumOf, MapThenSumSet

\* Two sums of the same things.
LEMMA SumsAdd ==
  ASSUME NEW f, NEW g, NEW h, NEW S, IsFiniteSet(S),
         \A x \in S : f[x] \in Int /\ g[x] \in Int /\ h[x] = f[x] + g[x]
  PROVE  SumOf(h, S) = SumOf(f, S) + SumOf(g, S)
<1> DEFINE Q == {A \in SUBSET S : SumOf(h, A) = SumOf(f, A) + SumOf(g, A)}
<1>1. {} \in Q
  BY SumOfNone
<1>2. ASSUME NEW A \in SUBSET S, A # {}, \A x \in A : A \ {x} \in Q PROVE A \in Q
  <2>1. PICK x \in A : TRUE
    BY <1>2
  <2>2. IsFiniteSet(A) /\ IsFiniteSet(A \ {x})
    BY <1>2, FS_Subset
  <2>3. /\ SumOf(f, A) = f[x] + SumOf(f, A \ {x})
        /\ SumOf(g, A) = g[x] + SumOf(g, A \ {x})
        /\ SumOf(h, A) = h[x] + SumOf(h, A \ {x})
    <3>1. \A y \in A : f[y] \in Int /\ g[y] \in Int /\ h[y] \in Int
      OBVIOUS
    <3> QED
      BY <2>2, <3>1, SumTakes
  <2>4. SumOf(f, A \ {x}) \in Int /\ SumOf(g, A \ {x}) \in Int
    BY <2>2, SumIsInteger
  <2>5. SumOf(h, A \ {x}) = SumOf(f, A \ {x}) + SumOf(g, A \ {x})
    BY <1>2
  <2> QED
    BY <2>3, <2>4, <2>5
<1> HIDE DEF Q
<1>3. S \in Q
  BY <1>1, <1>2, SetInduction
<1> QED
  BY <1>3 DEF Q

\* A sum of whole cents is a whole number of cents.
LEMMA SumOfMultiples ==
  ASSUME NEW f, NEW S, IsFiniteSet(S), NEW k \in Nat \ {0},
         \A x \in S : f[x] \in Int /\ \E n \in Int : f[x] = k * n
  PROVE  \E n \in Int : SumOf(f, S) = k * n
<1> DEFINE Q == {A \in SUBSET S : \E n \in Int : SumOf(f, A) = k * n}
<1>1. {} \in Q
  <2>1. SumOf(f, {}) = k * 0
    BY SumOfNone
  <2> QED
    BY <2>1
<1>2. ASSUME NEW A \in SUBSET S, A # {}, \A x \in A : A \ {x} \in Q PROVE A \in Q
  <2>1. PICK x \in A : TRUE
    BY <1>2
  <2>2. IsFiniteSet(A)
    BY <1>2, FS_Subset
  <2>3. SumOf(f, A) = f[x] + SumOf(f, A \ {x})
    BY <2>2, SumTakes
  <2>4. PICK n \in Int, r \in Int : f[x] = k * n /\ SumOf(f, A \ {x}) = k * r
    BY <1>2
  <2>5. SumOf(f, A) = k * (n + r)
    BY <2>3, <2>4
  <2> QED
    BY <2>5
<1> HIDE DEF Q
<1>3. S \in Q
  BY <1>1, <1>2, SetInduction
<1> QED
  BY <1>3 DEF Q

-----------------------------------------------------------------------------
(* Journals.                                                                 *)

JournalLines == [account : BookAccounts, debit : Int, credit : Int]

\* Something weighed line by line.
Weights == [JournalLines -> Int]
Weigh(w, s) == SumOf([i \in DOMAIN s |-> w[s[i]]], DOMAIN s)

OnAccount(a) ==
    [l \in JournalLines |-> IF l.account = a THEN Money(l.debit) - Money(l.credit) ELSE 0]
Debits  == [l \in JournalLines |-> Money(l.debit)]
Credits == [l \in JournalLines |-> Money(l.credit)]

IsEmpty(l) == l.debit = 0 /\ l.credit = 0

\* A weight that gives nothing to a line without an amount.
Ignores(w) == \A l \in JournalLines : IsEmpty(l) => w[l] = 0

\* What validate_lines asks of one line.
IsSound(l) ==
    /\ Money(l.debit) >= 0 /\ Money(l.credit) >= 0
    /\ (Money(l.debit) > 0) # (Money(l.credit) > 0)
AllSound(s) == \A i \in DOMAIN s : IsSound(s[i])

LEMMA MoneyFacts ==
  /\ Money(0) = 0
  /\ \A v \in Int : /\ Money(v) \in Int /\ Money(- v) = - Money(v)
                    /\ v >= 0 => Money(v) >= 0
                    /\ v <= 0 => Money(v) <= 0
  /\ \A n \in Int : Money(Cent * n) = Cent * n
<1>1. Money(0) = 0
  BY DEF Money, Tick
<1>2. ASSUME NEW v \in Int
      PROVE  /\ Money(v) \in Int /\ Money(- v) = - Money(v)
             /\ v >= 0 => Money(v) >= 0
             /\ v <= 0 => Money(v) <= 0
  <2>1. /\ Money(v) = IF v >= 0 THEN 10 * ((2 * v + 10) \div 20) ELSE - 10 * ((10 - 2 * v) \div 20)
        /\ Money(- v) = IF - v >= 0 THEN 10 * ((10 - 2 * v) \div 20)
                        ELSE - 10 * ((10 + 2 * v) \div 20)
    BY DEF Money, Tick
  <2>2. PICK p \in Int, q \in Int : p = (2 * v + 10) \div 20 /\ q = (10 - 2 * v) \div 20
    OBVIOUS
  <2>3. /\ v >= 0 => p >= 0
        /\ v <= 0 => q >= 0
        /\ v = 0 => p = 0 /\ q = 0
    BY <2>2
  <2> QED
    BY <2>1, <2>2, <2>3
<1>3. ASSUME NEW n \in Int PROVE Money(Cent * n) = Cent * n
  <2>1. (2 * (1000 * n) + 10) \div 20 = 100 * n /\ (10 - 2 * (1000 * n)) \div 20 = 100 * (- n)
    OBVIOUS
  <2>2. Money(Cent * n) = IF 1000 * n >= 0 THEN 10 * ((2 * (1000 * n) + 10) \div 20)
                          ELSE - 10 * ((10 - 2 * (1000 * n)) \div 20)
    BY DEF Money, Tick, Cent
  <2> QED
    BY <2>1, <2>2 DEF Cent
<1> QED
  BY <1>1, <1>2, <1>3

LEMMA JournalWeights ==
  /\ \A a : OnAccount(a) \in Weights /\ Ignores(OnAccount(a))
  /\ Debits \in Weights /\ Ignores(Debits) /\ Credits \in Weights /\ Ignores(Credits)
<1>1. \A l \in JournalLines : /\ Money(l.debit) \in Int /\ Money(l.credit) \in Int
                              /\ IsEmpty(l) => Money(l.debit) = 0 /\ Money(l.credit) = 0
  BY MoneyFacts DEF JournalLines, IsEmpty
<1> QED
  BY <1>1 DEF OnAccount, Debits, Credits, Weights, Ignores

LEMMA WeighNone == \A w : Weigh(w, <<>>) = 0
<1> TAKE w
<1>1. DOMAIN <<>> = {}
  OBVIOUS
<1> QED
  BY <1>1, SumOfNone DEF Weigh

LEMMA WeighOne ==
  ASSUME NEW w \in Weights, NEW l \in JournalLines
  PROVE  Weigh(w, <<l>>) = w[l]
<1> PICK f : f = [i \in DOMAIN <<l>> |-> w[<<l>>[i]]]
  OBVIOUS
<1>1. DOMAIN <<l>> = {1} /\ f[1] = w[l] /\ w[l] \in Int
  BY DEF Weights
<1>2. SumOf(f, {1}) = f[1]
  BY ONLY <1>1, SumOfOne
<1> QED
  BY <1>1, <1>2 DEF Weigh

LEMMA WeighIfAny ==
  ASSUME NEW w \in Weights, Ignores(w), NEW l \in JournalLines
  PROVE  /\ Weigh(w, IfAny(l)) = w[l]
         /\ IfAny(l) \in Seq(JournalLines)
<1>1. CASE IsEmpty(l)
  <2>1. IfAny(l) = <<>> /\ w[l] = 0
    BY <1>1 DEF IfAny, IsEmpty, Ignores
  <2> QED
    BY <2>1, WeighNone
<1>2. CASE ~IsEmpty(l)
  <2>1. IfAny(l) = <<l>>
    BY <1>2 DEF IfAny, IsEmpty
  <2> QED
    BY <2>1, WeighOne
<1> QED
  BY <1>1, <1>2

\* What two journals weigh, one behind the other.
LEMMA WeighConcat ==
  ASSUME NEW w \in Weights, NEW A \in Seq(JournalLines), NEW B \in Seq(JournalLines)
  PROVE  Weigh(w, A \o B) = Weigh(w, A) + Weigh(w, B)
<1> PICK S : S = JournalLines
  OBVIOUS
<1>0. A \in Seq(S) /\ B \in Seq(S) /\ \A x \in S : w[x] \in Int
  BY DEF Weights
<1> DEFINE m == Len(A)
           n == Len(B)
           C == A \o B
           f == [i \in DOMAIN C |-> w[C[i]]]
           a == [i \in DOMAIN A |-> w[A[i]]]
           b == [i \in DOMAIN B |-> w[B[i]]]
           L == 1..m
           R == (m + 1)..(m + n)
           N == 1..n
           t == [i \in N |-> m + i]
<1>1. /\ m \in Nat /\ n \in Nat /\ DOMAIN A = 1..m /\ DOMAIN B = 1..n /\ DOMAIN C = 1..(m + n)
      /\ \A i \in 1..m : C[i] = A[i] /\ A[i] \in S
      /\ \A i \in 1..n : C[m + i] = B[i] /\ B[i] \in S
  BY <1>0
<1> HIDE DEF m, n, C
<1>2. IsFiniteSet(L) /\ IsFiniteSet(R) /\ L \cap R = {} /\ L \cup R = DOMAIN C /\ IsFiniteSet(N)
  <2>1. IsFiniteSet(L) /\ IsFiniteSet(R) /\ IsFiniteSet(N)
    BY <1>1, FS_Interval
  <2>2. L \cap R = {} /\ L \cup R = DOMAIN C
    BY <1>1
  <2> QED
    BY <2>1, <2>2
<1>3. \A i \in L : f[i] = a[i] /\ f[i] \in Int
  BY <1>0, <1>1
<1>4. /\ \A i \in N : b[i] = f[t[i]] /\ f[t[i]] \in Int
      /\ \A i, j \in N : t[i] = t[j] => i = j
  <2>1. \A i \in N : t[i] = m + i /\ m + i \in DOMAIN C /\ i \in DOMAIN B
    BY <1>1
  <2>2. \A i \in N : f[m + i] = w[B[i]] /\ b[i] = w[B[i]]
    <3>1. \A i \in N : C[m + i] = B[i]
      BY <1>1
    <3> HIDE DEF N
    <3> QED
      BY <2>1, <3>1
  <2>3. \A i \in N : w[B[i]] \in Int
    BY <1>0, <1>1
  <2>4. \A i, j \in N : t[i] = t[j] => i = j
    BY <1>1
  <2> HIDE DEF f, b, t, N
  <2> QED
    BY <2>1, <2>2, <2>3, <2>4
<1>5. R = {t[i] : i \in N}
  <2>1. \A i \in R : i - m \in N /\ t[i - m] = i
    BY <1>1
  <2>2. \A i \in N : t[i] \in R
    BY <1>1
  <2> HIDE DEF t, N, R
  <2> QED
    BY <2>1, <2>2
<1>6. \A i \in R : f[i] \in Int
  <2> HIDE DEF f, t, N, R
  <2> QED
    BY <1>4, <1>5
<1> HIDE DEF f, a, b, t, L, R, N
<1>7. SumOf(f, L \cup R) = SumOf(f, L) + SumOf(f, R)
  <2>1. \A i \in L \cup R : f[i] \in Int
    BY <1>3, <1>6
  <2> QED
    BY ONLY <1>2, <2>1, SumOfUnion
<1>8. SumOf(f, L) = SumOf(a, L)
  BY <1>2, <1>3, SumsAgree
<1>9. SumOf(b, N) = SumOf(f, {t[i] : i \in N})
  BY ONLY <1>2, <1>4, SumThrough
<1>10. SumOf(f, DOMAIN C) = SumOf(a, DOMAIN A) + SumOf(b, DOMAIN B)
  BY <1>1, <1>2, <1>5, <1>7, <1>8, <1>9 DEF L, N
<1> QED
  BY <1>10 DEF C, f, a, b, Weigh

LEMMA WeighTyped ==
  ASSUME NEW w \in Weights, NEW s \in Seq(JournalLines)
  PROVE  Weigh(w, s) \in Int /\ IsFiniteSet(DOMAIN s)
<1> PICK f : f = [i \in DOMAIN s |-> w[s[i]]]
  OBVIOUS
<1>1. DOMAIN s = 1..Len(s) /\ Len(s) \in Nat
  OBVIOUS
<1>2. \A i \in DOMAIN s : s[i] \in JournalLines
  OBVIOUS
<1>3. \A i \in DOMAIN s : f[i] \in Int
  BY <1>2 DEF Weights
<1>4. IsFiniteSet(DOMAIN s)
  BY <1>1, FS_Interval
<1>5. SumOf(f, DOMAIN s) \in Int
  BY ONLY <1>3, <1>4, SumIsInteger
<1> QED
  BY <1>4, <1>5 DEF Weigh

LEMMA SoundParts ==
  /\ AllSound(<<>>)
  /\ \A l : AllSound(<<l>>) <=> IsSound(l)
  /\ \A l : AllSound(IfAny(l)) <=> IsEmpty(l) \/ IsSound(l)
  /\ \A S : \A A, B \in Seq(S) : AllSound(A \o B) <=> AllSound(A) /\ AllSound(B)
<1>1. AllSound(<<>>) /\ \A l : AllSound(<<l>>) <=> IsSound(l)
  BY DEF AllSound
<1>2. \A l : AllSound(IfAny(l)) <=> IsEmpty(l) \/ IsSound(l)
  BY <1>1 DEF IfAny, IsEmpty
<1>3. ASSUME NEW S, NEW A \in Seq(S), NEW B \in Seq(S)
      PROVE  AllSound(A \o B) <=> AllSound(A) /\ AllSound(B)
  <2> DEFINE m == Len(A)
             n == Len(B)
             C == A \o B
  <2>1. /\ m \in Nat /\ n \in Nat /\ DOMAIN A = 1..m /\ DOMAIN B = 1..n /\ DOMAIN C = 1..(m + n)
        /\ \A i \in 1..m : C[i] = A[i]
        /\ \A i \in 1..n : C[m + i] = B[i]
    OBVIOUS
  <2> HIDE DEF m, n, C
  <2>2. \A i \in DOMAIN C : i \in 1..m \/ (i - m \in 1..n /\ m + (i - m) = i)
    BY <2>1
  <2>3. (\A i \in 1..m : i \in DOMAIN C) /\ (\A i \in 1..n : m + i \in DOMAIN C)
    BY <2>1
  <2>4. AllSound(C) <=> AllSound(A) /\ AllSound(B)
    <3>1. ASSUME AllSound(C) PROVE AllSound(A) /\ AllSound(B)
      BY <2>1, <2>3, <3>1 DEF AllSound
    <3>2. ASSUME AllSound(A), AllSound(B), NEW i \in DOMAIN C PROVE IsSound(C[i])
      <4>1. CASE i \in 1..m
        BY <2>1, <3>2, <4>1 DEF AllSound
      <4>2. CASE i - m \in 1..n /\ m + (i - m) = i
        <5>1. C[m + (i - m)] = B[i - m]
          BY <2>1, <4>2
        <5> QED
          BY <2>1, <3>2, <4>2, <5>1 DEF AllSound
      <4> QED
        BY <2>2, <4>1, <4>2
    <3> QED
      BY <3>1, <3>2 DEF AllSound
  <2> QED
    BY <2>4 DEF C
<1> QED
  BY <1>1, <1>2, <1>3

\* What the books are given, and when they accept it.
LEMMA BookedIsWeighed ==
  ASSUME NEW bk, NEW lines \in Seq(JournalLines), NEW sign
  PROVE  Booked(bk, lines, sign) =
            [a \in BookAccounts |-> bk[a] + sign * Weigh(OnAccount(a), lines)]
<1> DEFINE Of(a) == Total([i \in DOMAIN lines |->
                             IF lines[i].account = a
                               THEN Money(lines[i].debit) - Money(lines[i].credit) ELSE 0])
<1>1. Booked(bk, lines, sign) = [a \in BookAccounts |-> bk[a] + sign * Of(a)]
  BY DEF Booked, Each
<1>2. ASSUME NEW a PROVE Of(a) = Weigh(OnAccount(a), lines)
  <2> PICK f, g : /\ f = [i \in DOMAIN lines |->
                             IF lines[i].account = a
                               THEN Money(lines[i].debit) - Money(lines[i].credit) ELSE 0]
                  /\ g = [i \in DOMAIN lines |-> OnAccount(a)[lines[i]]]
    OBVIOUS
  <2>1. \A i \in DOMAIN lines : lines[i] \in JournalLines
    OBVIOUS
  <2>2. f = g
    BY <2>1 DEF OnAccount
  <2>3. Of(a) = SumOf(f, DOMAIN lines)
    BY TotalIsSum
  <2> QED
    BY <2>2, <2>3 DEF Weigh
<1> HIDE DEF Of
<1> QED
  BY <1>1, <1>2

LEMMA AcceptedMeans ==
  ASSUME NEW lines \in Seq(JournalLines)
  PROVE  Accepted(lines) <=>
            \/ lines = <<>>
            \/ /\ Len(lines) >= 2 /\ AllSound(lines)
               /\ Weigh(Debits, lines) = Weigh(Credits, lines)
<1> PICK d, c : /\ d = [i \in DOMAIN lines |-> Money(lines[i].debit)]
                /\ c = [i \in DOMAIN lines |-> Money(lines[i].credit)]
  OBVIOUS
<1>1. \A i \in DOMAIN lines : lines[i] \in JournalLines
  OBVIOUS
<1>2. d = [i \in DOMAIN lines |-> Debits[lines[i]]] /\ c = [i \in DOMAIN lines |-> Credits[lines[i]]]
  BY <1>1 DEF Debits, Credits
<1>3. Total(d) = Weigh(Debits, lines) /\ Total(c) = Weigh(Credits, lines)
  BY <1>2, TotalIsSum DEF Weigh
<1>4. Accepted(lines) <=>
            \/ lines = <<>>
            \/ /\ Len(lines) >= 2 /\ AllSound(lines)
               /\ Total(d) = Total(c)
  BY DEF Accepted, AllSound, IsSound, Each
<1> QED
  BY <1>3, <1>4

-----------------------------------------------------------------------------
(* The journals LedgerPoster builds, weighed line by line.                    *)

LEMMA LineFacts ==
  ASSUME NEW a \in BookAccounts, NEW x \in Int
  PROVE  /\ Dr(a, x) \in JournalLines /\ Cr(a, x) \in JournalLines
         /\ IsEmpty(Dr(a, x)) <=> x = 0
         /\ IsEmpty(Cr(a, x)) <=> x = 0
         /\ IsSound(Dr(a, x)) <=> Money(x) > 0
         /\ IsSound(Cr(a, x)) <=> Money(x) > 0
         /\ Debits[Dr(a, x)] = Money(x) /\ Debits[Cr(a, x)] = 0
         /\ Credits[Cr(a, x)] = Money(x) /\ Credits[Dr(a, x)] = 0
         /\ \A b : /\ OnAccount(b)[Dr(a, x)] = IF a = b THEN Money(x) ELSE 0
                   /\ OnAccount(b)[Cr(a, x)] = IF a = b THEN - Money(x) ELSE 0
         /\ Len(IfAny(Dr(a, x))) = (IF x = 0 THEN 0 ELSE 1)
         /\ Len(IfAny(Cr(a, x))) = (IF x = 0 THEN 0 ELSE 1)
<1>1. Dr(a, x) \in JournalLines /\ Cr(a, x) \in JournalLines
  BY DEF Dr, Cr, JournalLines
<1>2. /\ Dr(a, x).account = a /\ Dr(a, x).debit = x /\ Dr(a, x).credit = 0
      /\ Cr(a, x).account = a /\ Cr(a, x).debit = 0 /\ Cr(a, x).credit = x
  BY DEF Dr, Cr
<1>3. Money(0) = 0 /\ Money(x) \in Int
  BY MoneyFacts
<1>4. /\ IsEmpty(Dr(a, x)) <=> x = 0
      /\ IsEmpty(Cr(a, x)) <=> x = 0
  BY <1>2 DEF IsEmpty
<1>5. /\ IsSound(Dr(a, x)) <=> Money(x) > 0
      /\ IsSound(Cr(a, x)) <=> Money(x) > 0
  BY <1>2, <1>3 DEF IsSound
<1>6. /\ Debits[Dr(a, x)] = Money(x) /\ Debits[Cr(a, x)] = 0
      /\ Credits[Cr(a, x)] = Money(x) /\ Credits[Dr(a, x)] = 0
  BY <1>1, <1>2, <1>3 DEF Debits, Credits
<1>7. \A b : /\ OnAccount(b)[Dr(a, x)] = IF a = b THEN Money(x) ELSE 0
             /\ OnAccount(b)[Cr(a, x)] = IF a = b THEN - Money(x) ELSE 0
  BY <1>1, <1>2, <1>3 DEF OnAccount
<1>8. /\ Len(IfAny(Dr(a, x))) = (IF x = 0 THEN 0 ELSE 1)
      /\ Len(IfAny(Cr(a, x))) = (IF x = 0 THEN 0 ELSE 1)
  BY <1>2 DEF IfAny
<1> QED
  BY <1>1, <1>4, <1>5, <1>6, <1>7, <1>8

\* Two parts of a journal that are there if there is an amount.
LEMMA PartFacts ==
  ASSUME NEW A \in Seq(JournalLines), NEW l \in JournalLines
  PROVE  /\ A \o IfAny(l) \in Seq(JournalLines)
         /\ Len(A \o IfAny(l)) = Len(A) + Len(IfAny(l))
         /\ AllSound(A \o IfAny(l)) <=> AllSound(A) /\ (IsEmpty(l) \/ IsSound(l))
         /\ \A w \in Weights : Ignores(w) => Weigh(w, A \o IfAny(l)) = Weigh(w, A) + w[l]
<1>1. IfAny(l) \in Seq(JournalLines)
  BY DEF IfAny
<1>2. /\ A \o IfAny(l) \in Seq(JournalLines)
      /\ Len(A \o IfAny(l)) = Len(A) + Len(IfAny(l))
  BY <1>1
<1>3. AllSound(A \o IfAny(l)) <=> AllSound(A) /\ (IsEmpty(l) \/ IsSound(l))
  BY <1>1, SoundParts
<1>4. ASSUME NEW w \in Weights, Ignores(w)
      PROVE  Weigh(w, A \o IfAny(l)) = Weigh(w, A) + w[l]
  BY <1>1, <1>4, WeighConcat, WeighIfAny
<1> QED
  BY <1>2, <1>3, <1>4

LEMMA WholeFacts ==
  ASSUME NEW A \in Seq(JournalLines), NEW l \in JournalLines
  PROVE  /\ A \o <<l>> \in Seq(JournalLines) /\ <<l>> \in Seq(JournalLines)
         /\ Len(A \o <<l>>) = Len(A) + 1 /\ Len(<<l>>) = 1
         /\ AllSound(A \o <<l>>) <=> AllSound(A) /\ IsSound(l)
         /\ AllSound(<<l>>) <=> IsSound(l)
         /\ \A w \in Weights : /\ Weigh(w, A \o <<l>>) = Weigh(w, A) + w[l]
                               /\ Weigh(w, <<l>>) = w[l]
<1>1. <<l>> \in Seq(JournalLines) /\ Len(<<l>>) = 1
  OBVIOUS
<1>2. AllSound(A \o <<l>>) <=> AllSound(A) /\ IsSound(l)
  BY <1>1, SoundParts
<1>3. ASSUME NEW w \in Weights PROVE Weigh(w, A \o <<l>>) = Weigh(w, A) + w[l] /\ Weigh(w, <<l>>) = w[l]
  BY <1>1, WeighConcat, WeighOne
<1> QED
  BY <1>1, <1>2, <1>3, SoundParts

-----------------------------------------------------------------------------
(* The journal of an expense: a line for each amount that is not zero.        *)

\* Induction up to n, of membership in a set.
LEMMA CountingUp ==
  ASSUME NEW n \in Nat, NEW Q, 1 \in Q, \A m \in 1..(n - 1) : m \in Q => m + 1 \in Q
  PROVE  \A m \in 1..n : m \in Q
<1> DEFINE Bad == {m \in 1..n : m \notin Q}
<1> SUFFICES ASSUME Bad # {} PROVE FALSE
  OBVIOUS
<1>1. PICK m \in Bad : \A k \in Bad : m <= k
  <2>1. Bad \in SUBSET Nat
    OBVIOUS
  <2> HIDE DEF Bad
  <2> QED
    BY <2>1, LeastNatural
<1>2. m \in 1..n /\ m \notin Q /\ m # 1
  OBVIOUS
<1>3. m - 1 \in 1..(n - 1) /\ m - 1 \in 1..n /\ (m - 1) + 1 = m /\ ~(m <= m - 1)
  BY <1>2
<1>4. m - 1 \notin Bad
  BY <1>1, <1>3
<1>5. m - 1 \in Q
  BY <1>3, <1>4
<1> QED
  BY <1>2, <1>3, <1>5

\* Journals one behind the other.
Flattens(ss, n, g) == g = [i \in 1..n |-> IF i = 1 THEN ss[i] ELSE g[i - 1] \o ss[i]]

LEMMA FlatteningExists ==
  ASSUME NEW ss, NEW n \in Nat \ {0}
  PROVE  \E g : Flattens(ss, n, g)
<1> DEFINE Q == {m \in Nat : \E g : Flattens(ss, m, g)}
<1>1. 1 \in Q
  <2> DEFINE g == [i \in 1..1 |-> ss[i]]
  <2>1. Flattens(ss, 1, g)
    BY DEF Flattens
  <2> QED
    BY <2>1
<1>2. ASSUME NEW m \in 1..(n - 1), m \in Q PROVE m + 1 \in Q
  <2>1. PICK g : Flattens(ss, m, g)
    BY <1>2
  <2> DEFINE h == [i \in 1..(m + 1) |-> IF i = m + 1 THEN g[m] \o ss[m + 1] ELSE g[i]]
  <2>2. \A i \in 1..(m + 1) : h[i] = IF i = 1 THEN ss[i] ELSE h[i - 1] \o ss[i]
    <3> TAKE i \in 1..(m + 1)
    <3>1. CASE i = m + 1
      <4>1. h[i] = g[m] \o ss[i] /\ i # 1 /\ i - 1 = m /\ m \in 1..(m + 1) /\ m # m + 1
        <5>1. m \in Nat /\ m >= 1
          OBVIOUS
        <5>2. i # 1 /\ i - 1 = m /\ m \in 1..(m + 1) /\ m # m + 1
          BY <3>1, <5>1
        <5>3. h[i] = g[m] \o ss[i]
          BY <3>1
        <5> QED
          BY <5>2, <5>3
      <4>2. h[m] = g[m]
        BY <4>1
      <4> QED
        BY <4>1, <4>2
    <3>2. CASE i # m + 1
      <4>1. i \in 1..m /\ h[i] = g[i]
        BY <3>2
      <4>2. g[i] = IF i = 1 THEN ss[i] ELSE g[i - 1] \o ss[i]
        BY <2>1, <4>1 DEF Flattens
      <4>3. i # 1 => i - 1 \in 1..(m + 1) /\ i - 1 # m + 1
        BY <4>1
      <4> QED
        BY <4>1, <4>2, <4>3
    <3> QED
      BY <3>1, <3>2
  <2>3. Flattens(ss, m + 1, h)
    BY <2>2 DEF Flattens
  <2> QED
    BY <2>3
<1> HIDE DEF Q
<1>3. n \in 1..n
  OBVIOUS
<1>4. n \in Q
  BY <1>1, <1>2, <1>3, CountingUp
<1> QED
  BY <1>4 DEF Q

LEMMA FlatteningIs ==
  ASSUME NEW ss, Len(ss) \in Nat \ {0}
  PROVE  \E g : Flattens(ss, Len(ss), g) /\ FlattenSeq(ss) = g[Len(ss)]
<1> PICK n : n = Len(ss)
  OBVIOUS
<1>1. FlattenSeq(ss) = (CHOOSE g : Flattens(ss, n, g))[n]
  BY DEF FlattenSeq, Flattens
<1>2. \E g : Flattens(ss, n, g)
  BY FlatteningExists
<1> QED
  BY <1>1, <1>2

LEMMA FlatWeighs ==
  ASSUME NEW ss \in Seq(Seq(JournalLines))
  PROVE  /\ FlattenSeq(ss) \in Seq(JournalLines)
         /\ AllSound(FlattenSeq(ss)) <=> \A i \in DOMAIN ss : AllSound(ss[i])
         /\ \A w \in Weights :
               Weigh(w, FlattenSeq(ss)) = SumOf([i \in DOMAIN ss |-> Weigh(w, ss[i])], DOMAIN ss)
<1> PICK n : n = Len(ss)
  OBVIOUS
<1>1. n \in Nat /\ DOMAIN ss = 1..n /\ \A i \in 1..n : ss[i] \in Seq(JournalLines)
  OBVIOUS
<1>2. CASE n = 0
  <2>1. FlattenSeq(ss) = <<>> /\ DOMAIN ss = {}
    BY <1>1, <1>2 DEF FlattenSeq
  <2> QED
    BY <2>1, WeighNone, SoundParts, SumOfNone
<1>3. CASE n # 0
  <2>1. PICK g : Flattens(ss, n, g) /\ FlattenSeq(ss) = g[n]
    BY <1>1, <1>3, FlatteningIs
  <2> DEFINE Q == {m \in 1..n :
                     /\ g[m] \in Seq(JournalLines)
                     /\ AllSound(g[m]) <=> \A i \in 1..m : AllSound(ss[i])
                     /\ \A w \in Weights :
                           Weigh(w, g[m]) = SumOf([i \in DOMAIN ss |-> Weigh(w, ss[i])], 1..m)}
  <2>2. 1 \in Q
    <3>1. g[1] = ss[1] /\ 1 \in 1..n /\ 1..1 = {1}
      BY <1>1, <1>3, <2>1 DEF Flattens
    <3>2. ASSUME NEW w \in Weights
          PROVE  Weigh(w, g[1]) = SumOf([i \in DOMAIN ss |-> Weigh(w, ss[i])], {1})
      <4> PICK h : h = [i \in DOMAIN ss |-> Weigh(w, ss[i])]
        OBVIOUS
      <4>1. h[1] = Weigh(w, ss[1]) /\ h[1] \in Int
        BY <1>1, <3>1, WeighTyped
      <4>2. SumOf(h, {1}) = h[1]
        BY ONLY <4>1, SumOfOne
      <4> QED
        BY <3>1, <4>1, <4>2
    <3> QED
      BY <1>1, <3>1, <3>2
  <2>3. ASSUME NEW m \in 1..(n - 1), m \in Q PROVE m + 1 \in Q
    <3>1. /\ m \in 1..n /\ m + 1 \in 1..n /\ m + 1 # 1 /\ (m + 1) - 1 = m
          /\ 1..(m + 1) = (1..m) \cup {m + 1} /\ m + 1 \notin 1..m
      BY <1>1
    <3>2. g[m + 1] = g[m] \o ss[m + 1]
      <4>1. \A i \in 1..n : g[i] = IF i = 1 THEN ss[i] ELSE g[i - 1] \o ss[i]
        BY <2>1 DEF Flattens
      <4> HIDE DEF Q
      <4> QED
        BY <3>1, <4>1
    <3>3. g[m] \in Seq(JournalLines) /\ ss[m + 1] \in Seq(JournalLines)
      BY <1>1, <2>3, <3>1
    <3>4. AllSound(g[m + 1]) <=> \A i \in 1..(m + 1) : AllSound(ss[i])
      <4>1. AllSound(g[m + 1]) <=> AllSound(g[m]) /\ AllSound(ss[m + 1])
        BY ONLY <3>2, <3>3, SoundParts
      <4>2. AllSound(g[m]) <=> \A i \in 1..m : AllSound(ss[i])
        BY <2>3
      <4> QED
        BY ONLY <3>1, <4>1, <4>2
    <3>5. ASSUME NEW w \in Weights
          PROVE  Weigh(w, g[m + 1]) = SumOf([i \in DOMAIN ss |-> Weigh(w, ss[i])], 1..(m + 1))
      <4> PICK h : h = [i \in DOMAIN ss |-> Weigh(w, ss[i])]
        OBVIOUS
      <4>1. Weigh(w, g[m + 1]) = Weigh(w, g[m]) + h[m + 1]
        BY <1>1, <3>1, <3>2, <3>3, WeighConcat
      <4>2. Weigh(w, g[m]) = SumOf(h, 1..m)
        BY <2>3
      <4>3. \A i \in 1..n : h[i] \in Int
        BY <1>1, WeighTyped
      <4>4. SumOf(h, (1..m) \cup {m + 1}) = SumOf(h, 1..m) + h[m + 1]
        <5> DEFINE L == 1..m
                   k == m + 1
        <5>1. IsFiniteSet(L) /\ IsFiniteSet({k}) /\ L \cap {k} = {}
          <6>1. m \in Int /\ 1 \in Int
            OBVIOUS
          <6>2. IsFiniteSet(L)
            BY ONLY <6>1, FS_Interval
          <6>3. IsFiniteSet({k})
            BY FS_Singleton
          <6>4. L \cap {k} = {}
            BY ONLY <3>1
          <6> QED
            BY <6>2, <6>3, <6>4
        <5>2. \A i \in L \cup {k} : h[i] \in Int
          BY <1>1, <3>1, <4>3
        <5> HIDE DEF L, k
        <5>3. SumOf(h, L \cup {k}) = SumOf(h, L) + SumOf(h, {k})
          BY ONLY <5>1, <5>2, SumOfUnion
        <5>4. SumOf(h, {k}) = h[k]
          BY <5>2, SumOfOne
        <5> QED
          BY <5>3, <5>4 DEF L, k
      <4> QED
        BY <3>1, <4>1, <4>2, <4>4
    <3>6. g[m + 1] \in Seq(JournalLines)
      BY <3>2, <3>3
    <3> QED
      BY <3>1, <3>4, <3>5, <3>6
  <2>4. n \in Q
    <3>1. n \in 1..n
      BY <1>1, <1>3
    <3> HIDE DEF Q
    <3> QED
      BY <1>1, <2>2, <2>3, <3>1, CountingUp
  <2> QED
    BY <1>1, <2>1, <2>4
<1> QED
  BY <1>2, <1>3

-----------------------------------------------------------------------------
(* Whole cents, and an expense.                                              *)

Whole == {Cent * k : k \in Int}

LEMMA WholeCents ==
  /\ Whole \subseteq Int /\ 0 \in Whole
  /\ \A x, y \in Whole : x + y \in Whole /\ x - y \in Whole /\ - x \in Whole
  /\ \A x \in Whole : Money(x) = x
  /\ \A k \in Int : Cent * k \in Whole
<1>1. \A x \in Whole : \E k \in Int : x = 1000 * k
  BY DEF Whole, Cent
<1>2. /\ \A z : \A k \in Int : z = 1000 * k => z \in Whole
      /\ \A k \in Int : Cent * k \in Whole
  BY DEF Whole, Cent
<1>3. ASSUME NEW x \in Whole, NEW y \in Whole
      PROVE  x + y \in Whole /\ x - y \in Whole /\ - x \in Whole
  <2>1. PICK k \in Int, n \in Int : x = 1000 * k /\ y = 1000 * n
    BY <1>1
  <2> PICK a \in Int, b \in Int, c \in Int : a = k + n /\ b = k - n /\ c = - k
    OBVIOUS
  <2> PICK u, v, w : u = x + y /\ v = x - y /\ w = - x
    OBVIOUS
  <2>2. u = 1000 * a /\ v = 1000 * b /\ w = 1000 * c
    BY <2>1
  <2>3. u \in Whole /\ v \in Whole /\ w \in Whole
    BY ONLY <1>2, <2>2, a \in Int, b \in Int, c \in Int
  <2> QED
    BY <2>3
<1>4. \A x \in Whole : Money(x) = x
  BY MoneyFacts DEF Whole
<1>5. 0 \in Whole
  <2>1. 0 = 1000 * 0 /\ 0 \in Int
    OBVIOUS
  <2> QED
    BY <1>2, <2>1
<1>6. Whole \subseteq Int
  BY <1>1
<1> QED
  BY <1>2, <1>3, <1>4, <1>5, <1>6

LEMMA RoundingIsWhole ==
  ASSUME NEW n \in Int, NEW d \in Nat \ {0}
  PROVE  Cents(n, d) \in Whole /\ (n >= 0 => Cents(n, d) >= 0)
<1>1. d * Cent \in Int /\ d * Cent > 0
  BY DEF Cent
<1>2. ASSUME NEW e \in Int, e > 0
      PROVE  HalfEven(n, e) \in Int /\ (n >= 0 => HalfEven(n, e) >= 0)
  <2>1. n \div e \in Int /\ (n >= 0 => n \div e >= 0)
    BY <1>2
  <2>2. HalfEven(n, e) = n \div e \/ HalfEven(n, e) = n \div e + 1
    BY DEF HalfEven
  <2> QED
    BY <2>1, <2>2
<1> PICK h : h = HalfEven(n, d * Cent)
  OBVIOUS
<1>3. h \in Int /\ (n >= 0 => h >= 0)
  BY <1>1, <1>2
<1>4. Cents(n, d) = Cent * h
  BY DEF Cents
<1>5. n >= 0 => Cent * h >= 0
  BY <1>3 DEF Cent
<1> QED
  BY <1>3, <1>4, <1>5 DEF Whole

LEMMA TotalOfWhole ==
  ASSUME NEW s, IsFiniteSet(DOMAIN s), \A i \in DOMAIN s : s[i] \in Whole
  PROVE  /\ Total(s) \in Whole /\ Total(s) = SumOf(s, DOMAIN s)
         /\ (\A i \in DOMAIN s : s[i] >= 0) => Total(s) >= 0
<1> PICK D : D = DOMAIN s
  OBVIOUS
<1>1. \A i \in D : s[i] \in Int /\ \E k \in Int : s[i] = 1000 * k
  BY WholeCents DEF Whole, Cent
<1> PICK c \in Nat \ {0} : c = 1000
  OBVIOUS
<1>2. \E k \in Int : SumOf(s, D) = c * k
  <2>1. \A i \in D : s[i] \in Int /\ \E k \in Int : s[i] = c * k
    BY <1>1
  <2>2. IsFiniteSet(D)
    OBVIOUS
  <2> QED
    BY ONLY <2>1, <2>2, c \in Nat \ {0}, SumOfMultiples
<1>3. SumOf(s, D) \in Whole
  BY <1>2 DEF Whole, Cent
<1>4. (\A i \in D : s[i] >= 0) => SumOf(s, D) >= 0
  <2>1. ASSUME \A i \in D : s[i] >= 0 PROVE SumOf(s, D) >= 0
    <3>1. \A i \in D : s[i] \in Nat
      BY <1>1, <2>1
    <3>2. SumOf(s, D) \in Nat
      BY ONLY <3>1, IsFiniteSet(DOMAIN s), D = DOMAIN s, SumBounds
    <3> QED
      BY <3>2
  <2> QED
    BY <2>1
<1> QED
  BY <1>3, <1>4, TotalIsSum

\* The amounts of an expense less the tax in them.
IsExpense(p) ==
    /\ p.inclusive \in BOOLEAN /\ p.tax \in Nat /\ p.tax % Cent = 0
    /\ p.amounts \in Seq(Nat) /\ \A i \in DOMAIN p.amounts : p.amounts[i] % Cent = 0

NetOf(p) == NetAmounts(p.amounts, p.tax, p.inclusive)

LEMMA WholeByRest == \A n \in Nat : n % Cent = 0 => n \in Whole
<1> TAKE n \in Nat
<1> HAVE n % Cent = 0
<1>1. n % 1000 = 0
  BY DEF Cent
<1> PICK k \in Int : k = n \div 1000
  OBVIOUS
<1>2. n = 1000 * k
  BY <1>1
<1> QED
  BY <1>2 DEF Whole, Cent

LEMMA ExpenseAmounts ==
  ASSUME NEW p, IsExpense(p)
  PROVE  /\ p.tax \in Whole /\ p.tax >= 0
         /\ IsFiniteSet(DOMAIN p.amounts) /\ DOMAIN p.amounts = 1..Len(p.amounts)
         /\ Len(p.amounts) \in Nat
         /\ \A i \in DOMAIN p.amounts : p.amounts[i] \in Nat /\ p.amounts[i] \in Whole
         /\ Total(p.amounts) \in Whole /\ Total(p.amounts) >= 0
         /\ ExpenseTotal(p) \in Whole /\ ExpenseTotal(p) >= 0
<1> PICK A, tax, gross : A = p.amounts /\ tax = p.tax /\ gross = Total(A)
  OBVIOUS
<1>1. A \in Seq(Nat) /\ tax \in Nat /\ tax % Cent = 0 /\ \A i \in DOMAIN A : A[i] % Cent = 0
  BY DEF IsExpense
<1>2. DOMAIN A = 1..Len(A) /\ Len(A) \in Nat /\ \A i \in DOMAIN A : A[i] \in Nat
  BY <1>1
<1>3. tax \in Whole /\ tax >= 0 /\ \A i \in DOMAIN A : A[i] \in Whole
  BY <1>1, <1>2, WholeByRest
<1>4. IsFiniteSet(DOMAIN A)
  BY <1>2, FS_Interval
<1>5. gross \in Whole /\ gross >= 0
  <2>1. \A i \in DOMAIN A : A[i] >= 0
    BY <1>2
  <2> QED
    BY <1>3, <1>4, <2>1, TotalOfWhole
<1>6. ExpenseTotal(p) \in Whole /\ ExpenseTotal(p) >= 0
  <2>1. 0 \in Whole /\ Whole \subseteq Int /\ \A x, y \in Whole : x + y \in Whole
    BY WholeCents
  <2>2. ExpenseTotal(p) = gross + 0 \/ ExpenseTotal(p) = gross + tax
    BY DEF ExpenseTotal
  <2> QED
    BY <1>3, <1>5, <2>1, <2>2
<1> QED
  BY <1>2, <1>3, <1>4, <1>5, <1>6

LEMMA NetOfExpense ==
  ASSUME NEW p, IsExpense(p)
  PROVE  /\ DOMAIN NetOf(p) = DOMAIN p.amounts
         /\ \A i \in DOMAIN p.amounts : NetOf(p)[i] \in Whole
         /\ ExpenseTotal(p) > 0 => Total(NetOf(p)) + p.tax = ExpenseTotal(p)
         /\ ~(ExpenseTotal(p) > 0) => \A i \in DOMAIN p.amounts : NetOf(p)[i] >= 0
<1> PICK A, tax, gross : A = p.amounts /\ tax = p.tax /\ gross = Total(A)
  OBVIOUS
<1>1. /\ tax \in Whole /\ tax >= 0 /\ gross \in Whole /\ gross >= 0
      /\ IsFiniteSet(DOMAIN A) /\ DOMAIN A = 1..Len(A) /\ Len(A) \in Nat
      /\ \A i \in DOMAIN A : A[i] \in Nat /\ A[i] \in Whole
  BY ExpenseAmounts
<1>2. tax \in Int /\ gross \in Int
  BY <1>1, WholeCents
<1>3. ExpenseTotal(p) = gross + IF p.inclusive THEN 0 ELSE tax
  BY DEF ExpenseTotal
<1>4. CASE ~p.inclusive \/ tax <= 0 \/ gross <= 0
  <2>1. NetOf(p) = A
    BY <1>4 DEF NetOf, NetAmounts
  <2>2. ExpenseTotal(p) > 0 => gross + tax = ExpenseTotal(p)
    BY <1>1, <1>2, <1>3, <1>4
  <2> QED
    BY <1>1, <2>1, <2>2
<1>5. CASE p.inclusive /\ tax > 0 /\ gross > 0
  <2> PICK D : D = DOMAIN A
    OBVIOUS
  <2> PICK net, n, rest : /\ net = EvenSplit(A, tax) /\ n = Len(A)
                          /\ rest = gross - tax - Total(net)
    OBVIOUS
  <2>1. net = [i \in D |-> Cents(A[i] * gross - tax * A[i], gross)]
    BY DEF EvenSplit, Each
  <2>2. DOMAIN net = D /\ \A i \in D : net[i] \in Whole
    <3>1. ASSUME NEW i \in D
          PROVE  A[i] * gross - tax * A[i] \in Int /\ gross \in Nat \ {0}
      <4>1. A[i] \in Int
        BY <1>1
      <4> QED
        BY <1>2, <1>5, <4>1
    <3> QED
      BY <2>1, <3>1, RoundingIsWhole
  <2>3. NetOf(p) = [net EXCEPT ![n] = @ + rest]
    <3>1. ~(~p.inclusive \/ tax <= 0 \/ gross <= 0)
      BY <1>2, <1>5
    <3> QED
      BY <3>1 DEF NetOf, NetAmounts
  <2>4. Total(net) \in Whole /\ Total(net) = SumOf(net, D)
    BY <1>1, <2>2, TotalOfWhole
  <2>5. rest \in Whole
    BY <1>1, <2>4, WholeCents
  <2>6. n \in D
    <3>1. D = {} => gross = 0
      BY TotalIsSum, SumOfNone
    <3> QED
      BY <1>1, <1>5, <3>1
  <2> PICK new : new = NetOf(p)
    OBVIOUS
  <2>7. /\ DOMAIN new = D /\ new[n] = net[n] + rest
        /\ \A i \in D : i # n => new[i] = net[i]
    <3>1. new = [net EXCEPT ![n] = @ + rest]
      BY <2>3
    <3>2. DOMAIN new = D
      BY ONLY <2>2, <3>1
    <3>3. new[n] = net[n] + rest
      BY ONLY <2>2, <2>6, <3>1
    <3>4. \A i \in D : i # n => new[i] = net[i]
      BY ONLY <2>2, <3>1
    <3> QED
      BY <3>2, <3>3, <3>4
  <2>8. \A i \in D : new[i] \in Whole
    <3> TAKE i \in D
    <3>1. CASE i = n
      <4> PICK x, y : x = net[n] /\ y = rest
        OBVIOUS
      <4>1. x \in Whole /\ y \in Whole /\ new[i] = x + y
        BY <2>2, <2>5, <2>7, <3>1
      <4>2. x + y \in Whole
        BY ONLY <4>1, WholeCents
      <4> QED
        BY <4>1, <4>2
    <3>2. CASE i # n
      BY <2>2, <2>7, <3>2
    <3> QED
      BY <3>1, <3>2
  <2>9. Total(new) = SumOf(new, D)
    BY <2>7, TotalIsSum
  <2>10. SumOf(new, D) = SumOf(net, D) - net[n] + new[n]
    <3>1. \A i \in D : net[i] \in Int /\ new[i] \in Int
      BY <2>2, <2>8, WholeCents
    <3>2. \A i \in D : i # n => net[i] = new[i]
      BY <2>7
    <3>3. IsFiniteSet(D)
      BY <1>1
    <3> QED
      BY ONLY <2>6, <3>1, <3>2, <3>3, SumChanges
  <2>11. Total(new) + tax = gross
    <3>1. SumOf(net, D) \in Int /\ net[n] \in Int /\ rest \in Int
      BY <2>2, <2>4, <2>5, <2>6, WholeCents
    <3>2. Total(new) = SumOf(net, D) - net[n] + (net[n] + rest)
      BY <2>7, <2>9, <2>10
    <3>3. rest = gross - tax - SumOf(net, D)
      BY <2>4
    <3> QED
      BY <1>2, <3>1, <3>2, <3>3
  <2>12. ExpenseTotal(p) = gross
    BY <1>2, <1>3, <1>5
  <2> QED
    BY <1>5, <2>7, <2>8, <2>11, <2>12
<1> QED
  BY <1>2, <1>4, <1>5

-----------------------------------------------------------------------------
(* What a document is worth.                                                 *)

\* Whole cents, and not less than nothing.
Priced(x) == x \in Whole /\ x >= 0

LEMMA PricesAreNatural ==
  /\ \A x : Priced(x) => x \in Nat
  /\ \A n \in Nat : \A d \in Nat \ {0} : Priced(Cents(n, d))
<1>1. \A x : Priced(x) => x \in Nat
  BY WholeCents DEF Priced
<1>2. ASSUME NEW n \in Nat, NEW d \in Nat \ {0} PROVE Priced(Cents(n, d))
  BY RoundingIsWhole DEF Priced
<1> QED
  BY <1>1, <1>2

LEMMA ProductsAreNatural == \A m, n \in Nat : m * n \in Nat
<1> TAKE m \in Nat, n \in Nat
<1> QED
  OBVIOUS

LEMMA LinesArePriced ==
  ASSUME NEW l \in WrittenLines
  PROVE  /\ Priced(Base(l)) /\ Priced(Taxable(l)) /\ Priced(LineTax(l))
         /\ Priced(FbrLineTax(l)) /\ Priced(FurtherTax(l))
         /\ l.off = 0 => Taxable(l) = Base(l)
<1> PICK q \in Nat, p \in Nat, off \in Nat, charged \in Nat :
      q = l.quantity /\ p = l.price /\ off = l.off /\ charged = l.rate
  BY DEF WrittenLines
<1>0. Whole \subseteq Int /\ (\A k \in Int : Cent * k \in Whole) /\ 1 \in Nat \ {0} /\ 100 \in Nat \ {0}
  BY WholeCents
<1> PICK base : base = Base(l)
  OBVIOUS
<1>1. Priced(base) /\ base \in Nat
  <2>1. q * p \in Nat
    BY ProductsAreNatural
  <2> PICK x \in Nat : x = q * p
    BY <2>1
  <2>2. base = Cents(x, 1)
    BY DEF Base
  <2> QED
    BY <1>0, <2>2, PricesAreNatural
<1> PICK asked : asked = IF l.percent THEN Cents(base * off, 100) ELSE Cent * off
  OBVIOUS
<1>2. Priced(asked) /\ asked \in Nat /\ (off = 0 => asked = 0)
  <2>1. CASE l.percent
    <3>1. base * off \in Nat
      BY <1>1, ProductsAreNatural
    <3> PICK x \in Nat : x = base * off
      BY <3>1
    <3>2. asked = Cents(x, 100)
      BY <2>1
    <3>3. off = 0 => asked = 0
      <4> SUFFICES ASSUME off = 0 PROVE asked = 0
        OBVIOUS
      <4>1. x = 0
        BY <1>1
      <4>2. HalfEven(0, 100 * Cent) = 0
        BY DEF HalfEven, Cent
      <4> QED
        BY <3>2, <4>1, <4>2 DEF Cents, Cent
    <3> QED
      BY <1>0, <3>2, <3>3, PricesAreNatural
  <2>2. CASE ~l.percent
    <3>1. asked = Cent * off /\ Cent * off >= 0 /\ (off = 0 => Cent * off = 0)
      BY <2>2 DEF Cent
    <3> QED
      BY <1>0, <3>1, PricesAreNatural DEF Priced
  <2> QED
    BY <2>1, <2>2
<1> PICK net : net = Taxable(l)
  OBVIOUS
<1>3. Priced(net) /\ net \in Nat /\ (off = 0 => net = base)
  <2>1. net = base - (IF asked > base THEN base ELSE asked)
    BY DEF Taxable, Discount
  <2>2. net = base - base \/ net = base - asked
    BY <2>1
  <2>3. net \in Whole
    <3>1. base \in Whole /\ asked \in Whole
      BY <1>1, <1>2 DEF Priced
    <3> QED
      BY ONLY <2>2, <3>1, WholeCents
  <2>4. net >= 0 /\ net \in Int /\ (off = 0 => net = base)
    BY <1>1, <1>2, <2>1
  <2> QED
    BY <2>3, <2>4 DEF Priced
<1>4. Priced(LineTax(l))
  <2>1. net * charged \in Nat
    BY <1>3, ProductsAreNatural
  <2> PICK x \in Nat : x = net * charged
    BY <2>1
  <2>2. LineTax(l) = Cents(x, 100)
    BY DEF LineTax
  <2> QED
    BY <1>0, <2>2, PricesAreNatural
<1>5. Priced(FbrLineTax(l))
  <2>1. charged * q \in Nat
    BY ProductsAreNatural
  <2> PICK x \in Nat : x = charged * q
    BY <2>1
  <2>2. FbrLineTax(l) = Cents(x, 1) \/ FbrLineTax(l) = LineTax(l)
    BY DEF FbrLineTax
  <2> QED
    BY <1>0, <1>4, <2>2, PricesAreNatural
<1>6. Priced(FurtherTax(l))
  <2>1. FurtherRate \in Nat
    BY DEF FurtherRate
  <2>2. net * FurtherRate \in Nat
    BY <1>3, <2>1, ProductsAreNatural
  <2> PICK x \in Nat : x = net * FurtherRate
    BY <2>2
  <2>3. FurtherTax(l) = Cents(x, 100)
    BY DEF FurtherTax
  <2> QED
    BY <1>0, <2>3, PricesAreNatural
<1> QED
  BY <1>1, <1>3, <1>4, <1>5, <1>6

\* What is priced line by line is priced in all.
LEMMA TotalsArePriced ==
  ASSUME NEW s, NEW n \in Nat, DOMAIN s = 1..n, \A i \in 1..n : Priced(s[i])
  PROVE  Priced(Total(s))
<1>1. IsFiniteSet(DOMAIN s)
  BY FS_Interval
<1> QED
  BY <1>1, TotalOfWhole DEF Priced

\* Something that is written on the lines.
IsWritten(p) == p.lines \in Seq(WrittenLines) /\ p.extra \in Int

\* The tax is not negative, and what is left of the total is the lines without it and
\* what was added, however the document is filed.
LEMMA DocumentsArePriced ==
  ASSUME NEW p, IsWritten(p), NEW type
  PROVE  /\ Priced(TaxTotal(type, p.lines)) /\ DocumentTotal(type, p) \in Whole
         /\ Priced(Total(Each(Taxable, p.lines)))
         /\ DocumentTotal(type, p) - TaxTotal(type, p.lines) =
               Total(Each(Taxable, p.lines)) + Cent * p.extra
<1> PICK lines, n : lines = p.lines /\ n = Len(lines)
  OBVIOUS
<1>1. n \in Nat /\ DOMAIN lines = 1..n /\ (\A i \in 1..n : lines[i] \in WrittenLines) /\ p.extra \in Int
  BY DEF IsWritten
<1> PICK net, tax, fbr, further :
      /\ net = [i \in DOMAIN lines |-> Taxable(lines[i])]
      /\ tax = [i \in DOMAIN lines |-> LineTax(lines[i])]
      /\ fbr = [i \in DOMAIN lines |-> FbrLineTax(lines[i])]
      /\ further = [i \in DOMAIN lines |-> FurtherTax(lines[i])]
  OBVIOUS
<1>2. /\ Priced(Total(net)) /\ Priced(Total(tax)) /\ Priced(Total(fbr)) /\ Priced(Total(further))
  <2>1. \A i \in 1..n : Priced(net[i]) /\ Priced(tax[i]) /\ Priced(fbr[i]) /\ Priced(further[i])
    BY <1>1, LinesArePriced
  <2>2. DOMAIN net = 1..n /\ DOMAIN tax = 1..n /\ DOMAIN fbr = 1..n /\ DOMAIN further = 1..n
    BY <1>1
  <2> QED
    BY ONLY <1>1, <2>1, <2>2, TotalsArePriced
<1> PICK taxes, rest : taxes = TaxTotal(type, p.lines) /\ rest = Total(net)
  OBVIOUS
<1>3. Priced(taxes)
  <2>1. taxes = Total(fbr) + Total(further) \/ taxes = Total(tax)
    BY DEF TaxTotal, Each
  <2> PICK x, y : x = Total(fbr) /\ y = Total(further)
    OBVIOUS
  <2>2. x \in Whole /\ y \in Whole /\ x >= 0 /\ y >= 0
    BY <1>2 DEF Priced
  <2>3. x + y \in Whole /\ x \in Int /\ y \in Int
    BY <2>2, WholeCents
  <2>4. Priced(x + y)
    BY <2>2, <2>3 DEF Priced
  <2> QED
    BY <1>2, <2>1, <2>4
<1>4. DocumentTotal(type, p) = rest + taxes + Cent * p.extra /\ Total(Each(Taxable, p.lines)) = rest
  BY DEF DocumentTotal, Each
<1>5. Cent * p.extra \in Whole /\ rest \in Whole /\ taxes \in Whole
  BY <1>1, <1>2, <1>3, WholeCents DEF Priced
<1>6. rest + taxes + Cent * p.extra \in Whole
  BY <1>5, WholeCents
<1>7. (rest + taxes + Cent * p.extra) - taxes = rest + Cent * p.extra
  <2> PICK x : x = Cent * p.extra
    OBVIOUS
  <2>1. x \in Int /\ rest \in Int /\ taxes \in Int
    BY <1>5, WholeCents
  <2>2. (rest + taxes + x) - taxes = rest + x
    BY ONLY <2>1
  <2> QED
    BY <2>2
<1> QED
  BY <1>2, <1>3, <1>4, <1>6, <1>7

-----------------------------------------------------------------------------
(* What the goods on a document cost.                                        *)

\* The goods on these lines, at the item's price c or at the document's own.
GoodsAt(type, lines, c) ==
    Total([i \in DOMAIN lines |->
             IF lines[i].tracked
               THEN lines[i].quantity * (IF PricedAtCost(type) THEN lines[i].price ELSE c)
               ELSE 0])

LEMMA StockValueIs ==
  ASSUME NEW type, NEW lines
  PROVE  StockValue(type, lines) =
            IF MovesGoods(type) THEN Direction(type) * GoodsAt(type, lines, price) ELSE 0
  BY DEF StockValue, GoodsAt, Each

LEMMA GoodsAreNatural ==
  ASSUME NEW p, IsWritten(p), NEW c \in Nat, NEW type
  PROVE  GoodsAt(type, p.lines, c) \in Nat
<1> PICK lines, n : lines = p.lines /\ n = Len(lines)
  OBVIOUS
<1>1. n \in Nat /\ DOMAIN lines = 1..n /\ (\A i \in 1..n : lines[i] \in WrittenLines)
  BY DEF IsWritten
<1> PICK s : s = [i \in DOMAIN lines |->
             IF lines[i].tracked
               THEN lines[i].quantity * (IF PricedAtCost(type) THEN lines[i].price ELSE c)
               ELSE 0]
  OBVIOUS
<1>2. \A i \in 1..n : s[i] \in Nat
  <2> TAKE i \in 1..n
  <2>1. lines[i].quantity \in Nat /\ lines[i].price \in Nat
    BY <1>1 DEF WrittenLines
  <2> PICK x \in Nat : x = IF PricedAtCost(type) THEN lines[i].price ELSE c
    BY <2>1
  <2>2. lines[i].quantity * x \in Nat
    BY <2>1, ProductsAreNatural
  <2>3. s[i] = lines[i].quantity * x \/ s[i] = 0
    BY <1>1
  <2> QED
    BY <2>2, <2>3
<1>3. IsFiniteSet(1..n) /\ DOMAIN s = 1..n
  BY <1>1, FS_Interval
<1>4. SumOf(s, 1..n) \in Nat
  BY ONLY <1>2, <1>3, SumBounds
<1>5. Total(s) \in Nat
  BY <1>3, <1>4, TotalIsSum
<1> QED
  BY <1>5 DEF GoodsAt

\* Of a purchase at list price with nothing added, the goods are the total less the tax.
LEMMA PlainGoods ==
  ASSUME NEW p, IsWritten(p), IsPlain(p), NEW c
  PROVE  /\ Total(Each(Taxable, p.lines)) = GoodsAt("goods_receipt", p.lines, c)
         /\ Cent * p.extra = 0
<1> PICK lines : lines = p.lines
  OBVIOUS
<1>1. \A i \in DOMAIN lines : lines[i] \in WrittenLines
  BY DEF IsWritten
<1>2. \A i \in DOMAIN lines : /\ lines[i].tracked /\ lines[i].off = 0
                              /\ Base(lines[i]) = lines[i].quantity * lines[i].price
  BY DEF IsPlain
<1>3. PricedAtCost("goods_receipt")
  BY DEF PricedAtCost
<1>4. [i \in DOMAIN lines |-> Taxable(lines[i])] =
      [i \in DOMAIN lines |->
             IF lines[i].tracked
               THEN lines[i].quantity * (IF PricedAtCost("goods_receipt") THEN lines[i].price ELSE c)
               ELSE 0]
  BY <1>1, <1>2, <1>3, LinesArePriced
<1>5. Cent * p.extra = 0
  BY DEF IsPlain, Cent
<1> QED
  BY <1>4, <1>5 DEF GoodsAt, Each

-----------------------------------------------------------------------------
(* The journal of each kind of paper: when it is accepted, what it enters.   *)

At(a, b, x) == IF a = b THEN x ELSE 0

\* What a line of so much on an account weighs.
IsDebit(l, a, x) ==
    /\ l \in JournalLines
    /\ IsEmpty(l) <=> x = 0
    /\ IsSound(l) <=> Money(x) > 0
    /\ Debits[l] = Money(x) /\ Credits[l] = 0
    /\ \A e : OnAccount(e)[l] = At(a, e, Money(x))
    /\ Len(IfAny(l)) = (IF x = 0 THEN 0 ELSE 1)
IsCredit(l, a, x) ==
    /\ l \in JournalLines
    /\ IsEmpty(l) <=> x = 0
    /\ IsSound(l) <=> Money(x) > 0
    /\ Debits[l] = 0 /\ Credits[l] = Money(x)
    /\ \A e : OnAccount(e)[l] = At(a, e, - Money(x))
    /\ Len(IfAny(l)) = (IF x = 0 THEN 0 ELSE 1)

\* What is so of a journal of one line, of one with another behind it, and of one
\* with a line behind it if there is an amount.
Starts(J, l) ==
    /\ J \in Seq(JournalLines) /\ Len(J) = 1
    /\ AllSound(J) <=> IsSound(l)
    /\ \A w \in Weights : Weigh(w, J) = w[l]
Joins(J, A, B) ==
    /\ J \in Seq(JournalLines) /\ Len(J) = Len(A) + Len(B)
    /\ AllSound(J) <=> AllSound(A) /\ AllSound(B)
    /\ \A w \in Weights : Weigh(w, J) = Weigh(w, A) + Weigh(w, B)
JoinsIfAny(J, A, l) ==
    /\ J \in Seq(JournalLines) /\ Len(J) = Len(A) + Len(IfAny(l))
    /\ AllSound(J) <=> AllSound(A) /\ (IsEmpty(l) \/ IsSound(l))
    /\ \A w \in Weights : Ignores(w) => Weigh(w, J) = Weigh(w, A) + w[l]

LEMMA LinesOfJournals ==
  \A a \in BookAccounts, x \in Int : IsDebit(Dr(a, x), a, x) /\ IsCredit(Cr(a, x), a, x)
<1> TAKE a \in BookAccounts, x \in Int
<1>1. IsDebit(Dr(a, x), a, x)
  BY LineFacts DEF IsDebit, At
<1>2. IsCredit(Cr(a, x), a, x)
  BY LineFacts DEF IsCredit, At
<1> QED
  BY <1>1, <1>2

LEMMA PartsOfJournals ==
  /\ \A l \in JournalLines : Starts(<<l>>, l)
  /\ \A A, B \in Seq(JournalLines) : Joins(A \o B, A, B)
  /\ \A A \in Seq(JournalLines) : \A l \in JournalLines : JoinsIfAny(A \o IfAny(l), A, l)
<1>1. ASSUME NEW l \in JournalLines PROVE Starts(<<l>>, l)
  <2>1. <<>> \in Seq(JournalLines)
    OBVIOUS
  <2> QED
    BY <2>1, WholeFacts DEF Starts
<1>2. ASSUME NEW A \in Seq(JournalLines), NEW B \in Seq(JournalLines) PROVE Joins(A \o B, A, B)
  <2>1. A \o B \in Seq(JournalLines) /\ Len(A \o B) = Len(A) + Len(B)
    OBVIOUS
  <2> QED
    BY <2>1, SoundParts, WeighConcat DEF Joins
<1>3. ASSUME NEW A \in Seq(JournalLines), NEW l \in JournalLines
      PROVE  JoinsIfAny(A \o IfAny(l), A, l)
  BY PartFacts DEF JoinsIfAny
<1> QED
  BY <1>1, <1>2, <1>3

LEMMA OptionalLine ==
  ASSUME NEW l \in JournalLines
  PROVE  /\ IfAny(l) \in Seq(JournalLines)
         /\ AllSound(IfAny(l)) <=> IsEmpty(l) \/ IsSound(l)
         /\ \A w \in Weights : Ignores(w) => Weigh(w, IfAny(l)) = w[l]
<1>1. IfAny(l) \in Seq(JournalLines)
  BY DEF IfAny
<1> QED
  BY <1>1, SoundParts, WeighIfAny

\* When a journal is accepted that says the same on both sides.
LEMMA BalancedIsAccepted ==
  ASSUME NEW J \in Seq(JournalLines), Weigh(Debits, J) = Weigh(Credits, J), Len(J) # 1
  PROVE  Accepted(J) <=> AllSound(J)
<1>1. J = <<>> \/ Len(J) >= 2
  <2> PICK n : n = Len(J)
    OBVIOUS
  <2>1. n \in Nat /\ n # 1 /\ (n = 0 => J = <<>>)
    OBVIOUS
  <2>2. n = 0 \/ n >= 2
    BY ONLY <2>1
  <2> QED
    BY ONLY <2>1, <2>2, n = Len(J)
<1>2. Accepted(J) <=>
         J = <<>> \/ (Len(J) >= 2 /\ AllSound(J) /\ Weigh(Debits, J) = Weigh(Credits, J))
  BY AcceptedMeans
<1>3. J = <<>> => AllSound(J)
  BY SoundParts
<1> QED
  BY <1>1, <1>2, <1>3

LEMMA SingleIsRefused ==
  ASSUME NEW J \in Seq(JournalLines), Len(J) = 1
  PROVE  ~Accepted(J)
<1>1. J # <<>>
  <2>1. J = <<>> => Len(J) = 0
    OBVIOUS
  <2> QED
    BY ONLY <2>1, Len(J) = 1
<1>2. ~(Len(J) >= 2)
  BY ONLY Len(J) = 1
<1>3. Accepted(J) <=>
         J = <<>> \/ (Len(J) >= 2 /\ AllSound(J) /\ Weigh(Debits, J) = Weigh(Credits, J))
  BY AcceptedMeans
<1> QED
  BY ONLY <1>1, <1>2, <1>3

\* The same amount on both sides, if there is one.
IsPair(J, a, b, c) ==
    /\ J \in Seq(JournalLines) /\ Len(J) = (IF c = 0 THEN 0 ELSE 2)
    /\ AllSound(J) <=> c = 0 \/ Money(c) > 0
    /\ Weigh(Debits, J) = Money(c) /\ Weigh(Credits, J) = Money(c)
    /\ \A e : Weigh(OnAccount(e), J) = At(a, e, Money(c)) - At(b, e, Money(c))
    /\ Accepted(J) <=> c = 0 \/ Money(c) > 0

LEMMA PairIfAny ==
  ASSUME NEW a \in BookAccounts, NEW b \in BookAccounts, NEW c \in Int
  PROVE  IsPair(IfAny(Dr(a, c)) \o IfAny(Cr(b, c)), a, b, c)
<1> PICK l, m, A, J : l = Dr(a, c) /\ m = Cr(b, c) /\ A = IfAny(l) /\ J = A \o IfAny(m)
  OBVIOUS
<1>1. Money(c) \in Int
  BY MoneyFacts
<1>2. IsDebit(l, a, c) /\ IsCredit(m, b, c)
  BY LinesOfJournals
<1>3. l \in JournalLines /\ m \in JournalLines
  BY <1>2 DEF IsDebit, IsCredit
<1>4. /\ A \in Seq(JournalLines)
      /\ AllSound(A) <=> IsEmpty(l) \/ IsSound(l)
      /\ \A w \in Weights : Ignores(w) => Weigh(w, A) = w[l]
  BY <1>3, OptionalLine
<1>5. JoinsIfAny(J, A, m)
  <2>1. J = A \o IfAny(m) /\ A \in Seq(JournalLines)
    BY <1>4
  <2> QED
    BY ONLY <1>3, <2>1, PartsOfJournals
<1>6. J \in Seq(JournalLines)
  BY ONLY <1>5 DEF JoinsIfAny
<1>7. Len(J) = (IF c = 0 THEN 0 ELSE 2)
  <2>1. Len(A) = (IF c = 0 THEN 0 ELSE 1)
    BY <1>2 DEF IsDebit
  <2>2. Len(J) = Len(A) + Len(IfAny(m)) /\ Len(IfAny(m)) = (IF c = 0 THEN 0 ELSE 1)
    BY ONLY <1>2, <1>5 DEF JoinsIfAny, IsCredit
  <2> QED
    BY ONLY <2>1, <2>2
<1>8. AllSound(J) <=> c = 0 \/ Money(c) > 0
  BY ONLY <1>2, <1>4, <1>5 DEF JoinsIfAny, IsDebit, IsCredit
<1>9. Weigh(Debits, J) = Money(c) /\ Weigh(Credits, J) = Money(c)
  BY ONLY <1>1, <1>2, <1>4, <1>5, JournalWeights DEF JoinsIfAny, IsDebit, IsCredit
<1>10. ASSUME NEW e PROVE Weigh(OnAccount(e), J) = At(a, e, Money(c)) - At(b, e, Money(c))
  <2>1. Weigh(OnAccount(e), J) = At(a, e, Money(c)) + At(b, e, - Money(c))
    BY ONLY <1>2, <1>4, <1>5, JournalWeights DEF JoinsIfAny, IsDebit, IsCredit
  <2> QED
    BY ONLY <1>1, <2>1 DEF At
<1>11. Accepted(J) <=> c = 0 \/ Money(c) > 0
  <2>1. Len(J) # 1 /\ Weigh(Debits, J) = Weigh(Credits, J)
    BY ONLY <1>7, <1>9
  <2>2. Accepted(J) <=> AllSound(J)
    BY ONLY <1>6, <2>1, BalancedIsAccepted
  <2> QED
    BY ONLY <1>8, <2>2
<1>12. IsPair(J, a, b, c)
  BY ONLY <1>6, <1>7, <1>8, <1>9, <1>10, <1>11 DEF IsPair
<1> QED
  BY <1>12

\* The same amount on both sides in any case.
IsWholePair(J, a, b, c) ==
    /\ J \in Seq(JournalLines)
    /\ \A e : Weigh(OnAccount(e), J) = At(a, e, Money(c)) - At(b, e, Money(c))
    /\ Accepted(J) <=> Money(c) > 0

LEMMA PairOfLines ==
  ASSUME NEW a \in BookAccounts, NEW b \in BookAccounts, NEW c \in Int
  PROVE  IsWholePair(<<Dr(a, c), Cr(b, c)>>, a, b, c)
<1> PICK l, m : l = Dr(a, c) /\ m = Cr(b, c)
  OBVIOUS
<1>1. Money(c) \in Int
  BY MoneyFacts
<1>2. IsDebit(l, a, c) /\ IsCredit(m, b, c)
  BY LinesOfJournals
<1>3. l \in JournalLines /\ m \in JournalLines
  BY <1>2 DEF IsDebit, IsCredit
<1> PICK A, B, J : A = <<l>> /\ B = <<m>> /\ J = <<l, m>>
  OBVIOUS
<1>4. J = A \o B
  OBVIOUS
<1>5. Starts(A, l) /\ Starts(B, m)
  BY <1>3, PartsOfJournals
<1>6. A \in Seq(JournalLines) /\ B \in Seq(JournalLines)
  BY ONLY <1>5 DEF Starts
<1>7. Joins(J, A, B)
  BY ONLY <1>4, <1>6, PartsOfJournals
<1>8. J \in Seq(JournalLines) /\ Len(J) = 2
  BY ONLY <1>5, <1>7 DEF Starts, Joins
<1>9. AllSound(J) <=> Money(c) > 0
  BY ONLY <1>2, <1>5, <1>7 DEF Starts, Joins, IsDebit, IsCredit
<1>10. Weigh(Debits, J) = Money(c) /\ Weigh(Credits, J) = Money(c)
  BY ONLY <1>1, <1>2, <1>5, <1>7, JournalWeights DEF Starts, Joins, IsDebit, IsCredit
<1>11. ASSUME NEW e PROVE Weigh(OnAccount(e), J) = At(a, e, Money(c)) - At(b, e, Money(c))
  <2>1. Weigh(OnAccount(e), J) = At(a, e, Money(c)) + At(b, e, - Money(c))
    BY ONLY <1>2, <1>5, <1>7, JournalWeights DEF Starts, Joins, IsDebit, IsCredit
  <2> QED
    BY ONLY <1>1, <2>1 DEF At
<1>12. Accepted(J) <=> Money(c) > 0
  <2>1. Len(J) # 1 /\ Weigh(Debits, J) = Weigh(Credits, J)
    BY ONLY <1>8, <1>10
  <2>2. Accepted(J) <=> AllSound(J)
    BY ONLY <1>8, <2>1, BalancedIsAccepted
  <2> QED
    BY ONLY <1>9, <2>2
<1>13. IsWholePair(J, a, b, c)
  BY ONLY <1>8, <1>11, <1>12 DEF IsWholePair
<1> QED
  BY <1>13

\* What a paper says in whole cents.
IsStated(d) == d.total \in Whole /\ d.tax \in Whole /\ d.tax >= 0 /\ d.worth \in Int

\* Something is owed, and what is left after the tax is not negative.
IsPriced(d) == d.total > 0 /\ d.total >= d.tax

\* The goods are worth a tick or nothing.
IsCosted(d) == d.worth = 0 \/ Money(d.worth) # 0

LEMMA StatedAmounts ==
  ASSUME NEW d, IsStated(d), NEW rest, rest = d.total - d.tax
  PROVE  /\ d.total \in Int /\ d.tax \in Int /\ rest \in Int
         /\ Money(d.total) = d.total /\ Money(d.tax) = d.tax /\ Money(rest) = rest
         /\ Money(d.worth) \in Int /\ Money(- d.worth) = - Money(d.worth)
         /\ Money(0) = 0
         /\ d.worth >= 0 => Money(d.worth) >= 0
         /\ d.worth <= 0 => Money(d.worth) <= 0
         /\ IsPriced(d) <=> d.total > 0 /\ rest >= 0
<1>1. d.total \in Whole /\ d.tax \in Whole /\ rest \in Whole /\ d.worth \in Int
  BY WholeCents DEF IsStated
<1>2. d.total \in Int /\ d.tax \in Int /\ rest \in Int
  BY <1>1, WholeCents
<1>3. IsPriced(d) <=> d.total > 0 /\ rest >= 0
  BY <1>2 DEF IsPriced
<1> QED
  BY <1>1, <1>2, <1>3, WholeCents, MoneyFacts

LEMMA SaleJournal ==
  ASSUME NEW into \in BookAccounts, NEW d, IsStated(d)
  PROVE  /\ SaleLines(into, d) \in Seq(JournalLines)
         /\ d.worth <= 0 => (Accepted(SaleLines(into, d)) <=> IsPriced(d) /\ IsCosted(d))
         /\ \A e : Weigh(OnAccount(e), SaleLines(into, d)) =
               At(into, e, d.total) - At("sales_revenue", e, d.total - d.tax)
                 - At("sales_tax_payable", e, d.tax)
                 - At("cogs", e, Money(d.worth)) + At("inventory", e, Money(d.worth))
<1> PICK total, tax, rest, cost, J :
      /\ total = d.total /\ tax = d.tax /\ rest = d.total - d.tax /\ cost = - d.worth
      /\ J = SaleLines(into, d)
  OBVIOUS
<1>1. /\ total \in Int /\ tax \in Int /\ rest \in Int /\ rest = total - tax
      /\ Money(total) = total /\ Money(tax) = tax /\ Money(rest) = rest
      /\ d.worth \in Int /\ Money(d.worth) \in Int
      /\ cost \in Int /\ Money(cost) \in Int /\ Money(cost) = - Money(d.worth)
      /\ d.worth <= 0 => Money(cost) >= 0
      /\ IsPriced(d) <=> total > 0 /\ rest >= 0
      /\ tax >= 0
  <2>1. d.worth \in Int
    BY DEF IsStated
  <2> QED
    BY <2>1, StatedAmounts DEF IsStated
<1> PICK l, m, n : /\ l = Dr(into, total) /\ m = Cr("sales_revenue", rest)
                   /\ n = Cr("sales_tax_payable", tax)
  OBVIOUS
<1>2. /\ IsDebit(l, into, total) /\ IsCredit(m, "sales_revenue", rest)
      /\ IsCredit(n, "sales_tax_payable", tax)
  <2>1. "sales_revenue" \in BookAccounts /\ "sales_tax_payable" \in BookAccounts
    BY DEF BookAccounts
  <2> QED
    BY <1>1, <2>1, LinesOfJournals
<1>3. l \in JournalLines /\ m \in JournalLines /\ n \in JournalLines
  BY ONLY <1>2 DEF IsDebit, IsCredit
<1> PICK A, B, C, D : /\ A = <<l>> /\ B = A \o IfAny(m) /\ C = B \o IfAny(n)
                      /\ D = CostLines(cost)
  OBVIOUS
<1>4. J = C \o D
  BY DEF SaleLines
<1>5. Starts(A, l)
  BY ONLY <1>3, A = <<l>>, PartsOfJournals
<1>6. A \in Seq(JournalLines)
  BY ONLY <1>5 DEF Starts
<1>7. JoinsIfAny(B, A, m)
  BY ONLY <1>3, <1>6, B = A \o IfAny(m), PartsOfJournals
<1>8. B \in Seq(JournalLines)
  BY ONLY <1>7 DEF JoinsIfAny
<1>9. JoinsIfAny(C, B, n)
  BY ONLY <1>3, <1>8, C = B \o IfAny(n), PartsOfJournals
<1>10. IsPair(D, "cogs", "inventory", cost)
  <2>1. "cogs" \in BookAccounts /\ "inventory" \in BookAccounts
    BY DEF BookAccounts
  <2>2. D = IfAny(Dr("cogs", cost)) \o IfAny(Cr("inventory", cost))
    BY DEF CostLines
  <2> QED
    BY ONLY <1>1, <2>1, <2>2, PairIfAny
<1>11. C \in Seq(JournalLines) /\ D \in Seq(JournalLines)
  BY ONLY <1>9, <1>10 DEF JoinsIfAny, IsPair
<1>12. Joins(J, C, D)
  BY ONLY <1>4, <1>11, PartsOfJournals
<1>13. AllSound(J) <=> /\ total > 0 /\ (rest = 0 \/ rest > 0) /\ (tax = 0 \/ tax > 0)
                       /\ (cost = 0 \/ Money(cost) > 0)
  <2>1. AllSound(J) <=> /\ IsSound(l) /\ (IsEmpty(m) \/ IsSound(m)) /\ (IsEmpty(n) \/ IsSound(n))
                        /\ (cost = 0 \/ Money(cost) > 0)
    BY ONLY <1>5, <1>7, <1>9, <1>10, <1>12 DEF Starts, JoinsIfAny, Joins, IsPair
  <2> QED
    BY ONLY <1>1, <1>2, <2>1 DEF IsDebit, IsCredit
<1>14. Weigh(Debits, J) = total + Money(cost) /\ Weigh(Credits, J) = rest + tax + Money(cost)
  <2>1. \A w \in Weights : Ignores(w) => Weigh(w, J) = w[l] + w[m] + w[n] + Weigh(w, D)
    BY ONLY <1>5, <1>7, <1>9, <1>12 DEF Starts, JoinsIfAny, Joins
  <2>2. /\ Weigh(Debits, J) = Debits[l] + Debits[m] + Debits[n] + Weigh(Debits, D)
        /\ Weigh(Credits, J) = Credits[l] + Credits[m] + Credits[n] + Weigh(Credits, D)
    BY ONLY <2>1, JournalWeights
  <2>3. Weigh(Debits, D) = Money(cost) /\ Weigh(Credits, D) = Money(cost)
    BY ONLY <1>10 DEF IsPair
  <2> QED
    BY ONLY <1>1, <1>2, <2>2, <2>3 DEF IsDebit, IsCredit
<1>15. Len(J) = 1 + (IF rest = 0 THEN 0 ELSE 1) + (IF tax = 0 THEN 0 ELSE 1) + (IF cost = 0 THEN 0 ELSE 2)
  BY ONLY <1>2, <1>5, <1>7, <1>9, <1>10, <1>12
     DEF IsCredit, Starts, JoinsIfAny, Joins, IsPair
<1>16. J \in Seq(JournalLines)
  BY ONLY <1>12 DEF Joins
<1>17. d.worth <= 0 => (Accepted(J) <=> IsPriced(d) /\ IsCosted(d))
  <2>1. Weigh(Debits, J) = Weigh(Credits, J)
    BY ONLY <1>1, <1>14
  <2>2. CASE Len(J) = 1
    <3>1. rest = 0 /\ tax = 0
      <4> PICK k : k = Len(J)
        OBVIOUS
      <4>1. k = 1 /\ k = 1 + (IF rest = 0 THEN 0 ELSE 1) + (IF tax = 0 THEN 0 ELSE 1)
                        + (IF cost = 0 THEN 0 ELSE 2)
        BY ONLY <1>15, <2>2, k = Len(J)
      <4> QED
        BY ONLY <4>1
    <3>2. ~IsPriced(d)
      BY ONLY <1>1, <3>1
    <3>3. ~Accepted(J)
      BY ONLY <1>16, <2>2, SingleIsRefused
    <3> QED
      BY ONLY <3>2, <3>3
  <2>3. CASE Len(J) # 1
    <3>1. Accepted(J) <=> AllSound(J)
      BY ONLY <1>16, <2>1, <2>3, BalancedIsAccepted
    <3>2. d.worth <= 0 => (IsCosted(d) <=> cost = 0 \/ Money(cost) > 0)
      BY <1>1 DEF IsCosted
    <3>3. AllSound(J) <=> IsPriced(d) /\ (cost = 0 \/ Money(cost) > 0)
      BY ONLY <1>1, <1>13
    <3> QED
      BY ONLY <3>1, <3>2, <3>3
  <2> QED
    BY ONLY <2>2, <2>3
<1>18. ASSUME NEW e
       PROVE  Weigh(OnAccount(e), J) =
                At(into, e, total) - At("sales_revenue", e, rest) - At("sales_tax_payable", e, tax)
                  - At("cogs", e, Money(d.worth)) + At("inventory", e, Money(d.worth))
  <2>1. \A w \in Weights : Ignores(w) => Weigh(w, J) = w[l] + w[m] + w[n] + Weigh(w, D)
    BY ONLY <1>5, <1>7, <1>9, <1>12 DEF Starts, JoinsIfAny, Joins
  <2> PICK w \in Weights : w = OnAccount(e) /\ Ignores(w)
    BY JournalWeights
  <2>2. Weigh(w, J) = w[l] + w[m] + w[n] + Weigh(w, D)
    BY <2>1
  <2>3. /\ w[l] = At(into, e, total) /\ w[m] = At("sales_revenue", e, - rest)
        /\ w[n] = At("sales_tax_payable", e, - tax)
    BY <1>1, <1>2 DEF IsDebit, IsCredit
  <2>4. Weigh(w, D) = At("cogs", e, Money(cost)) - At("inventory", e, Money(cost))
    BY <1>10 DEF IsPair
  <2>5. /\ At("sales_revenue", e, - rest) = - At("sales_revenue", e, rest)
        /\ At("sales_tax_payable", e, - tax) = - At("sales_tax_payable", e, tax)
        /\ At("cogs", e, Money(cost)) = - At("cogs", e, Money(d.worth))
        /\ At("inventory", e, Money(cost)) = - At("inventory", e, Money(d.worth))
    BY <1>1 DEF At
  <2>6. /\ At(into, e, total) \in Int /\ At("sales_revenue", e, rest) \in Int
        /\ At("sales_tax_payable", e, tax) \in Int /\ At("cogs", e, Money(d.worth)) \in Int
        /\ At("inventory", e, Money(d.worth)) \in Int
    BY <1>1 DEF At
  <2> QED
    BY ONLY <2>2, <2>3, <2>4, <2>5, <2>6, w = OnAccount(e)
<1> QED
  BY <1>16, <1>17, <1>18

LEMMA CreditNoteJournal ==
  ASSUME NEW d, IsStated(d)
  PROVE  /\ CreditNoteLines(d) \in Seq(JournalLines)
         /\ d.worth >= 0 => (Accepted(CreditNoteLines(d)) <=> IsPriced(d) /\ IsCosted(d))
         /\ \A e : Weigh(OnAccount(e), CreditNoteLines(d)) =
               - At("accounts_receivable", e, d.total) + At("sales_returns", e, d.total - d.tax)
                 + At("sales_tax_payable", e, d.tax)
                 + At("inventory", e, Money(d.worth)) - At("cogs", e, Money(d.worth))
<1> PICK total, tax, rest, worth, J :
      /\ total = d.total /\ tax = d.tax /\ rest = d.total - d.tax /\ worth = d.worth
      /\ J = CreditNoteLines(d)
  OBVIOUS
<1>1. /\ total \in Int /\ tax \in Int /\ rest \in Int /\ rest = total - tax
      /\ Money(total) = total /\ Money(tax) = tax /\ Money(rest) = rest
      /\ worth \in Int /\ Money(worth) \in Int
      /\ worth >= 0 => Money(worth) >= 0
      /\ IsPriced(d) <=> total > 0 /\ rest >= 0
      /\ tax >= 0
  <2>1. d.worth \in Int
    BY DEF IsStated
  <2> QED
    BY <2>1, StatedAmounts DEF IsStated
<1> PICK l, m, n, p, q :
      /\ l = Cr("accounts_receivable", total) /\ m = Dr("sales_returns", rest)
      /\ n = Dr("sales_tax_payable", tax) /\ p = Dr("inventory", worth) /\ q = Cr("cogs", worth)
  OBVIOUS
<1>2. /\ IsCredit(l, "accounts_receivable", total) /\ IsDebit(m, "sales_returns", rest)
      /\ IsDebit(n, "sales_tax_payable", tax)
      /\ IsDebit(p, "inventory", worth) /\ IsCredit(q, "cogs", worth)
  <2>1. {"accounts_receivable", "sales_returns", "sales_tax_payable", "inventory", "cogs"}
          \subseteq BookAccounts
    BY DEF BookAccounts
  <2> QED
    BY <1>1, <2>1, LinesOfJournals
<1>3. /\ l \in JournalLines /\ m \in JournalLines /\ n \in JournalLines
      /\ p \in JournalLines /\ q \in JournalLines
  BY ONLY <1>2 DEF IsDebit, IsCredit
<1> PICK A, B, C, D : /\ A = <<l>> /\ B = A \o IfAny(m) /\ C = B \o IfAny(n) /\ D = C \o IfAny(p)
  OBVIOUS
<1>4. J = D \o IfAny(q)
  BY DEF CreditNoteLines
<1>5. Starts(A, l)
  BY ONLY <1>3, A = <<l>>, PartsOfJournals
<1>6. A \in Seq(JournalLines)
  BY ONLY <1>5 DEF Starts
<1>7. JoinsIfAny(B, A, m)
  BY ONLY <1>3, <1>6, B = A \o IfAny(m), PartsOfJournals
<1>8. B \in Seq(JournalLines)
  BY ONLY <1>7 DEF JoinsIfAny
<1>9. JoinsIfAny(C, B, n)
  BY ONLY <1>3, <1>8, C = B \o IfAny(n), PartsOfJournals
<1>10. C \in Seq(JournalLines)
  BY ONLY <1>9 DEF JoinsIfAny
<1>11. JoinsIfAny(D, C, p)
  BY ONLY <1>3, <1>10, D = C \o IfAny(p), PartsOfJournals
<1>12. D \in Seq(JournalLines)
  BY ONLY <1>11 DEF JoinsIfAny
<1>13. JoinsIfAny(J, D, q)
  BY ONLY <1>3, <1>4, <1>12, PartsOfJournals
<1>14. AllSound(J) <=> /\ total > 0 /\ (rest = 0 \/ rest > 0) /\ (tax = 0 \/ tax > 0)
                       /\ (worth = 0 \/ Money(worth) > 0)
  <2>1. AllSound(J) <=> /\ IsSound(l) /\ (IsEmpty(m) \/ IsSound(m)) /\ (IsEmpty(n) \/ IsSound(n))
                        /\ (IsEmpty(p) \/ IsSound(p)) /\ (IsEmpty(q) \/ IsSound(q))
    BY ONLY <1>5, <1>7, <1>9, <1>11, <1>13 DEF Starts, JoinsIfAny
  <2> QED
    BY ONLY <1>1, <1>2, <2>1 DEF IsDebit, IsCredit
<1>15. \A w \in Weights : Ignores(w) => Weigh(w, J) = w[l] + w[m] + w[n] + w[p] + w[q]
  BY ONLY <1>5, <1>7, <1>9, <1>11, <1>13 DEF Starts, JoinsIfAny
<1>16. Weigh(Debits, J) = rest + tax + Money(worth) /\ Weigh(Credits, J) = total + Money(worth)
  <2>1. /\ Weigh(Debits, J) = Debits[l] + Debits[m] + Debits[n] + Debits[p] + Debits[q]
        /\ Weigh(Credits, J) = Credits[l] + Credits[m] + Credits[n] + Credits[p] + Credits[q]
    BY ONLY <1>15, JournalWeights
  <2> QED
    BY ONLY <1>1, <1>2, <2>1 DEF IsDebit, IsCredit
<1>17. Len(J) = 1 + (IF rest = 0 THEN 0 ELSE 1) + (IF tax = 0 THEN 0 ELSE 1)
                  + (IF worth = 0 THEN 0 ELSE 1) + (IF worth = 0 THEN 0 ELSE 1)
  BY ONLY <1>2, <1>5, <1>7, <1>9, <1>11, <1>13 DEF IsDebit, IsCredit, Starts, JoinsIfAny
<1>18. J \in Seq(JournalLines)
  BY ONLY <1>13 DEF JoinsIfAny
<1>19. d.worth >= 0 => (Accepted(J) <=> IsPriced(d) /\ IsCosted(d))
  <2>1. Weigh(Debits, J) = Weigh(Credits, J)
    BY ONLY <1>1, <1>16
  <2>2. CASE Len(J) = 1
    <3>1. rest = 0 /\ tax = 0
      <4> PICK k : k = Len(J)
        OBVIOUS
      <4>1. k = 1 /\ k = 1 + (IF rest = 0 THEN 0 ELSE 1) + (IF tax = 0 THEN 0 ELSE 1)
                        + (IF worth = 0 THEN 0 ELSE 1) + (IF worth = 0 THEN 0 ELSE 1)
        BY ONLY <1>17, <2>2, k = Len(J)
      <4> QED
        BY ONLY <4>1
    <3>2. ~IsPriced(d)
      BY ONLY <1>1, <3>1
    <3>3. ~Accepted(J)
      BY ONLY <1>18, <2>2, SingleIsRefused
    <3> QED
      BY ONLY <3>2, <3>3
  <2>3. CASE Len(J) # 1
    <3>1. Accepted(J) <=> AllSound(J)
      BY ONLY <1>18, <2>1, <2>3, BalancedIsAccepted
    <3>2. d.worth >= 0 => (IsCosted(d) <=> worth = 0 \/ Money(worth) > 0)
      BY <1>1 DEF IsCosted
    <3>3. AllSound(J) <=> IsPriced(d) /\ (worth = 0 \/ Money(worth) > 0)
      BY ONLY <1>1, <1>14
    <3> QED
      BY ONLY <3>1, <3>2, <3>3
  <2> QED
    BY ONLY <2>2, <2>3
<1>20. ASSUME NEW e
       PROVE  Weigh(OnAccount(e), J) =
                - At("accounts_receivable", e, total) + At("sales_returns", e, rest)
                  + At("sales_tax_payable", e, tax)
                  + At("inventory", e, Money(worth)) - At("cogs", e, Money(worth))
  <2> PICK w \in Weights : w = OnAccount(e) /\ Ignores(w)
    BY JournalWeights
  <2>1. Weigh(w, J) = w[l] + w[m] + w[n] + w[p] + w[q]
    BY <1>15
  <2>2. /\ w[l] = At("accounts_receivable", e, - total) /\ w[m] = At("sales_returns", e, rest)
        /\ w[n] = At("sales_tax_payable", e, tax) /\ w[p] = At("inventory", e, Money(worth))
        /\ w[q] = At("cogs", e, - Money(worth))
    BY <1>1, <1>2 DEF IsDebit, IsCredit
  <2>3. /\ At("accounts_receivable", e, - total) = - At("accounts_receivable", e, total)
        /\ At("cogs", e, - Money(worth)) = - At("cogs", e, Money(worth))
    BY <1>1 DEF At
  <2>4. /\ At("accounts_receivable", e, total) \in Int /\ At("sales_returns", e, rest) \in Int
        /\ At("sales_tax_payable", e, tax) \in Int /\ At("cogs", e, Money(worth)) \in Int
        /\ At("inventory", e, Money(worth)) \in Int
    BY <1>1 DEF At
  <2> QED
    BY ONLY <2>1, <2>2, <2>3, <2>4, w = OnAccount(e)
<1> QED
  BY <1>18, <1>19, <1>20

LEMMA BillJournal ==
  ASSUME NEW d, IsStated(d)
  PROVE  /\ PurchaseTarget(d) \in BookAccounts
         /\ BillLines(d) \in Seq(JournalLines)
         /\ Accepted(BillLines(d)) <=> IsPriced(d)
         /\ \A e : Weigh(OnAccount(e), BillLines(d)) =
               At(PurchaseTarget(d), e, d.total - d.tax) + At("input_tax", e, d.tax)
                 - At("accounts_payable", e, d.total)
<1> PICK total, tax, rest, target, J :
      /\ total = d.total /\ tax = d.tax /\ rest = d.total - d.tax
      /\ target = PurchaseTarget(d) /\ J = BillLines(d)
  OBVIOUS
<1>0. target \in BookAccounts
  BY DEF PurchaseTarget, BookAccounts
<1>1. /\ total \in Int /\ tax \in Int /\ rest \in Int /\ rest = total - tax
      /\ Money(total) = total /\ Money(tax) = tax /\ Money(rest) = rest
      /\ IsPriced(d) <=> total > 0 /\ rest >= 0
      /\ tax >= 0
  BY StatedAmounts DEF IsStated
<1> PICK l, m, n : /\ l = Dr(target, rest) /\ m = Dr("input_tax", tax)
                   /\ n = Cr("accounts_payable", total)
  OBVIOUS
<1>2. IsDebit(l, target, rest) /\ IsDebit(m, "input_tax", tax) /\ IsCredit(n, "accounts_payable", total)
  <2>1. "input_tax" \in BookAccounts /\ "accounts_payable" \in BookAccounts
    BY DEF BookAccounts
  <2> QED
    BY <1>0, <1>1, <2>1, LinesOfJournals
<1>3. l \in JournalLines /\ m \in JournalLines /\ n \in JournalLines
  BY ONLY <1>2 DEF IsDebit, IsCredit
<1> PICK A, B, C : A = IfAny(l) /\ B = A \o IfAny(m) /\ C = <<n>>
  OBVIOUS
<1>4. J = B \o C
  BY DEF BillLines
<1>5. /\ A \in Seq(JournalLines) /\ Len(A) = (IF rest = 0 THEN 0 ELSE 1)
      /\ AllSound(A) <=> IsEmpty(l) \/ IsSound(l)
      /\ \A w \in Weights : Ignores(w) => Weigh(w, A) = w[l]
  <2>1. Len(IfAny(l)) = (IF rest = 0 THEN 0 ELSE 1)
    BY ONLY <1>2 DEF IsDebit
  <2> QED
    BY ONLY <1>3, <2>1, A = IfAny(l), OptionalLine
<1>6. JoinsIfAny(B, A, m)
  BY ONLY <1>3, <1>5, B = A \o IfAny(m), PartsOfJournals
<1>7. Starts(C, n)
  BY ONLY <1>3, C = <<n>>, PartsOfJournals
<1>8. B \in Seq(JournalLines) /\ C \in Seq(JournalLines)
  BY ONLY <1>6, <1>7 DEF JoinsIfAny, Starts
<1>9. Joins(J, B, C)
  BY ONLY <1>4, <1>8, PartsOfJournals
<1>10. AllSound(J) <=> total > 0 /\ (rest = 0 \/ rest > 0) /\ (tax = 0 \/ tax > 0)
  <2>1. AllSound(J) <=> /\ (IsEmpty(l) \/ IsSound(l)) /\ (IsEmpty(m) \/ IsSound(m)) /\ IsSound(n)
    BY ONLY <1>5, <1>6, <1>7, <1>9 DEF Starts, JoinsIfAny, Joins
  <2> QED
    BY ONLY <1>1, <1>2, <2>1 DEF IsDebit, IsCredit
<1>11. \A w \in Weights : Ignores(w) => Weigh(w, J) = w[l] + w[m] + w[n]
  BY ONLY <1>5, <1>6, <1>7, <1>9 DEF Starts, JoinsIfAny, Joins
<1>12. Weigh(Debits, J) = rest + tax /\ Weigh(Credits, J) = total
  <2>1. /\ Weigh(Debits, J) = Debits[l] + Debits[m] + Debits[n]
        /\ Weigh(Credits, J) = Credits[l] + Credits[m] + Credits[n]
    BY ONLY <1>11, JournalWeights
  <2> QED
    BY ONLY <1>1, <1>2, <2>1 DEF IsDebit, IsCredit
<1>13. Len(J) = (IF rest = 0 THEN 0 ELSE 1) + (IF tax = 0 THEN 0 ELSE 1) + 1
  BY ONLY <1>2, <1>5, <1>6, <1>7, <1>9 DEF IsDebit, Starts, JoinsIfAny, Joins
<1>14. J \in Seq(JournalLines)
  BY ONLY <1>9 DEF Joins
<1>15. Accepted(J) <=> IsPriced(d)
  <2>1. Weigh(Debits, J) = Weigh(Credits, J)
    BY ONLY <1>1, <1>12
  <2>2. CASE Len(J) = 1
    <3>1. rest = 0 /\ tax = 0
      <4> PICK k : k = Len(J)
        OBVIOUS
      <4>1. k = 1 /\ k = (IF rest = 0 THEN 0 ELSE 1) + (IF tax = 0 THEN 0 ELSE 1) + 1
        BY ONLY <1>13, <2>2, k = Len(J)
      <4> QED
        BY ONLY <4>1
    <3>2. ~IsPriced(d)
      BY ONLY <1>1, <3>1
    <3>3. ~Accepted(J)
      BY ONLY <1>14, <2>2, SingleIsRefused
    <3> QED
      BY ONLY <3>2, <3>3
  <2>3. CASE Len(J) # 1
    <3>1. Accepted(J) <=> AllSound(J)
      BY ONLY <1>14, <2>1, <2>3, BalancedIsAccepted
    <3>2. AllSound(J) <=> IsPriced(d)
      BY ONLY <1>1, <1>10
    <3> QED
      BY ONLY <3>1, <3>2
  <2> QED
    BY ONLY <2>2, <2>3
<1>16. ASSUME NEW e
       PROVE  Weigh(OnAccount(e), J) =
                At(target, e, rest) + At("input_tax", e, tax) - At("accounts_payable", e, total)
  <2> PICK w \in Weights : w = OnAccount(e) /\ Ignores(w)
    BY JournalWeights
  <2>1. Weigh(w, J) = w[l] + w[m] + w[n]
    BY <1>11
  <2>2. /\ w[l] = At(target, e, rest) /\ w[m] = At("input_tax", e, tax)
        /\ w[n] = At("accounts_payable", e, - total)
    BY <1>1, <1>2 DEF IsDebit, IsCredit
  <2>3. At("accounts_payable", e, - total) = - At("accounts_payable", e, total)
    BY <1>1 DEF At
  <2>4. /\ At(target, e, rest) \in Int /\ At("input_tax", e, tax) \in Int
        /\ At("accounts_payable", e, total) \in Int
    BY <1>1 DEF At
  <2> QED
    BY ONLY <2>1, <2>2, <2>3, <2>4, w = OnAccount(e)
<1> QED
  BY <1>0, <1>14, <1>15, <1>16

\* An adjustment or an opening balance: one side or the other, if there is a value.
LEMMA ValueJournal ==
  ASSUME NEW offset \in BookAccounts, NEW value \in Int
  PROVE  /\ ValueLines(offset, value) \in Seq(JournalLines)
         /\ Accepted(ValueLines(offset, value)) <=> value = 0 \/ Money(value) # 0
         /\ \A e : Weigh(OnAccount(e), ValueLines(offset, value)) =
               At("inventory", e, Money(value)) - At(offset, e, Money(value))
<1>0. "inventory" \in BookAccounts /\ Money(0) = 0 /\ Money(value) \in Int
  BY MoneyFacts DEF BookAccounts
<1>1. CASE value = 0
  <2>1. ValueLines(offset, value) = <<>>
    BY <1>1 DEF ValueLines
  <2>2. Accepted(<<>>) /\ <<>> \in Seq(JournalLines)
    BY DEF Accepted
  <2>3. \A e : Weigh(OnAccount(e), <<>>) = At("inventory", e, Money(value)) - At(offset, e, Money(value))
    BY <1>0, <1>1, WeighNone DEF At
  <2> QED
    BY <1>1, <2>1, <2>2, <2>3
<1>2. CASE value > 0
  <2>1. ValueLines(offset, value) = <<Dr("inventory", value), Cr(offset, value)>>
    BY <1>2 DEF ValueLines
  <2>2. IsWholePair(ValueLines(offset, value), "inventory", offset, value)
    BY ONLY <1>0, <2>1, offset \in BookAccounts, value \in Int, PairOfLines
  <2>3. Money(value) >= 0
    BY <1>2, MoneyFacts
  <2> QED
    BY ONLY <1>0, <1>2, <2>2, <2>3 DEF IsWholePair
<1>3. CASE value < 0
  <2> PICK c \in Int : c = - value
    OBVIOUS
  <2>1. ValueLines(offset, value) = <<Dr(offset, c), Cr("inventory", c)>>
    BY <1>3 DEF ValueLines
  <2>2. IsWholePair(ValueLines(offset, value), offset, "inventory", c)
    BY ONLY <1>0, <2>1, offset \in BookAccounts, c \in Int, PairOfLines
  <2>3. Money(c) >= 0 /\ Money(c) = - Money(value) /\ Money(c) \in Int
    BY <1>3, MoneyFacts
  <2>4. Money(c) > 0 <=> Money(value) # 0
    BY ONLY <1>0, <2>3
  <2>5. \A e : At(offset, e, Money(c)) - At("inventory", e, Money(c)) =
               At("inventory", e, Money(value)) - At(offset, e, Money(value))
    BY ONLY <1>0, <2>3 DEF At
  <2>6. value # 0
    BY <1>3
  <2> QED
    BY ONLY <2>2, <2>4, <2>5, <2>6 DEF IsWholePair
<1> QED
  BY <1>1, <1>2, <1>3

\* The lines of an expense that are for its amounts.
LEMMA AmountLines ==
  ASSUME NEW n \in Nat, NEW net, DOMAIN net = 1..n, \A i \in 1..n : net[i] \in Whole,
         NEW F, F = FlattenSeq([i \in 1..n |-> IfAny(Dr("operating_expenses", net[i]))])
  PROVE  /\ F \in Seq(JournalLines)
         /\ AllSound(F) <=> \A i \in 1..n : net[i] >= 0
         /\ Weigh(Debits, F) = Total(net) /\ Weigh(Credits, F) = 0
         /\ \A e : Weigh(OnAccount(e), F) = At("operating_expenses", e, Total(net))
<1> PICK ss : ss = [i \in 1..n |-> IfAny(Dr("operating_expenses", net[i]))]
  OBVIOUS
<1> PICK D : D = 1..n
  OBVIOUS
<1>0. IsFiniteSet(D) /\ Total(net) = SumOf(net, D)
  BY FS_Interval, TotalIsSum
<1>1. \A i \in D : net[i] \in Int /\ Money(net[i]) = net[i]
  BY WholeCents
<1>2. \A i \in D : IsDebit(Dr("operating_expenses", net[i]), "operating_expenses", net[i])
  <2>1. "operating_expenses" \in BookAccounts
    BY DEF BookAccounts
  <2> QED
    BY <1>1, <2>1, LinesOfJournals
<1>3. /\ \A i \in D : ss[i] \in Seq(JournalLines)
      /\ \A i \in D : AllSound(ss[i]) <=> net[i] >= 0
      /\ \A i \in D : Weigh(Debits, ss[i]) = net[i] /\ Weigh(Credits, ss[i]) = 0
      /\ \A i \in D : \A e : Weigh(OnAccount(e), ss[i]) = At("operating_expenses", e, net[i])
  <2> SUFFICES ASSUME NEW i \in D
               PROVE  /\ ss[i] \in Seq(JournalLines)
                      /\ AllSound(ss[i]) <=> net[i] >= 0
                      /\ Weigh(Debits, ss[i]) = net[i] /\ Weigh(Credits, ss[i]) = 0
                      /\ \A e : Weigh(OnAccount(e), ss[i]) = At("operating_expenses", e, net[i])
    OBVIOUS
  <2> PICK x, l : x = net[i] /\ l = Dr("operating_expenses", x)
    OBVIOUS
  <2>1. x \in Int /\ Money(x) = x /\ IsDebit(l, "operating_expenses", x)
    BY <1>1, <1>2
  <2>2. ss[i] = IfAny(l) /\ l \in JournalLines
    BY <2>1 DEF IsDebit
  <2>3. /\ IfAny(l) \in Seq(JournalLines)
        /\ AllSound(IfAny(l)) <=> IsEmpty(l) \/ IsSound(l)
        /\ \A w \in Weights : Ignores(w) => Weigh(w, IfAny(l)) = w[l]
    BY ONLY <2>2, OptionalLine
  <2>4. AllSound(IfAny(l)) <=> x >= 0
    BY ONLY <2>1, <2>3 DEF IsDebit
  <2>5. Weigh(Debits, IfAny(l)) = x /\ Weigh(Credits, IfAny(l)) = 0
    BY ONLY <2>1, <2>3, JournalWeights DEF IsDebit
  <2>6. ASSUME NEW e PROVE Weigh(OnAccount(e), IfAny(l)) = At("operating_expenses", e, x)
    BY ONLY <2>1, <2>3, JournalWeights DEF IsDebit
  <2> QED
    BY ONLY <2>2, <2>3, <2>4, <2>5, <2>6, x = net[i]
<1>4. ss \in Seq(Seq(JournalLines)) /\ DOMAIN ss = D
  <2>1. \A i \in 1..n : ss[i] \in Seq(JournalLines)
    BY <1>3
  <2> QED
    BY ONLY <2>1, n \in Nat, D = 1..n,
            ss = [i \in 1..n |-> IfAny(Dr("operating_expenses", net[i]))]
<1>5. /\ F \in Seq(JournalLines)
      /\ AllSound(F) <=> \A i \in D : AllSound(ss[i])
      /\ \A w \in Weights : Weigh(w, F) = SumOf([i \in D |-> Weigh(w, ss[i])], D)
  BY <1>4, FlatWeighs
<1>6. AllSound(F) <=> \A i \in D : net[i] >= 0
  BY ONLY <1>3, <1>5
<1>7. ASSUME NEW w \in Weights, NEW g, \A i \in D : Weigh(w, ss[i]) = g[i]
      PROVE  Weigh(w, F) = SumOf(g, D)
  <2> PICK f : f = [i \in D |-> Weigh(w, ss[i])]
    OBVIOUS
  <2>1. \A i \in D : f[i] = g[i]
    BY <1>7
  <2>2. SumOf(f, D) = SumOf(g, D)
    BY ONLY <1>0, <2>1, SumsAgree
  <2> QED
    BY <1>5, <2>2
<1> PICK zero : zero = [i \in D |-> 0]
  OBVIOUS
<1>8. SumOf(zero, D) = 0
  BY <1>0, SumOfZeros
<1>9. Weigh(Debits, F) = SumOf(net, D) /\ Weigh(Credits, F) = 0
  <2>1. Debits \in Weights /\ Credits \in Weights
    BY JournalWeights
  <2>2. Weigh(Debits, F) = SumOf(net, D)
    BY ONLY <1>3, <1>7, <2>1
  <2>3. \A i \in D : Weigh(Credits, ss[i]) = zero[i]
    BY <1>3
  <2>4. Weigh(Credits, F) = SumOf(zero, D)
    BY ONLY <1>7, <2>1, <2>3
  <2> QED
    BY <1>8, <2>2, <2>4
<1>10. ASSUME NEW e PROVE Weigh(OnAccount(e), F) = At("operating_expenses", e, SumOf(net, D))
  <2>1. OnAccount(e) \in Weights
    BY JournalWeights
  <2>2. CASE e = "operating_expenses"
    <3>1. \A i \in D : Weigh(OnAccount(e), ss[i]) = net[i]
      BY <1>3, <2>2 DEF At
    <3>2. Weigh(OnAccount(e), F) = SumOf(net, D)
      BY ONLY <1>7, <2>1, <3>1
    <3> QED
      BY <2>2, <3>2 DEF At
  <2>3. CASE e # "operating_expenses"
    <3>1. \A i \in D : Weigh(OnAccount(e), ss[i]) = zero[i]
      BY <1>3, <2>3 DEF At
    <3>2. Weigh(OnAccount(e), F) = SumOf(zero, D)
      BY ONLY <1>7, <2>1, <3>1
    <3> QED
      BY <1>8, <2>3, <3>2 DEF At
  <2> QED
    BY <2>2, <2>3
<1> QED
  BY <1>0, <1>5, <1>6, <1>9, <1>10

\* The tax that an expense enters.
TaxEntered(p) == IF ExpenseTotal(p) > 0 THEN p.tax ELSE 0

LEMMA ExpenseJournal ==
  ASSUME NEW p, IsExpense(p)
  PROVE  /\ ExpenseLines(p) \in Seq(JournalLines)
         /\ Accepted(ExpenseLines(p)) <=> \A i \in DOMAIN p.amounts : NetOf(p)[i] >= 0
         /\ \A e : Weigh(OnAccount(e), ExpenseLines(p)) =
               At("operating_expenses", e, ExpenseTotal(p) - TaxEntered(p))
                 + At("input_tax", e, TaxEntered(p)) - At("bank", e, ExpenseTotal(p))
<1> PICK total, tax, net, n, J :
      /\ total = ExpenseTotal(p) /\ tax = p.tax /\ net = NetOf(p) /\ n = Len(p.amounts)
      /\ J = ExpenseLines(p)
  OBVIOUS
<1>1. /\ n \in Nat /\ DOMAIN p.amounts = 1..n
      /\ total \in Whole /\ total >= 0 /\ tax \in Whole /\ tax >= 0
      /\ DOMAIN net = 1..n /\ \A i \in 1..n : net[i] \in Whole
      /\ total > 0 => Total(net) + tax = total
      /\ ~(total > 0) => \A i \in 1..n : net[i] >= 0
  BY ExpenseAmounts, NetOfExpense
<1>2. total \in Int /\ tax \in Int /\ Money(total) = total /\ Money(tax) = tax
  BY <1>1, WholeCents
<1>3. CASE ~(total > 0)
  <2>1. J = <<>> /\ total = 0
    BY <1>1, <1>2, <1>3 DEF ExpenseLines
  <2>2. Accepted(<<>>) /\ <<>> \in Seq(JournalLines)
    BY DEF Accepted
  <2>3. TaxEntered(p) = 0
    BY <1>3 DEF TaxEntered
  <2>4. \A e : /\ At("operating_expenses", e, 0 - 0) = 0 /\ At("input_tax", e, 0) = 0
               /\ At("bank", e, 0) = 0
    BY DEF At
  <2>5. \A e : Weigh(OnAccount(e), <<>>) =
               At("operating_expenses", e, total - TaxEntered(p))
                 + At("input_tax", e, TaxEntered(p)) - At("bank", e, total)
    BY <2>1, <2>3, <2>4, WeighNone
  <2> QED
    BY <1>1, <1>3, <2>1, <2>2, <2>5
<1>4. CASE total > 0
  <2> PICK F, l, m : /\ F = FlattenSeq([i \in 1..n |-> IfAny(Dr("operating_expenses", net[i]))])
                     /\ l = Dr("input_tax", tax) /\ m = Cr("bank", total)
    OBVIOUS
  <2>0. F = FlattenSeq([i \in 1..n |-> IfAny(Dr("operating_expenses", net[i]))])
    OBVIOUS
  <2> PICK B, C : B = F \o IfAny(l) /\ C = <<m>>
    OBVIOUS
  <2>1. J = B \o C
    <3>1. DOMAIN net = 1..n
      BY ONLY <1>1
    <3>2. ExpenseLines(p) =
            IF ExpenseTotal(p) <= 0 THEN <<>>
            ELSE FlattenSeq([i \in DOMAIN NetOf(p) |-> IfAny(Dr("operating_expenses", NetOf(p)[i]))])
                   \o IfAny(Dr("input_tax", p.tax)) \o <<Cr("bank", ExpenseTotal(p))>>
      BY ONLY TRUE DEF ExpenseLines, Each, NetOf
    <3>3. ~(total <= 0)
      BY ONLY <1>1, <1>2, <1>4
    <3>4. J = FlattenSeq([i \in DOMAIN net |-> IfAny(Dr("operating_expenses", net[i]))])
                \o IfAny(l) \o <<m>>
      BY <3>2, <3>3, Zenon
    <3>5. J = F \o IfAny(l) \o <<m>>
      BY <2>0, <3>1, <3>4, Zenon
    <3> QED
      BY <3>5, Zenon
  <2>2. /\ F \in Seq(JournalLines)
        /\ AllSound(F) <=> \A i \in 1..n : net[i] >= 0
        /\ Weigh(Debits, F) = Total(net) /\ Weigh(Credits, F) = 0
        /\ \A e : Weigh(OnAccount(e), F) = At("operating_expenses", e, Total(net))
    <3>1. n \in Nat /\ DOMAIN net = 1..n /\ \A i \in 1..n : net[i] \in Whole
      BY ONLY <1>1
    <3> QED
      BY ONLY <2>0, <3>1, AmountLines
  <2>3. IsDebit(l, "input_tax", tax) /\ IsCredit(m, "bank", total)
    <3>1. "input_tax" \in BookAccounts /\ "bank" \in BookAccounts
      BY DEF BookAccounts
    <3> QED
      BY <1>2, <3>1, LinesOfJournals
  <2>4. l \in JournalLines /\ m \in JournalLines
    BY ONLY <2>3 DEF IsDebit, IsCredit
  <2>5. JoinsIfAny(B, F, l) /\ Starts(C, m)
    BY ONLY <2>2, <2>4, B = F \o IfAny(l), C = <<m>>, PartsOfJournals
  <2>6. B \in Seq(JournalLines) /\ C \in Seq(JournalLines)
    BY ONLY <2>5 DEF JoinsIfAny, Starts
  <2>7. Joins(J, B, C)
    BY ONLY <2>1, <2>6, PartsOfJournals
  <2>8. J \in Seq(JournalLines)
    BY ONLY <2>7 DEF Joins
  <2>9. AllSound(J) <=> \A i \in 1..n : net[i] >= 0
    <3>1. AllSound(J) <=> AllSound(F) /\ (IsEmpty(l) \/ IsSound(l)) /\ IsSound(m)
      BY ONLY <2>5, <2>7 DEF JoinsIfAny, Starts, Joins
    <3>2. (IsEmpty(l) \/ IsSound(l)) /\ IsSound(m)
      BY ONLY <1>1, <1>2, <1>4, <2>3 DEF IsDebit, IsCredit
    <3> QED
      BY ONLY <2>2, <3>1, <3>2
  <2>10. \A w \in Weights : Ignores(w) => /\ Weigh(w, B) = Weigh(w, F) + w[l]
                                          /\ Weigh(w, J) = Weigh(w, F) + w[l] + w[m]
    BY ONLY <2>5, <2>7 DEF JoinsIfAny, Starts, Joins
  <2>11. /\ Weigh(Debits, B) = total
         /\ Weigh(Debits, J) = total /\ Weigh(Credits, J) = total
    <3>1. /\ Weigh(Debits, B) = Weigh(Debits, F) + Debits[l]
          /\ Weigh(Debits, J) = Weigh(Debits, F) + Debits[l] + Debits[m]
          /\ Weigh(Credits, J) = Weigh(Credits, F) + Credits[l] + Credits[m]
      BY ONLY <2>10, JournalWeights
    <3>2. /\ Debits[l] = tax /\ Credits[l] = 0 /\ Debits[m] = 0 /\ Credits[m] = total
      BY ONLY <1>2, <2>3 DEF IsDebit, IsCredit
    <3>3. Total(net) \in Int
      <4>1. IsFiniteSet(DOMAIN net)
        BY <1>1, FS_Interval
      <4> QED
        BY <1>1, <4>1, TotalOfWhole, WholeCents
    <3> QED
      BY ONLY <1>1, <1>2, <1>4, <2>2, <3>1, <3>2, <3>3
  <2>12. Len(J) # 1
    <3>1. B # <<>>
      <4>1. Weigh(Debits, <<>>) = 0
        BY WeighNone
      <4> QED
        BY ONLY <1>4, <2>11, <4>1
    <3>2. Len(B) # 0
      BY ONLY <2>6, <3>1
    <3>3. Len(J) = Len(B) + 1
      BY ONLY <2>5, <2>7 DEF Starts, Joins
    <3>4. Len(B) \in Nat
      BY ONLY <2>6
    <3> QED
      BY ONLY <3>2, <3>3, <3>4
  <2>13. Accepted(J) <=> \A i \in 1..n : net[i] >= 0
    <3>1. Weigh(Debits, J) = Weigh(Credits, J)
      BY ONLY <2>11
    <3>2. Accepted(J) <=> AllSound(J)
      BY ONLY <2>8, <2>12, <3>1, BalancedIsAccepted
    <3> QED
      BY ONLY <2>9, <3>2
  <2>14. TaxEntered(p) = tax
    BY <1>4 DEF TaxEntered
  <2>15. Total(net) = total - tax
    <3>1. Total(net) \in Int
      <4>1. IsFiniteSet(DOMAIN net)
        BY <1>1, FS_Interval
      <4> QED
        BY <1>1, <4>1, TotalOfWhole, WholeCents
    <3> QED
      BY ONLY <1>1, <1>2, <1>4, <3>1
  <2>16. ASSUME NEW e
         PROVE  Weigh(OnAccount(e), J) =
                  At("operating_expenses", e, total - tax) + At("input_tax", e, tax) - At("bank", e, total)
    <3> PICK w \in Weights : w = OnAccount(e) /\ Ignores(w)
      BY JournalWeights
    <3>1. Weigh(w, J) = Weigh(w, F) + w[l] + w[m]
      BY <2>10
    <3>2. /\ Weigh(w, F) = At("operating_expenses", e, total - tax)
          /\ w[l] = At("input_tax", e, tax) /\ w[m] = At("bank", e, - total)
      BY <1>2, <2>2, <2>3, <2>15 DEF IsDebit, IsCredit
    <3>3. At("bank", e, - total) = - At("bank", e, total)
      BY <1>2 DEF At
    <3>4. /\ At("operating_expenses", e, total - tax) \in Int /\ At("input_tax", e, tax) \in Int
          /\ At("bank", e, total) \in Int
      BY <1>2 DEF At
    <3> QED
      BY ONLY <3>1, <3>2, <3>3, <3>4, w = OnAccount(e)
  <2> QED
    BY <1>1, <2>8, <2>13, <2>14, <2>16
<1> QED
  BY <1>3, <1>4

-----------------------------------------------------------------------------
(* The papers of a chain.                                                    *)

Sold    == {"delivery_challan", "invoice", "sales_receipt"}
Gotten  == {"credit_note", "goods_receipt", "bill"}
Valued  == {"stock_adjustment", "stock_opening"}
Kinds   == Sold \cup Gotten \cup Valued \cup {"expense", "commission"}

LEMMA Directions ==
  \A t \in Kinds : /\ Direction(t) \in Int
                   /\ Direction(t) = -1 <=> t \in Sold
                   /\ Direction(t) = 1 <=> t \in Gotten
                   /\ Direction(t) = 0 <=> t \notin Sold /\ t \notin Gotten
                   /\ PricedAtCost(t) <=> t \in {"goods_receipt", "bill"}
  BY DEF Kinds, Sold, Gotten, Valued, Direction, PricedAtCost

\* What is written on a paper, by its kind.
IsFilledIn(p, t) ==
    /\ t \in Kinds
    /\ Direction(t) # 0 => IsWritten(p)
    /\ t = "expense" => IsExpense(p)
    /\ t \in Valued => p.value \in Int
    /\ t = "commission" => p.value \in Nat \ {0}

\* What may stand at place i of a chain c, and what before it.
IsPlaced(c, i) ==
    /\ c[i] \in Kinds
    /\ i > 1 => Direction(c[i]) # 0
    /\ i > 1 /\ c[i] # "credit_note" =>
          i = 2 /\ Direction(c[1]) = Direction(c[2]) /\ c[2] \notin {"goods_receipt", "delivery_challan"}
    /\ c[i] = "credit_note" => \A j \in 1..(i - 1) : c[j] \in {"delivery_challan", "invoice"}
    /\ c[i] = "bill" /\ i > 1 => c[1] = "goods_receipt"

\* What the first paper of a chain says of the others.
IsLed(c) ==
    /\ Len(c) \in 1..3
    /\ c[1] = "goods_receipt" => Len(c) = 2 /\ c[2] = "bill"
    /\ c[1] \notin NoCost => \A i \in 1..Len(c) : c[i] \notin NoCost

LEMMA SingleChains ==
  ASSUME NEW c, NEW t \in Kinds, c = <<t>>, t # "goods_receipt"
  PROVE  Len(c) = 1 /\ c[1] = t /\ IsLed(c) /\ IsPlaced(c, 1)
<1>1. Len(c) = 1 /\ c[1] = t
  OBVIOUS
<1>2. \A i \in 1..Len(c) : i = 1
  BY <1>1
<1>3. IsLed(c)
  BY <1>1, <1>2 DEF IsLed
<1>4. IsPlaced(c, 1)
  BY <1>1 DEF IsPlaced
<1> QED
  BY <1>1, <1>3, <1>4

LEMMA ChainsAreLed ==
  ASSUME NEW c \in Chains
  PROVE  IsLed(c) /\ \A i \in 1..Len(c) : IsPlaced(c, i) /\ Direction(c[i]) # 0
<1>1. ASSUME NEW t, t \in {"credit_note", "sales_receipt", "bill"}, c = <<t>>
      PROVE  IsLed(c) /\ \A i \in 1..Len(c) : IsPlaced(c, i) /\ Direction(c[i]) # 0
  <2>1. t \in Kinds /\ t # "goods_receipt" /\ Direction(t) # 0
    BY <1>1 DEF Kinds, Sold, Gotten, Direction
  <2>2. Len(c) = 1 /\ c[1] = t /\ IsLed(c) /\ IsPlaced(c, 1)
    BY <1>1, <2>1, SingleChains
  <2> QED
    BY ONLY <2>1, <2>2
<1>2. CASE c = <<"delivery_challan", "invoice", "credit_note">>
  <2>1. Len(c) = 3 /\ c[1] = "delivery_challan" /\ c[2] = "invoice" /\ c[3] = "credit_note"
    BY <1>2
  <2>2. \A i \in 1..Len(c) : i = 1 \/ i = 2 \/ i = 3
    BY ONLY <2>1
  <2>3. IsLed(c)
    BY ONLY <2>1, <2>2 DEF IsLed, NoCost
  <2>4. /\ IsPlaced(c, 1) /\ IsPlaced(c, 2) /\ IsPlaced(c, 3)
        /\ Direction(c[1]) # 0 /\ Direction(c[2]) # 0 /\ Direction(c[3]) # 0
    BY ONLY <2>1 DEF IsPlaced, Direction, Kinds, Sold, Gotten
  <2> QED
    BY ONLY <2>2, <2>3, <2>4
<1>3. CASE c = <<"invoice", "credit_note">>
  <2>1. Len(c) = 2 /\ c[1] = "invoice" /\ c[2] = "credit_note"
    BY <1>3
  <2>2. \A i \in 1..Len(c) : i = 1 \/ i = 2
    BY ONLY <2>1
  <2>3. IsLed(c)
    BY ONLY <2>1, <2>2 DEF IsLed, NoCost
  <2>4. /\ IsPlaced(c, 1) /\ IsPlaced(c, 2)
        /\ Direction(c[1]) # 0 /\ Direction(c[2]) # 0
    BY ONLY <2>1 DEF IsPlaced, Direction, Kinds, Sold, Gotten
  <2> QED
    BY ONLY <2>2, <2>3, <2>4
<1>4. CASE c = <<"goods_receipt", "bill">>
  <2>1. Len(c) = 2 /\ c[1] = "goods_receipt" /\ c[2] = "bill"
    BY <1>4
  <2>2. \A i \in 1..Len(c) : i = 1 \/ i = 2
    BY ONLY <2>1
  <2>3. IsLed(c)
    BY ONLY <2>1, <2>2 DEF IsLed, NoCost
  <2>4. /\ IsPlaced(c, 1) /\ IsPlaced(c, 2)
        /\ Direction(c[1]) # 0 /\ Direction(c[2]) # 0
    BY ONLY <2>1 DEF IsPlaced, Direction, Kinds, Sold, Gotten
  <2> QED
    BY ONLY <2>2, <2>3, <2>4
<1>5. \/ c = <<"credit_note">> \/ c = <<"sales_receipt">> \/ c = <<"bill">>
      \/ c = <<"delivery_challan", "invoice", "credit_note">> \/ c = <<"invoice", "credit_note">>
      \/ c = <<"goods_receipt", "bill">>
  BY DEF Chains
<1> QED
  BY <1>1, <1>2, <1>3, <1>4, <1>5

LEMMA PapersAreChains ==
  ASSUME NEW p \in Papers
  PROVE  /\ IsLed(p.chain)
         /\ \A i \in 1..Len(p.chain) : IsPlaced(p.chain, i) /\ IsFilledIn(p, p.chain[i])
         /\ p.chain = <<"expense">> => Len(p.chain) = 1 /\ p.chain[1] = "expense"
<1> PICK c : c = p.chain
  OBVIOUS
<1>1. CASE c \in Chains /\ p.lines \in Seq(WrittenLines) /\ p.extra \in Int
  <2>1. IsLed(c) /\ \A i \in 1..Len(c) : IsPlaced(c, i) /\ Direction(c[i]) # 0
    BY <1>1, ChainsAreLed
  <2>2. IsWritten(p)
    BY <1>1 DEF IsWritten
  <2>3. ASSUME NEW i \in 1..Len(c) PROVE IsFilledIn(p, c[i])
    <3>1. c[i] \in Kinds /\ Direction(c[i]) # 0
      BY <2>1 DEF IsPlaced
    <3>2. c[i] \notin Valued /\ c[i] \notin {"expense", "commission"}
      BY ONLY <3>1 DEF Direction, Valued
    <3> QED
      BY ONLY <2>2, <3>1, <3>2 DEF IsFilledIn
  <2>4. c # <<"expense">>
    BY <1>1 DEF Chains
  <2> QED
    BY <2>1, <2>3, <2>4
<1>2. ASSUME NEW t \in Valued \cup {"expense", "commission"}, c = <<t>>, IsFilledIn(p, t)
      PROVE  /\ IsLed(c) /\ \A i \in 1..Len(c) : IsPlaced(c, i) /\ IsFilledIn(p, c[i])
             /\ c = <<"expense">> => Len(c) = 1 /\ c[1] = "expense"
  <2>1. t \in Kinds /\ t # "goods_receipt"
    BY DEF Kinds, Valued
  <2>2. Len(c) = 1 /\ c[1] = t /\ IsLed(c) /\ IsPlaced(c, 1)
    BY <1>2, <2>1, SingleChains
  <2>3. c = <<"expense">> => c[1] = "expense"
    OBVIOUS
  <2> QED
    BY ONLY <1>2, <2>2, <2>3
<1>3. CASE /\ c = <<"expense">> /\ p.inclusive \in BOOLEAN
           /\ p.tax \in Nat /\ p.tax % Cent = 0
           /\ p.amounts \in Seq(Nat) /\ \A i \in DOMAIN p.amounts : p.amounts[i] % Cent = 0
  <2>1. IsFilledIn(p, "expense")
    BY <1>3 DEF IsFilledIn, IsExpense, Kinds, Direction, Valued
  <2> QED
    BY <1>2, <1>3, <2>1
<1>4. CASE c \in {<<"stock_adjustment">>, <<"stock_opening">>} /\ p.value \in Int
  <2>1. IsFilledIn(p, "stock_adjustment") /\ IsFilledIn(p, "stock_opening")
    BY <1>4 DEF IsFilledIn, Kinds, Direction, Valued
  <2>2. "stock_adjustment" \in Valued /\ "stock_opening" \in Valued
    BY DEF Valued
  <2> QED
    BY <1>2, <1>4, <2>1, <2>2
<1>5. CASE c = <<"commission">> /\ p.value \in Nat \ {0}
  <2>1. IsFilledIn(p, "commission")
    BY <1>5 DEF IsFilledIn, Kinds, Direction, Valued
  <2> QED
    BY <1>2, <1>5, <2>1
<1> QED
  BY <1>1, <1>3, <1>4, <1>5, PostingAssumption

-----------------------------------------------------------------------------
(* The next paper of a chain, as it is drafted.                              *)

\* What a paper at place i of the chain of p says.
IsDrawnUp(p, i, d) ==
    /\ d.type = p.chain[i]
    /\ d.total \in Int /\ d.tax \in Int /\ d.worth \in Int /\ d.cost \in Nat
    /\ Direction(d.type) # 0 =>
          /\ IsStated(d)
          /\ d.total - d.tax = Total(Each(Taxable, p.lines)) + Cent * p.extra
          /\ d.movesGoods <=> i = 1 \/ d.type = "credit_note"
          /\ d.worth = IF d.movesGoods
                         THEN Direction(d.type) * GoodsAt(d.type, p.lines, d.cost) ELSE 0
    /\ Direction(d.type) = 0 => ~d.movesGoods
    /\ d.type = "expense" => d.total = ExpenseTotal(p) /\ d.worth = 0
    /\ d.type = "commission" => d.total \in Whole /\ d.total > 0 /\ d.worth = 0

\* What goes out is worth nothing more than zero, what comes in nothing less.
LEMMA WorthHasItsSign ==
  ASSUME NEW p \in Papers, NEW i \in 1..Len(p.chain), NEW d, IsDrawnUp(p, i, d)
  PROVE  /\ d.type \in Kinds
         /\ d.type \in Sold => IsStated(d) /\ d.worth <= 0
         /\ d.type \in Gotten => IsStated(d) /\ d.worth >= 0
         /\ d.worth < 0 /\ d.movesGoods => i = 1
<1> PICK t, c, g : t = d.type /\ c = d.cost /\ g = GoodsAt(t, p.lines, c)
  OBVIOUS
<1>1. t \in Kinds /\ (Direction(t) # 0 => IsWritten(p)) /\ IsPlaced(p.chain, i)
  BY PapersAreChains DEF IsDrawnUp, IsFilledIn
<1>2. /\ Direction(t) = -1 <=> t \in Sold
      /\ Direction(t) = 1 <=> t \in Gotten
      /\ Direction(t) = 0 <=> t \notin Sold /\ t \notin Gotten
  BY <1>1, Directions
<1>3. Direction(t) # 0 =>
        /\ IsStated(d)
        /\ d.movesGoods <=> i = 1 \/ t = "credit_note"
        /\ d.worth = IF d.movesGoods THEN Direction(t) * g ELSE 0
        /\ g \in Nat
  BY <1>1, GoodsAreNatural DEF IsDrawnUp
<1>4. t \in Sold => IsStated(d) /\ d.worth <= 0
  BY ONLY <1>2, <1>3, t \in Sold => Direction(t) = -1
<1>5. t \in Gotten => IsStated(d) /\ d.worth >= 0
  BY ONLY <1>2, <1>3
<1>6. d.worth < 0 /\ d.movesGoods => i = 1
  <2>1. Direction(t) = 0 => ~d.movesGoods
    BY DEF IsDrawnUp
  <2>2. t = "credit_note" => t \in Gotten
    BY DEF Gotten
  <2>3. t \in Gotten => ~(d.worth < 0)
    BY <1>5 DEF IsDrawnUp
  <2> QED
    BY ONLY <1>3, <2>1, <2>2, <2>3
<1> QED
  BY <1>1, <1>4, <1>5, <1>6

\* The papers so far say what they should.
AreDrawnUp ==
    /\ paper \in Papers /\ price \in Nat
    /\ Len(papers) \in Nat /\ DOMAIN papers = 1..Len(papers)
    /\ papers = <<>> <=> Len(papers) = 0
    /\ \A i \in 1..Len(papers) : IsDrawnUp(paper, i, papers[i])

LEMMA SourceOfNext ==
  ASSUME AreDrawnUp, NEW i \in 1..Len(paper.chain), i = Len(papers) + 1,
         NEW t, t = paper.chain[i], Direction(t) # 0
  PROVE  /\ SourceMovedGoods(t) <=> i = 2 /\ t # "credit_note"
         /\ MovesGoods(t) <=> i = 1 \/ t = "credit_note"
<1> PICK k : k = Len(papers)
  OBVIOUS
<1>1. k \in Nat /\ i = k + 1 /\ (papers = <<>> <=> k = 0) /\ Last(papers) = papers[k]
  BY DEF AreDrawnUp, Last
<1>2. \A j \in 1..Len(paper.chain) : IsPlaced(paper.chain, j)
  BY PapersAreChains DEF AreDrawnUp
<1>3. i > 1 => k \in 1..Len(paper.chain) /\ IsDrawnUp(paper, k, papers[k])
  BY <1>1, Len(papers) = k, Len(paper.chain) >= i DEF AreDrawnUp
<1>4. CASE i = 1
  BY <1>1, <1>4 DEF SourceMovedGoods, MovesGoods
<1>5. CASE i > 1 /\ t # "credit_note"
  <2>1. i = 2 /\ Direction(paper.chain[1]) = Direction(paper.chain[2]) /\ t = paper.chain[2]
    BY <1>2, <1>5 DEF IsPlaced
  <2>2. k = 1 /\ IsDrawnUp(paper, 1, papers[1])
    BY <1>1, <1>3, <2>1
  <2>3. papers[1].type = paper.chain[1] /\ Direction(papers[1].type) # 0 /\ papers[1].movesGoods
    BY <2>1, <2>2 DEF IsDrawnUp
  <2> QED
    BY <1>1, <1>5, <2>1, <2>2, <2>3 DEF SourceMovedGoods, MovesGoods
<1>6. CASE i > 1 /\ t = "credit_note"
  <2>1. k \in 1..(i - 1)
    BY <1>1, <1>6
  <2>2. papers[k].type \in {"delivery_challan", "invoice"}
    BY <1>2, <1>3, <1>6, <2>1 DEF IsPlaced, IsDrawnUp
  <2>3. Direction(papers[k].type) = -1 /\ Direction(t) = 1
    BY <1>6, <2>2 DEF Direction
  <2> QED
    BY <1>1, <1>6, <2>3 DEF SourceMovedGoods, MovesGoods
<1> QED
  BY <1>4, <1>5, <1>6

LEMMA NextIsDrawnUp ==
  ASSUME AreDrawnUp, NEW i \in 1..Len(paper.chain), i = Len(papers) + 1
  PROVE  /\ IsDrawnUp(paper, i, NextPaper)
         /\ Direction(NextPaper.type) # 0 =>
               (SourceMovedGoods(NextPaper.type) <=> i = 2 /\ NextPaper.type # "credit_note")
<1> PICK t, d : t = paper.chain[i] /\ d = NextPaper
  OBVIOUS
<1>1. IsFilledIn(paper, t) /\ IsPlaced(paper.chain, i)
  BY PapersAreChains DEF AreDrawnUp
<1>2. d = Draft(t) /\ price \in Nat
  BY DEF NextPaper, AreDrawnUp
<1>3. t \in Kinds
  BY <1>1 DEF IsFilledIn
<1>4. CASE Direction(t) # 0
  <2> PICK tax, total, rest :
        /\ tax = TaxTotal(t, paper.lines) /\ total = DocumentTotal(t, paper)
        /\ rest = Total(Each(Taxable, paper.lines)) + Cent * paper.extra
    OBVIOUS
  <2>1. d = [type |-> t, total |-> total, tax |-> tax,
             worth |-> StockValue(t, paper.lines), movesGoods |-> MovesGoods(t), cost |-> price]
    <3>0. t # "expense" /\ t # "commission"
      BY ONLY <1>4 DEF Direction
    <3>1. Draft(t) = [type |-> t, total |-> DocumentTotal(t, paper), tax |-> TaxTotal(t, paper.lines),
             worth |-> StockValue(t, paper.lines), movesGoods |-> MovesGoods(t), cost |-> price]
      BY ONLY <1>4, <3>0 DEF Draft
    <3> QED
      BY ONLY <1>2, <3>1, tax = TaxTotal(t, paper.lines), total = DocumentTotal(t, paper), Zenon
  <2>2. /\ d.type = t /\ d.total = total /\ d.tax = tax /\ d.cost = price
        /\ d.worth = StockValue(t, paper.lines) /\ d.movesGoods = MovesGoods(t)
    BY <2>1
  <2>3. IsWritten(paper)
    BY <1>1, <1>4 DEF IsFilledIn
  <2>4. tax \in Whole /\ tax >= 0 /\ total \in Whole /\ total - tax = rest
    BY <2>3, DocumentsArePriced DEF Priced
  <2>5. /\ SourceMovedGoods(t) <=> i = 2 /\ t # "credit_note"
        /\ MovesGoods(t) <=> i = 1 \/ t = "credit_note"
    BY <1>4, SourceOfNext
  <2>6. d.worth = IF MovesGoods(t) THEN Direction(t) * GoodsAt(t, paper.lines, price) ELSE 0
    BY <2>2, StockValueIs
  <2>7. d.worth \in Int
    <3>1. GoodsAt(t, paper.lines, price) \in Nat
      BY <1>2, <2>3, GoodsAreNatural
    <3>2. Direction(t) \in Int
      BY <1>3, Directions
    <3> QED
      BY ONLY <2>6, <3>1, <3>2
  <2>8. total \in Int /\ tax \in Int
    BY <2>4, WholeCents
  <2>9. t # "expense" /\ t # "commission"
    BY <1>4 DEF Direction
  <2>10. IsDrawnUp(paper, i, d)
    BY <1>2, <1>4, <2>2, <2>4, <2>5, <2>6, <2>7, <2>8, <2>9, t = paper.chain[i],
       rest = Total(Each(Taxable, paper.lines)) + Cent * paper.extra DEF IsDrawnUp, IsStated
  <2> QED
    BY <2>2, <2>5, <2>10
<1>5. CASE t = "expense"
  <2>1. Direction(t) = 0 /\ IsExpense(paper)
    BY <1>1, <1>5 DEF Direction, IsFilledIn
  <2>2. d = [type |-> t, total |-> ExpenseTotal(paper), tax |-> paper.tax,
             worth |-> 0, movesGoods |-> FALSE, cost |-> price]
    BY <1>2, <1>5, <2>1 DEF Draft
  <2>3. ExpenseTotal(paper) \in Int /\ paper.tax \in Int
    BY <2>1, ExpenseAmounts, WholeCents
  <2> QED
    BY <1>2, <1>5, <2>1, <2>2, <2>3 DEF IsDrawnUp
<1>6. CASE t = "commission"
  <2>1. Direction(t) = 0 /\ paper.value \in Nat \ {0}
    BY <1>1, <1>6 DEF Direction, IsFilledIn
  <2>2. d = [type |-> t, total |-> Cent * paper.value, tax |-> 0,
             worth |-> 0, movesGoods |-> FALSE, cost |-> price]
    BY <1>2, <1>6, <2>1 DEF Draft
  <2>3. Cent * paper.value \in Whole /\ Cent * paper.value > 0 /\ Cent * paper.value \in Int
    <3>1. Cent * paper.value \in Whole /\ Cent * paper.value \in Int
      <4>1. paper.value \in Int
        BY ONLY <2>1
      <4> QED
        BY ONLY <4>1, WholeCents
    <3>2. \A v \in Nat \ {0} : Cent * v > 0
      BY DEF Cent
    <3> QED
      BY ONLY <2>1, <3>1, <3>2
  <2> QED
    BY <1>2, <1>6, <2>1, <2>2, <2>3 DEF IsDrawnUp
<1>7. CASE t \in Valued
  <2>1. Direction(t) = 0 /\ paper.value \in Int /\ t # "expense" /\ t # "commission"
    BY <1>1, <1>7 DEF Direction, IsFilledIn, Valued
  <2>2. d = [type |-> t, total |-> 0, tax |-> 0,
             worth |-> paper.value, movesGoods |-> FALSE, cost |-> price]
    BY <1>2, <2>1 DEF Draft
  <2> QED
    BY <1>2, <2>1, <2>2 DEF IsDrawnUp
<1>8. Direction(t) # 0 \/ t = "expense" \/ t = "commission" \/ t \in Valued
  BY <1>3, Directions DEF Kinds
<1> QED
  BY <1>4, <1>5, <1>6, <1>7, <1>8

-----------------------------------------------------------------------------
(* The journal of the next paper.                                            *)

\* What the journal J of a paper at place i of a chain enters where it matters.
IsEntered(p, i, d, J) ==
    /\ J \in Seq(JournalLines)
    /\ Weigh(OnAccount("accounts_receivable"), J) =
          (IF d.type = "invoice" THEN d.total ELSE IF d.type = "credit_note" THEN - d.total ELSE 0)
    /\ Weigh(OnAccount("accounts_payable"), J) = (IF d.type = "bill" THEN - d.total ELSE 0)
    /\ Weigh(OnAccount("cogs"), J) = (IF d.type \in NoCost THEN 0 ELSE - Money(d.worth))
    /\ d.type \notin NoCost => Weigh(OnAccount("inventory"), J) = Money(d.worth)
    /\ d.type = "goods_receipt" => Weigh(OnAccount("grni"), J) = - Money(d.worth)
    /\ d.type = "bill" /\ i = 2 => Weigh(OnAccount("grni"), J) = d.total - d.tax
    /\ d.type = "expense" =>
          /\ Weigh(OnAccount("bank"), J) = - d.total
          /\ Weigh(OnAccount("operating_expenses"), J) = d.total - TaxEntered(p)
          /\ Weigh(OnAccount("input_tax"), J) = TaxEntered(p)

LEMMA AccountsOfBooks ==
  /\ "accounts_receivable" \in BookAccounts /\ "accounts_payable" \in BookAccounts
  /\ "cash" \in BookAccounts /\ "cogs" \in BookAccounts /\ "inventory" \in BookAccounts
  /\ "grni" \in BookAccounts /\ "bank" \in BookAccounts /\ "operating_expenses" \in BookAccounts
  /\ "input_tax" \in BookAccounts /\ "sales_commission" \in BookAccounts
  /\ "inventory_adjustment" \in BookAccounts /\ "opening_balance_equity" \in BookAccounts
  BY DEF BookAccounts

LEMMA SaleIsEntered ==
  ASSUME NEW p, NEW i, NEW d, NEW J, NEW into, IsStated(d), d.worth <= 0,
         \/ d.type = "invoice" /\ into = "accounts_receivable"
         \/ d.type = "sales_receipt" /\ into = "cash",
         J = JournalOf(d)
  PROVE  IsEntered(p, i, d, J) /\ (Accepted(J) <=> IsBookable(d))
<1> PICK worth, total : worth = Money(d.worth) /\ total = d.total
  OBVIOUS
<1>1. J = SaleLines(into, d)
  BY DEF JournalOf
<1>2. into \in BookAccounts
  BY AccountsOfBooks
<1>3. /\ J \in Seq(JournalLines)
      /\ Accepted(J) <=> IsPriced(d) /\ IsCosted(d)
      /\ \A e : Weigh(OnAccount(e), J) =
               At(into, e, total) - At("sales_revenue", e, d.total - d.tax)
                 - At("sales_tax_payable", e, d.tax)
                 - At("cogs", e, worth) + At("inventory", e, worth)
  BY ONLY <1>1, <1>2, IsStated(d), d.worth <= 0, SaleJournal,
     worth = Money(d.worth), total = d.total
<1>4. total \in Int /\ worth \in Int
  BY StatedAmounts, <1>1
<1>5. /\ d.type = "invoice" \/ d.type = "sales_receipt"
      /\ d.type \notin NoCost
  BY DEF NoCost
<1>6. Accepted(J) <=> IsBookable(d)
  BY ONLY <1>3, <1>5 DEF IsBookable, IsPriced, IsCosted
<1>7. IsEntered(p, i, d, J)
  <2>1. /\ Weigh(OnAccount("accounts_receivable"), J) = At(into, "accounts_receivable", total)
        /\ Weigh(OnAccount("accounts_payable"), J) = At(into, "accounts_payable", total)
        /\ Weigh(OnAccount("cogs"), J) = At(into, "cogs", total) - worth
        /\ Weigh(OnAccount("inventory"), J) = At(into, "inventory", total) + worth
    BY ONLY <1>3, <1>4 DEF At
  <2>2. /\ At(into, "accounts_receivable", total) = IF d.type = "invoice" THEN total ELSE 0
        /\ At(into, "accounts_payable", total) = 0
        /\ At(into, "cogs", total) = 0 /\ At(into, "inventory", total) = 0
    BY DEF At
  <2>3. 0 - worth = - worth /\ 0 + worth = worth
    BY ONLY <1>4
  <2> QED
    BY ONLY <1>3, <1>5, <2>1, <2>2, <2>3, worth = Money(d.worth), total = d.total DEF IsEntered
<1> QED
  BY <1>6, <1>7

LEMMA CreditNoteIsEntered ==
  ASSUME NEW p, NEW i, NEW d, NEW J, IsStated(d), d.worth >= 0,
         d.type = "credit_note", J = JournalOf(d)
  PROVE  IsEntered(p, i, d, J) /\ (Accepted(J) <=> IsBookable(d))
<1> PICK worth, total : worth = Money(d.worth) /\ total = d.total
  OBVIOUS
<1>1. J = CreditNoteLines(d)
  BY DEF JournalOf
<1>3. /\ J \in Seq(JournalLines)
      /\ Accepted(J) <=> IsPriced(d) /\ IsCosted(d)
      /\ \A e : Weigh(OnAccount(e), J) =
               - At("accounts_receivable", e, total) + At("sales_returns", e, d.total - d.tax)
                 + At("sales_tax_payable", e, d.tax)
                 + At("inventory", e, worth) - At("cogs", e, worth)
  BY ONLY <1>1, IsStated(d), d.worth >= 0, CreditNoteJournal,
     worth = Money(d.worth), total = d.total
<1>4. total \in Int /\ worth \in Int
  BY StatedAmounts, <1>1
<1>5. d.type = "credit_note" /\ d.type \notin NoCost
  BY DEF NoCost
<1>6. Accepted(J) <=> IsBookable(d)
  BY ONLY <1>3, <1>5 DEF IsBookable, IsPriced, IsCosted
<1>7. IsEntered(p, i, d, J)
  <2>1. /\ Weigh(OnAccount("accounts_receivable"), J) = - total
        /\ Weigh(OnAccount("accounts_payable"), J) = 0
        /\ Weigh(OnAccount("cogs"), J) = - worth
        /\ Weigh(OnAccount("inventory"), J) = worth
    BY ONLY <1>3, <1>4 DEF At
  <2> QED
    BY ONLY <1>3, <1>5, <2>1, worth = Money(d.worth), total = d.total DEF IsEntered
<1> QED
  BY <1>6, <1>7

LEMMA BillIsEntered ==
  ASSUME NEW p, NEW i, NEW d, NEW J, IsStated(d), d.type = "bill", J = JournalOf(d),
         i = 2 => d.worth = 0 /\ SourceMovedGoods("bill")
  PROVE  IsEntered(p, i, d, J) /\ (Accepted(J) <=> IsBookable(d))
<1> PICK target, total, rest, tax :
      /\ target = PurchaseTarget(d) /\ total = d.total /\ rest = d.total - d.tax /\ tax = d.tax
  OBVIOUS
<1>1. J = BillLines(d)
  BY DEF JournalOf
<1>3. /\ J \in Seq(JournalLines)
      /\ Accepted(J) <=> IsPriced(d)
      /\ \A e : Weigh(OnAccount(e), J) =
               At(target, e, rest) + At("input_tax", e, tax) - At("accounts_payable", e, total)
  BY ONLY <1>1, IsStated(d), BillJournal,
     target = PurchaseTarget(d), total = d.total, rest = d.total - d.tax, tax = d.tax
<1>4. total \in Int /\ rest \in Int /\ tax \in Int
  BY StatedAmounts, <1>1
<1>5. d.type = "bill" /\ d.type \in NoCost
  BY DEF NoCost
<1>6. Accepted(J) <=> IsBookable(d)
  BY ONLY <1>3, <1>5 DEF IsBookable, IsPriced
<1>8. /\ target \in {"inventory", "grni", "operating_expenses"}
      /\ i = 2 => target = "grni"
  BY DEF PurchaseTarget
<1>7. IsEntered(p, i, d, J)
  <2>1. /\ Weigh(OnAccount("accounts_receivable"), J) = 0
        /\ Weigh(OnAccount("accounts_payable"), J) = - total
        /\ Weigh(OnAccount("cogs"), J) = 0
        /\ i = 2 => Weigh(OnAccount("grni"), J) = rest
    BY ONLY <1>3, <1>4, <1>8 DEF At
  <2> QED
    BY ONLY <1>3, <1>5, <2>1, total = d.total, rest = d.total - d.tax DEF IsEntered
<1> QED
  BY <1>6, <1>7

LEMMA DeliveryIsEntered ==
  ASSUME NEW p, NEW i, NEW d, NEW J, d.worth \in Int, d.worth <= 0,
         d.type = "delivery_challan", J = JournalOf(d)
  PROVE  IsEntered(p, i, d, J) /\ (Accepted(J) <=> IsBookable(d))
<1> PICK worth, cost, given : worth = Money(d.worth) /\ cost = - d.worth /\ given = d.worth
  OBVIOUS
<1>1. J = IfAny(Dr("cogs", cost)) \o IfAny(Cr("inventory", cost))
  BY DEF JournalOf, CostLines
<1>2. given \in Int /\ given <= 0 /\ cost = - given /\ cost \in Int
  OBVIOUS
<1>3. worth \in Int /\ worth <= 0 /\ Money(cost) = - worth
  BY MoneyFacts
<1>4. IsPair(J, "cogs", "inventory", cost)
  BY ONLY <1>1, <1>2, AccountsOfBooks, PairIfAny
<1>5. d.type = "delivery_challan" /\ d.type \notin NoCost
  BY DEF NoCost
<1>6. Accepted(J) <=> IsBookable(d)
  <2>1. Accepted(J) <=> cost = 0 \/ Money(cost) > 0
    BY ONLY <1>4 DEF IsPair
  <2>2. Accepted(J) <=> given = 0 \/ worth # 0
    BY ONLY <1>2, <1>3, <2>1
  <2>3. IsBookable(d) <=> d.worth = 0 \/ Money(d.worth) # 0
    BY ONLY <1>5 DEF IsBookable
  <2> QED
    BY ONLY <2>2, <2>3, given = d.worth, worth = Money(d.worth)
<1>7. IsEntered(p, i, d, J)
  <2>1. /\ J \in Seq(JournalLines)
        /\ \A e : Weigh(OnAccount(e), J) = At("cogs", e, - worth) - At("inventory", e, - worth)
    BY ONLY <1>3, <1>4 DEF IsPair
  <2>2. /\ Weigh(OnAccount("accounts_receivable"), J) = 0
        /\ Weigh(OnAccount("accounts_payable"), J) = 0
        /\ Weigh(OnAccount("cogs"), J) = - worth
        /\ Weigh(OnAccount("inventory"), J) = worth
    BY ONLY <1>3, <2>1 DEF At
  <2> QED
    BY ONLY <1>5, <2>1, <2>2, worth = Money(d.worth) DEF IsEntered
<1> QED
  BY <1>6, <1>7

LEMMA ReceiptIsEntered ==
  ASSUME NEW p, NEW i, NEW d, NEW J, d.worth \in Int, d.worth >= 0,
         d.type = "goods_receipt", J = JournalOf(d)
  PROVE  IsEntered(p, i, d, J) /\ (Accepted(J) <=> IsBookable(d))
<1> PICK worth, given : worth = Money(d.worth) /\ given = d.worth
  OBVIOUS
<1>1. J = IfAny(Dr("inventory", given)) \o IfAny(Cr("grni", given))
  BY DEF JournalOf, GoodsReceiptLines
<1>2. given \in Int /\ given >= 0
  OBVIOUS
<1>3. worth \in Int /\ worth >= 0 /\ Money(given) = worth
  BY MoneyFacts
<1>4. IsPair(J, "inventory", "grni", given)
  BY ONLY <1>1, <1>2, AccountsOfBooks, PairIfAny
<1>5. d.type = "goods_receipt" /\ d.type \in NoCost
  BY DEF NoCost
<1>6. Accepted(J) <=> IsBookable(d)
  <2>1. Accepted(J) <=> given = 0 \/ Money(given) > 0
    BY ONLY <1>4 DEF IsPair
  <2>2. Accepted(J) <=> given = 0 \/ worth # 0
    BY ONLY <1>2, <1>3, <2>1
  <2>3. IsBookable(d) <=> d.worth = 0 \/ Money(d.worth) # 0
    BY ONLY <1>5 DEF IsBookable
  <2> QED
    BY ONLY <2>2, <2>3, given = d.worth, worth = Money(d.worth)
<1>7. IsEntered(p, i, d, J)
  <2>1. /\ J \in Seq(JournalLines)
        /\ \A e : Weigh(OnAccount(e), J) = At("inventory", e, worth) - At("grni", e, worth)
    BY ONLY <1>3, <1>4 DEF IsPair
  <2>2. /\ Weigh(OnAccount("accounts_receivable"), J) = 0
        /\ Weigh(OnAccount("accounts_payable"), J) = 0
        /\ Weigh(OnAccount("cogs"), J) = 0
        /\ Weigh(OnAccount("grni"), J) = - worth
    BY ONLY <1>3, <2>1 DEF At
  <2> QED
    BY ONLY <1>5, <2>1, <2>2, worth = Money(d.worth) DEF IsEntered
<1> QED
  BY <1>6, <1>7

LEMMA ValueIsEntered ==
  ASSUME NEW p, NEW i, NEW d, NEW J, d.worth \in Int, d.type \in Valued, J = JournalOf(d)
  PROVE  IsEntered(p, i, d, J) /\ (Accepted(J) <=> IsBookable(d))
<1> PICK worth, given, offset :
      /\ worth = Money(d.worth) /\ given = d.worth
      /\ offset = IF d.type = "stock_adjustment" THEN "inventory_adjustment"
                  ELSE "opening_balance_equity"
  OBVIOUS
<1>0. d.type = "stock_adjustment" \/ d.type = "stock_opening"
  BY DEF Valued
<1>1. J = ValueLines(offset, given)
  BY <1>0 DEF JournalOf
<1>2. given \in Int /\ worth \in Int /\ Money(given) = worth
  BY MoneyFacts
<1>3. offset \in BookAccounts /\ offset \in {"inventory_adjustment", "opening_balance_equity"}
  BY AccountsOfBooks
<1>4. /\ J \in Seq(JournalLines)
      /\ Accepted(J) <=> given = 0 \/ Money(given) # 0
      /\ \A e : Weigh(OnAccount(e), J) = At("inventory", e, Money(given)) - At(offset, e, Money(given))
  BY ONLY <1>1, <1>2, <1>3, ValueJournal
<1>5. d.type \in NoCost
  BY <1>0 DEF NoCost
<1>6. Accepted(J) <=> IsBookable(d)
  <2>1. IsBookable(d) <=> d.worth = 0 \/ Money(d.worth) # 0
    BY ONLY <1>0 DEF IsBookable
  <2> QED
    BY ONLY <1>4, <2>1, given = d.worth
<1>7. IsEntered(p, i, d, J)
  <2>1. /\ Weigh(OnAccount("accounts_receivable"), J) = 0
        /\ Weigh(OnAccount("accounts_payable"), J) = 0
        /\ Weigh(OnAccount("cogs"), J) = 0
    BY ONLY <1>2, <1>3, <1>4 DEF At
  <2> QED
    BY ONLY <1>0, <1>4, <1>5, <2>1 DEF IsEntered
<1> QED
  BY <1>6, <1>7

LEMMA PayoutIsEntered ==
  ASSUME NEW p, NEW i, NEW d, NEW J, d.total \in Whole, d.total > 0, d.worth = 0,
         d.type = "commission", J = JournalOf(d)
  PROVE  IsEntered(p, i, d, J) /\ (Accepted(J) <=> IsBookable(d))
<1> PICK total : total = d.total
  OBVIOUS
<1>1. J = <<Dr("sales_commission", total), Cr("cash", total)>>
  BY DEF JournalOf, PayoutLines
<1>2. total \in Int /\ Money(total) = total /\ total > 0 /\ Money(0) = 0
  BY WholeCents, MoneyFacts
<1>3. IsWholePair(J, "sales_commission", "cash", total)
  BY ONLY <1>1, <1>2, AccountsOfBooks, PairOfLines
<1>4. /\ J \in Seq(JournalLines) /\ Accepted(J)
      /\ \A e : Weigh(OnAccount(e), J) = At("sales_commission", e, total) - At("cash", e, total)
  BY ONLY <1>2, <1>3 DEF IsWholePair
<1>5. d.type = "commission" /\ d.type \notin NoCost
  BY DEF NoCost
<1>6. IsBookable(d)
  BY ONLY <1>5, d.worth = 0 DEF IsBookable
<1>7. IsEntered(p, i, d, J)
  <2>1. /\ Weigh(OnAccount("accounts_receivable"), J) = 0
        /\ Weigh(OnAccount("accounts_payable"), J) = 0
        /\ Weigh(OnAccount("cogs"), J) = 0
        /\ Weigh(OnAccount("inventory"), J) = 0
    BY ONLY <1>2, <1>4 DEF At
  <2>2. Money(d.worth) = 0 /\ - Money(d.worth) = 0
    BY <1>2
  <2> QED
    BY ONLY <1>4, <1>5, <2>1, <2>2 DEF IsEntered
<1> QED
  BY <1>4, <1>6, <1>7

LEMMA ExpenseIsEntered ==
  ASSUME IsExpense(paper), NEW i, NEW d, NEW J, d.total = ExpenseTotal(paper), d.worth = 0,
         d.type = "expense", J = JournalOf(d)
  PROVE  IsEntered(paper, i, d, J) /\ (Accepted(J) <=> IsBookable(d))
<1> PICK total, tax : total = d.total /\ tax = TaxEntered(paper)
  OBVIOUS
<1>1. J = ExpenseLines(paper)
  BY DEF JournalOf
<1>2. total \in Int /\ Money(0) = 0 /\ tax \in Int
  BY WholeCents, MoneyFacts, ExpenseAmounts DEF TaxEntered
<1>4. /\ J \in Seq(JournalLines)
      /\ Accepted(J) <=> \A k \in DOMAIN paper.amounts : NetOf(paper)[k] >= 0
      /\ \A e : Weigh(OnAccount(e), J) =
               At("operating_expenses", e, total - tax) + At("input_tax", e, tax)
                 - At("bank", e, total)
  BY ONLY <1>1, IsExpense(paper), ExpenseJournal, total = d.total,
     d.total = ExpenseTotal(paper), tax = TaxEntered(paper)
<1>5. d.type = "expense" /\ d.type \notin NoCost
  BY DEF NoCost
<1>6. Accepted(J) <=> IsBookable(d)
  BY ONLY <1>4, <1>5 DEF IsBookable, NetOf
<1>7. IsEntered(paper, i, d, J)
  <2>1. /\ Weigh(OnAccount("accounts_receivable"), J) = 0
        /\ Weigh(OnAccount("accounts_payable"), J) = 0
        /\ Weigh(OnAccount("cogs"), J) = 0
        /\ Weigh(OnAccount("inventory"), J) = 0
        /\ Weigh(OnAccount("bank"), J) = - total
        /\ Weigh(OnAccount("operating_expenses"), J) = total - tax
        /\ Weigh(OnAccount("input_tax"), J) = tax
    BY ONLY <1>2, <1>4 DEF At
  <2>2. Money(d.worth) = 0 /\ - Money(d.worth) = 0
    BY <1>2
  <2> QED
    BY ONLY <1>4, <1>5, <2>1, <2>2, total = d.total, tax = TaxEntered(paper) DEF IsEntered
<1> QED
  BY <1>6, <1>7

\* Whatever comes next in a chain: the books refuse what cannot be booked, and what they
\* take is entered as the paper says.
LEMMA NextIsEntered ==
  ASSUME AreDrawnUp, NEW i \in 1..Len(paper.chain), i = Len(papers) + 1,
         NEW d, d = NextPaper, NEW J, J = JournalOf(d)
  PROVE  IsEntered(paper, i, d, J) /\ (Accepted(J) <=> IsBookable(d))
<1> PICK t : t = d.type
  OBVIOUS
<1>1. /\ IsDrawnUp(paper, i, d)
      /\ Direction(t) # 0 => (SourceMovedGoods(t) <=> i = 2 /\ t # "credit_note")
  BY NextIsDrawnUp
<1>2. paper \in Papers /\ IsFilledIn(paper, t)
  BY <1>1, PapersAreChains DEF AreDrawnUp, IsDrawnUp
<1>3. /\ t \in Kinds
      /\ t \in Sold => IsStated(d) /\ d.worth <= 0
      /\ t \in Gotten => IsStated(d) /\ d.worth >= 0
  BY ONLY <1>1, <1>2, WorthHasItsSign, i \in 1..Len(paper.chain), t = d.type
<1>4. d.worth \in Int
  BY ONLY <1>1 DEF IsDrawnUp
<1>5. CASE t = "invoice" \/ t = "sales_receipt"
  <2>1. t \in Sold
    BY <1>5 DEF Sold
  <2> QED
    BY ONLY <1>3, <1>5, <2>1, SaleIsEntered, t = d.type, J = JournalOf(d)
<1>6. CASE t = "credit_note"
  <2>1. t \in Gotten
    BY <1>6 DEF Gotten
  <2> QED
    BY ONLY <1>3, <1>6, <2>1, CreditNoteIsEntered, t = d.type, J = JournalOf(d)
<1>7. CASE t = "bill"
  <2>1. t \in Gotten /\ Direction(t) # 0
    BY <1>7 DEF Gotten, Direction
  <2>2. i = 2 => d.worth = 0 /\ SourceMovedGoods("bill")
    BY ONLY <1>1, <1>7, <2>1, t = d.type DEF IsDrawnUp
  <2> QED
    BY ONLY <1>3, <1>7, <2>1, <2>2, BillIsEntered, t = d.type, J = JournalOf(d)
<1>8. CASE t = "delivery_challan"
  <2>1. t \in Sold
    BY <1>8 DEF Sold
  <2> QED
    BY ONLY <1>3, <1>4, <1>8, <2>1, DeliveryIsEntered, t = d.type, J = JournalOf(d)
<1>9. CASE t = "goods_receipt"
  <2>1. t \in Gotten
    BY <1>9 DEF Gotten
  <2> QED
    BY ONLY <1>3, <1>4, <1>9, <2>1, ReceiptIsEntered, t = d.type, J = JournalOf(d)
<1>10. CASE t \in Valued
  BY ONLY <1>4, <1>10, ValueIsEntered, t = d.type, J = JournalOf(d)
<1>11. CASE t = "commission"
  <2>1. d.total \in Whole /\ d.total > 0 /\ d.worth = 0
    BY ONLY <1>1, <1>11, t = d.type DEF IsDrawnUp
  <2> QED
    BY ONLY <1>11, <2>1, PayoutIsEntered, t = d.type, J = JournalOf(d)
<1>12. CASE t = "expense"
  <2>1. d.total = ExpenseTotal(paper) /\ d.worth = 0
    BY ONLY <1>1, <1>12, t = d.type DEF IsDrawnUp
  <2>2. IsExpense(paper)
    BY ONLY <1>2, <1>12 DEF IsFilledIn
  <2> QED
    BY ONLY <1>12, <2>1, <2>2, ExpenseIsEntered, t = d.type, J = JournalOf(d)
<1>13. \/ t \in {"invoice", "sales_receipt", "credit_note", "bill", "delivery_challan",
                 "goods_receipt", "commission", "expense"}
       \/ t \in Valued
  BY ONLY <1>3 DEF Kinds, Sold, Gotten
<1> QED
  BY ONLY <1>5, <1>6, <1>7, <1>8, <1>9, <1>10, <1>11, <1>12, <1>13

-----------------------------------------------------------------------------
(* What is entered is entered on both sides.                                 *)

LEMMA BooksAreFinite == IsFiniteSet(BookAccounts)
<1> PICK f : f = <<"accounts_receivable", "accounts_payable", "sales_revenue", "sales_returns",
                   "sales_tax_payable", "input_tax", "cogs", "inventory", "grni", "cash", "bank",
                   "operating_expenses", "inventory_adjustment", "opening_balance_equity",
                   "sales_commission">>
  OBVIOUS
<1>1. IsFiniteSet(1..15)
  BY ONLY FS_Interval, 1 \in Int, 15 \in Int
<1>2. BookAccounts = {f[x] : x \in 1..15}
  <2>1. /\ f[1] = "accounts_receivable" /\ f[2] = "accounts_payable" /\ f[3] = "sales_revenue"
        /\ f[4] = "sales_returns" /\ f[5] = "sales_tax_payable" /\ f[6] = "input_tax"
        /\ f[7] = "cogs" /\ f[8] = "inventory" /\ f[9] = "grni" /\ f[10] = "cash"
        /\ f[11] = "bank" /\ f[12] = "operating_expenses" /\ f[13] = "inventory_adjustment"
        /\ f[14] = "opening_balance_equity" /\ f[15] = "sales_commission"
    OBVIOUS
  <2>2. \A x \in 1..15 : x = 1 \/ x = 2 \/ x = 3 \/ x = 4 \/ x = 5 \/ x = 6 \/ x = 7 \/ x = 8
                       \/ x = 9 \/ x = 10 \/ x = 11 \/ x = 12 \/ x = 13 \/ x = 14 \/ x = 15
    OBVIOUS
  <2>3. \A x \in 1..15 : f[x] \in BookAccounts
    BY ONLY <2>1, <2>2 DEF BookAccounts
  <2>4. \A a \in BookAccounts : \E x \in 1..15 : f[x] = a
    <3> SUFFICES ASSUME NEW a \in BookAccounts PROVE \E x \in 1..15 : f[x] = a
      OBVIOUS
    <3>1. /\ 1 \in 1..15 /\ 2 \in 1..15 /\ 3 \in 1..15 /\ 4 \in 1..15 /\ 5 \in 1..15 /\ 6 \in 1..15
          /\ 7 \in 1..15 /\ 8 \in 1..15 /\ 9 \in 1..15 /\ 10 \in 1..15 /\ 11 \in 1..15
          /\ 12 \in 1..15 /\ 13 \in 1..15 /\ 14 \in 1..15 /\ 15 \in 1..15
      OBVIOUS
    <3> QED
      BY ONLY <2>1, <3>1, a \in BookAccounts, Zenon DEF BookAccounts
  <2> QED
    BY ONLY <2>3, <2>4
<1> QED
  BY ONLY <1>1, <1>2, ImageIsFinite

\* A line weighs on the account it names.
LEMMA LineIsOnOneAccount ==
  ASSUME NEW l \in JournalLines, NEW f, f = [a \in BookAccounts |-> OnAccount(a)[l]]
  PROVE  SumOf(f, BookAccounts) = Debits[l] - Credits[l]
<1> PICK x, v : x = l.account /\ v = Debits[l] - Credits[l]
  OBVIOUS
<1>1. x \in BookAccounts /\ l.debit \in Int /\ l.credit \in Int
  BY DEF JournalLines
<1>2. /\ Money(l.debit) \in Int /\ Money(l.credit) \in Int
      /\ v = Money(l.debit) - Money(l.credit) /\ v \in Int
  BY <1>1, MoneyFacts DEF Debits, Credits
<1>3. \A a \in BookAccounts : f[a] = IF a = x THEN v ELSE 0
  BY <1>2 DEF OnAccount
<1>4. IsFiniteSet(BookAccounts) /\ IsFiniteSet(BookAccounts \ {x})
  BY BooksAreFinite, FS_RemoveElement
<1>5. SumOf(f, BookAccounts) = f[x] + SumOf(f, BookAccounts \ {x})
  BY ONLY <1>1, <1>2, <1>3, <1>4, SumTakes
<1>6. SumOf(f, BookAccounts \ {x}) = 0
  BY ONLY <1>3, <1>4, SumOfZeros
<1> QED
  BY <1>1, <1>2, <1>3, <1>5, <1>6

\* Sums over parts that have nothing in common.
IsParted(f, g, F, A) ==
    /\ IsFiniteSet(A)
    /\ \A x \in A : IsFiniteSet(F[x]) /\ g[x] = SumOf(f, F[x])
    /\ \A x \in A : \A y \in F[x] : f[y] \in Int
    /\ \A x, y \in A : x # y => F[x] \cap F[y] = {}

LEMMA PartsAddUp ==
  ASSUME NEW f, NEW g, NEW F, NEW A, IsParted(f, g, F, A)
  PROVE  SumOf(g, A) = SumOf(f, UNION {F[x] : x \in A})
  BY SumByParts DEF IsParted

\* A table of the numbers f, with the sums r of its rows and c of its columns.
IsTable(f, I, P, r, c) ==
    /\ IsFiniteSet(I) /\ IsFiniteSet(P)
    /\ \A k \in I \X P : f[k] \in Int
    /\ \A i \in I : r[i] = SumOf(f, {i} \X P)
    /\ \A p \in P : c[p] = SumOf(f, I \X {p})

LEMMA RowsMeetColumns ==
  ASSUME NEW f, NEW I, NEW P, NEW r, NEW c, IsTable(f, I, P, r, c)
  PROVE  SumOf(r, I) = SumOf(c, P)
<1> PICK R, C : R = [i \in I |-> {i} \X P] /\ C = [p \in P |-> I \X {p}]
  OBVIOUS
<1>1. IsParted(f, r, R, I)
  <2>1. \A i \in I : IsFiniteSet(R[i]) /\ r[i] = SumOf(f, R[i])
    BY FS_Singleton, FS_Product DEF IsTable
  <2>2. \A i, j \in I : i # j => R[i] \cap R[j] = {}
    OBVIOUS
  <2>3. IsFiniteSet(I) /\ \A i \in I : \A y \in R[i] : f[y] \in Int
    BY DEF IsTable
  <2> QED
    BY ONLY <2>1, <2>2, <2>3 DEF IsParted
<1>2. IsParted(f, c, C, P)
  <2>1. \A p \in P : IsFiniteSet(C[p]) /\ c[p] = SumOf(f, C[p])
    BY FS_Singleton, FS_Product DEF IsTable
  <2>2. \A p, q \in P : p # q => C[p] \cap C[q] = {}
    OBVIOUS
  <2>3. IsFiniteSet(P) /\ \A p \in P : \A y \in C[p] : f[y] \in Int
    BY DEF IsTable
  <2> QED
    BY ONLY <2>1, <2>2, <2>3 DEF IsParted
<1>3. UNION {R[i] : i \in I} = I \X P /\ UNION {C[p] : p \in P} = I \X P
  OBVIOUS
<1>4. SumOf(r, I) = SumOf(f, UNION {R[i] : i \in I})
  BY ONLY <1>1, PartsAddUp
<1>5. SumOf(c, P) = SumOf(f, UNION {C[p] : p \in P})
  BY ONLY <1>2, PartsAddUp
<1> QED
  BY <1>3, <1>4, <1>5

LEMMA JournalsTie ==
  ASSUME NEW J \in Seq(JournalLines), Accepted(J)
  PROVE  SumOf([a \in BookAccounts |-> Weigh(OnAccount(a), J)], BookAccounts) = 0
<1> PICK n, P : n = Len(J) /\ P = DOMAIN J
  OBVIOUS
<1>0. n \in Nat /\ P = 1..n
  OBVIOUS
<1>1. (\A i \in P : J[i] \in JournalLines) /\ IsFiniteSet(P)
  <2>1. \A i \in P : J[i] \in JournalLines
    OBVIOUS
  <2>2. IsFiniteSet(P)
    BY WeighTyped, JournalWeights
  <2> QED
    BY <2>1, <2>2
<1> PICK f, r, g : /\ f = [k \in BookAccounts \X P |-> OnAccount(k[1])[J[k[2]]]]
                   /\ r = [a \in BookAccounts |-> Weigh(OnAccount(a), J)]
                   /\ g = [i \in P |-> Debits[J[i]] - Credits[J[i]]]
  OBVIOUS
<1>2. ASSUME NEW a \in BookAccounts, NEW i \in P
      PROVE  f[<<a, i>>] = OnAccount(a)[J[i]]
  OBVIOUS
<1>3. \A k \in BookAccounts \X P : f[k] \in Int
  <2> SUFFICES ASSUME NEW a \in BookAccounts, NEW i \in P PROVE f[<<a, i>>] \in Int
    OBVIOUS
  <2>1. OnAccount(a) \in [JournalLines -> Int]
    BY JournalWeights DEF Weights
  <2> QED
    BY <1>1, <1>2, <2>1
<1>4. ASSUME NEW a \in BookAccounts
      PROVE  r[a] = SumOf(f, {a} \X P)
  <2> PICK h, t : h = [i \in DOMAIN J |-> OnAccount(a)[J[i]]] /\ t = [i \in P |-> <<a, i>>]
    OBVIOUS
  <2>1. \A i \in P : h[i] = f[t[i]] /\ f[t[i]] \in Int
    BY <1>2, <1>3
  <2>2. \A i, j \in P : t[i] = t[j] => i = j
    OBVIOUS
  <2>3. SumOf(h, P) = SumOf(f, {t[i] : i \in P})
    BY ONLY <1>1, <2>1, <2>2, SumThrough
  <2>4. {t[i] : i \in P} = {a} \X P
    OBVIOUS
  <2>5. r[a] = SumOf(h, P)
    BY DEF Weigh
  <2> QED
    BY <2>3, <2>4, <2>5
<1>5. ASSUME NEW i \in P PROVE g[i] = SumOf(f, BookAccounts \X {i})
  <2> PICK h, t : /\ h = [a \in BookAccounts |-> OnAccount(a)[J[i]]]
                  /\ t = [a \in BookAccounts |-> <<a, i>>]
    OBVIOUS
  <2>1. \A a \in BookAccounts : h[a] = f[t[a]] /\ f[t[a]] \in Int
    BY <1>2, <1>3
  <2>2. \A a, b \in BookAccounts : t[a] = t[b] => a = b
    OBVIOUS
  <2>3. SumOf(h, BookAccounts) = SumOf(f, {t[a] : a \in BookAccounts})
    BY ONLY <2>1, <2>2, BooksAreFinite, SumThrough
  <2>4. {t[a] : a \in BookAccounts} = BookAccounts \X {i}
    OBVIOUS
  <2>5. SumOf(h, BookAccounts) = Debits[J[i]] - Credits[J[i]]
    BY <1>1, LineIsOnOneAccount
  <2> QED
    BY <2>3, <2>4, <2>5
<1>6. SumOf(r, BookAccounts) = SumOf(g, P)
  <2>1. IsTable(f, BookAccounts, P, r, g)
    BY ONLY <1>1, <1>3, <1>4, <1>5, BooksAreFinite DEF IsTable
  <2> QED
    BY ONLY <2>1, RowsMeetColumns
<1>7. SumOf(g, P) = 0
  <2> PICK d, c, e : /\ d = [i \in DOMAIN J |-> Debits[J[i]]] /\ c = [i \in DOMAIN J |-> Credits[J[i]]]
                     /\ e = [i \in DOMAIN J |-> 0 - Credits[J[i]]]
    OBVIOUS
  <2>1. \A i \in P : /\ d[i] \in Int /\ c[i] \in Int /\ e[i] \in Int /\ e[i] = 0 - c[i]
                     /\ g[i] = d[i] + e[i]
    <3>1. Debits \in [JournalLines -> Int] /\ Credits \in [JournalLines -> Int]
      BY JournalWeights DEF Weights
    <3> QED
      BY <1>1, <3>1
  <2>2. SumOf(g, P) = SumOf(d, P) + SumOf(e, P)
    BY ONLY <1>1, <2>1, SumsAdd
  <2>3. SumOf(e, P) = 0 - SumOf(c, P)
    BY ONLY <1>1, <2>1, SumOfOpposites
  <2>4. SumOf(d, P) = Weigh(Debits, J) /\ SumOf(c, P) = Weigh(Credits, J)
    BY DEF Weigh
  <2>5. Weigh(Debits, J) = Weigh(Credits, J)
    <3>1. Weigh(Debits, <<>>) = 0 /\ Weigh(Credits, <<>>) = 0
      BY WeighNone
    <3> QED
      BY ONLY <3>1, AcceptedMeans, J \in Seq(JournalLines), Accepted(J)
  <2>6. Weigh(Debits, J) \in Int
    BY WeighTyped, JournalWeights
  <2> QED
    BY ONLY <2>2, <2>3, <2>4, <2>5, <2>6
<1> QED
  BY <1>6, <1>7

-----------------------------------------------------------------------------
(* The invariant: each standing paper says and enters what it should, and    *)
(* the books hold what the standing papers enter.                            *)

Stands(p, i, d) ==
    /\ IsDrawnUp(p, i, d)
    /\ IsEntered(p, i, d, d.journal)
    /\ Accepted(d.journal)

\* What the first n of these papers enter on an account.
Entries(a, ps, n) == [i \in 1..n |-> Weigh(OnAccount(a), ps[i].journal)]
Entered(a, ps, n) == SumOf(Entries(a, ps, n), 1..n)

AllStand ==
    /\ paper \in Papers /\ price \in Prices
    /\ \E S : papers \in Seq(S)
    /\ Len(papers) <= Len(paper.chain)
    /\ \A i \in 1..Len(papers) : Stands(paper, i, papers[i])

BooksAreEntered ==
    /\ books \in [BookAccounts -> Int]
    /\ \A a \in BookAccounts : books[a] = Entered(a, papers, Len(papers))
    /\ SumOf(books, BookAccounts) = 0

PostingIInv == AllStand /\ BooksAreEntered

\* One paper more, or one less.
LEMMA OneMoreEntered ==
  ASSUME NEW n \in Nat, NEW ps, NEW qs, \A i \in 1..n : qs[i] = ps[i],
         \A i \in 1..(n + 1) : qs[i].journal \in Seq(JournalLines), NEW a
  PROVE  Entered(a, qs, n + 1) = Entered(a, ps, n) + Weigh(OnAccount(a), qs[n + 1].journal)
<1> PICK f, g, m : f = Entries(a, ps, n) /\ g = Entries(a, qs, n + 1) /\ m = n + 1
  OBVIOUS
<1>1. \A i \in 1..m : g[i] = Weigh(OnAccount(a), qs[i].journal) /\ g[i] \in Int
  <2>1. \A i \in 1..m : Weigh(OnAccount(a), qs[i].journal) \in Int
    BY JournalWeights, WeighTyped
  <2> QED
    BY <2>1 DEF Entries
<1>2. \A i \in 1..n : f[i] = g[i]
  BY <1>1 DEF Entries
<1>3. m \in 1..m /\ (1..m) \ {m} = 1..n /\ IsFiniteSet(1..m) /\ IsFiniteSet(1..n)
  <2>1. m \in 1..m /\ (1..m) \ {m} = 1..n
    OBVIOUS
  <2>2. IsFiniteSet(1..m) /\ IsFiniteSet(1..n)
    <3>1. 1 \in Int /\ m \in Int /\ n \in Int
      OBVIOUS
    <3> QED
      BY ONLY <3>1, FS_Interval
  <2> QED
    BY <2>1, <2>2
<1>4. SumOf(g, 1..m) = g[m] + SumOf(g, 1..n)
  <2> PICK M, N : M = 1..m /\ N = 1..n
    OBVIOUS
  <2>1. IsFiniteSet(M) /\ m \in M /\ M \ {m} = N
    BY ONLY <1>3, M = 1..m, N = 1..n
  <2>2. \A k \in M : g[k] \in Int
    BY ONLY <1>1, M = 1..m
  <2>3. SumOf(g, M) = g[m] + SumOf(g, M \ {m})
    BY ONLY <2>1, <2>2, SumTakes
  <2> QED
    BY ONLY <2>1, <2>3, M = 1..m, N = 1..n
<1>5. SumOf(f, 1..n) = SumOf(g, 1..n)
  BY ONLY <1>2, <1>3, SumsAgree
<1>6. SumOf(g, 1..n) \in Int
  <2>1. \A i \in 1..n : g[i] \in Int
    BY <1>1
  <2> QED
    BY ONLY <1>3, <2>1, SumIsInteger
<1>7. g[m] = Weigh(OnAccount(a), qs[n + 1].journal) /\ g[m] \in Int
  BY <1>1, <1>3
<1> QED
  BY <1>4, <1>5, <1>6, <1>7 DEF Entered

\* Booked on both sides or taken back, the books still tie.
LEMMA BookingTies ==
  ASSUME NEW bk \in [BookAccounts -> Int], SumOf(bk, BookAccounts) = 0,
         NEW J \in Seq(JournalLines), Accepted(J), NEW sign \in {1, -1},
         NEW new, new = Booked(bk, J, sign)
  PROVE  /\ new \in [BookAccounts -> Int] /\ SumOf(new, BookAccounts) = 0
         /\ \A a \in BookAccounts : new[a] = bk[a] + sign * Weigh(OnAccount(a), J)
<1> PICK w, v : /\ w = [a \in BookAccounts |-> Weigh(OnAccount(a), J)]
                /\ v = [a \in BookAccounts |-> sign * Weigh(OnAccount(a), J)]
  OBVIOUS
<1>1. \A a \in BookAccounts : w[a] = Weigh(OnAccount(a), J) /\ w[a] \in Int
  BY JournalWeights, WeighTyped
<1>2. \A a \in BookAccounts : v[a] = sign * w[a] /\ v[a] \in Int
  BY <1>1
<1>3. new = [a \in BookAccounts |-> bk[a] + sign * Weigh(OnAccount(a), J)]
  BY BookedIsWeighed
<1>4. \A a \in BookAccounts : new[a] = bk[a] + v[a] /\ bk[a] \in Int /\ new[a] \in Int
  BY <1>1, <1>2, <1>3
<1>5. SumOf(w, BookAccounts) = 0
  BY JournalsTie
<1>6. SumOf(v, BookAccounts) = 0
  <2>1. CASE sign = 1
    <3>1. \A a \in BookAccounts : v[a] = w[a]
      BY <1>1, <1>2, <2>1
    <3> QED
      BY ONLY <1>5, <3>1, BooksAreFinite, SumsAgree
  <2>2. CASE sign = -1
    <3>1. \A a \in BookAccounts : w[a] \in Int /\ v[a] = 0 - w[a]
      BY <1>1, <1>2, <2>2
    <3>2. SumOf(v, BookAccounts) = 0 - SumOf(w, BookAccounts)
      BY ONLY <3>1, BooksAreFinite, SumOfOpposites
    <3> QED
      BY <1>5, <3>2
  <2> QED
    BY <2>1, <2>2
<1>7. SumOf(new, BookAccounts) = SumOf(bk, BookAccounts) + SumOf(v, BookAccounts)
  BY ONLY <1>2, <1>4, BooksAreFinite, SumsAdd
<1>8. new \in [BookAccounts -> Int]
  BY <1>3, <1>4
<1> QED
  BY <1>3, <1>6, <1>7, <1>8

LEMMA AllStandAreDrawnUp ==
  ASSUME AllStand
  PROVE  AreDrawnUp
<1> PICK S : papers \in Seq(S)
  BY DEF AllStand
<1>1. price \in Nat
  BY PostingAssumption DEF AllStand
<1>2. Len(papers) \in Nat /\ DOMAIN papers = 1..Len(papers) /\ (papers = <<>> <=> Len(papers) = 0)
  OBVIOUS
<1> QED
  BY <1>1, <1>2 DEF AllStand, AreDrawnUp, Stands

LEMMA PostingStarts == PostingInit => PostingIInv
<1> SUFFICES ASSUME PostingInit PROVE PostingIInv
  OBVIOUS
<1>1. papers = <<>> /\ paper \in Papers /\ price \in Prices /\ books = [a \in BookAccounts |-> 0]
  BY DEF PostingInit
<1>2. Len(papers) = 0 /\ papers \in Seq({}) /\ 1..0 = {}
  BY <1>1
<1>3. AllStand
  <2>1. Len(paper.chain) \in 1..3
    BY <1>1, PapersAreChains DEF IsLed
  <2>2. Len(papers) <= Len(paper.chain)
    BY ONLY <1>2, <2>1
  <2> QED
    BY <1>1, <1>2, <2>2 DEF AllStand
<1>4. BooksAreEntered
  <2>1. \A a : Entered(a, papers, 0) = 0
    BY ONLY <1>2, SumOfNone DEF Entered
  <2>2. SumOf(books, BookAccounts) = 0
    BY <1>1, BooksAreFinite, SumOfZeros
  <2> QED
    BY <1>1, <1>2, <2>1, <2>2 DEF BooksAreEntered
<1> QED
  BY <1>3, <1>4 DEF PostingIInv

LEMMA BookingAPaperStands ==
  ASSUME PostingIInv, BookPaper
  PROVE  PostingIInv'
<1> PICK S : papers \in Seq(S)
  BY DEF PostingIInv, AllStand
<1> PICK n, d, J, w : /\ n = Len(papers) /\ d = NextPaper /\ J = JournalOf(d)
                      /\ w = WithJournal(d, J)
  OBVIOUS
<1>1. /\ n \in Nat /\ n < Len(paper.chain) /\ Accepted(J)
      /\ papers' = Append(papers, w) /\ books' = Booked(books, J, 1)
      /\ paper' = paper /\ price' = price /\ filing' = filing
  BY DEF BookPaper
<1>2. AreDrawnUp /\ paper \in Papers /\ price \in Prices
  BY AllStandAreDrawnUp DEF PostingIInv, AllStand
<1> PICK i : i = n + 1
  OBVIOUS
<1>3. i \in 1..Len(paper.chain) /\ i = Len(papers) + 1 /\ i \in Nat
  <2>1. Len(paper.chain) \in Nat
    BY <1>2, PapersAreChains DEF IsLed
  <2> QED
    BY ONLY <1>1, <2>1, i = n + 1, n = Len(papers)
<1>4. IsDrawnUp(paper, i, d)
  BY <1>2, <1>3, NextIsDrawnUp
<1>5. IsEntered(paper, i, d, J)
  BY <1>2, <1>3, NextIsEntered
<1>6. /\ w.type = d.type /\ w.total = d.total /\ w.tax = d.tax /\ w.worth = d.worth
      /\ w.movesGoods = d.movesGoods /\ w.cost = d.cost /\ w.journal = J
  BY DEF WithJournal
<1>7. Stands(paper, i, w)
  <2>1. IsDrawnUp(paper, i, w)
    BY ONLY <1>4, <1>6 DEF IsDrawnUp, IsStated
  <2>2. IsEntered(paper, i, w, J)
    BY ONLY <1>5, <1>6 DEF IsEntered
  <2> QED
    BY <1>1, <1>6, <2>1, <2>2 DEF Stands
<1>8. /\ papers' \in Seq(S \cup {w}) /\ Len(papers') = i /\ papers'[i] = w
      /\ \A k \in 1..n : papers'[k] = papers[k]
  <2>1. papers \in Seq(S \cup {w})
    OBVIOUS
  <2> QED
    BY <1>1, <2>1
<1>9. \A k \in 1..i : Stands(paper, k, papers'[k])
  <2>1. \A k \in 1..n : Stands(paper, k, papers[k])
    BY DEF PostingIInv, AllStand
  <2>2. \A k \in 1..i : k \in 1..n \/ k = i
    BY <1>1, <1>3
  <2> QED
    BY ONLY <1>7, <1>8, <2>1, <2>2
<1>10. AllStand'
  <2>1. paper' \in Papers /\ price' \in Prices /\ (\E Q : papers' \in Seq(Q))
    BY <1>1, <1>2, <1>8
  <2>2. i <= Len(paper.chain)
    BY ONLY <1>3
  <2> QED
    BY ONLY <1>1, <1>8, <1>9, <2>1, <2>2 DEF AllStand
<1>11. BooksAreEntered'
  <2>1. J \in Seq(JournalLines)
    BY <1>5 DEF IsEntered
  <2>2. books \in [BookAccounts -> Int] /\ SumOf(books, BookAccounts) = 0
    BY DEF PostingIInv, BooksAreEntered
  <2>3. /\ books' \in [BookAccounts -> Int] /\ SumOf(books', BookAccounts) = 0
        /\ \A a \in BookAccounts : books'[a] = books[a] + 1 * Weigh(OnAccount(a), J)
    BY ONLY <1>1, <2>1, <2>2, BookingTies, 1 \in {1, -1}
  <2>4. ASSUME NEW a \in BookAccounts PROVE books'[a] = Entered(a, papers', i)
    <3>1. \A k \in 1..(n + 1) : papers'[k].journal \in Seq(JournalLines)
      BY <1>9 DEF Stands, IsEntered
    <3>2. Entered(a, papers', n + 1) = Entered(a, papers, n) + Weigh(OnAccount(a), papers'[n + 1].journal)
      BY ONLY <1>1, <1>8, <3>1, OneMoreEntered
    <3>3. books[a] = Entered(a, papers, n)
      BY DEF PostingIInv, BooksAreEntered
    <3>4. Weigh(OnAccount(a), J) \in Int
      BY <2>1, JournalWeights, WeighTyped
    <3>5. papers'[n + 1].journal = J
      BY <1>6, <1>8
    <3> QED
      BY ONLY <2>3, <3>2, <3>3, <3>4, <3>5, i = n + 1
  <2> QED
    BY ONLY <1>8, <2>3, <2>4 DEF BooksAreEntered
<1> QED
  BY <1>10, <1>11 DEF PostingIInv

LEMMA VoidingAPaperStands ==
  ASSUME PostingIInv, VoidPaper
  PROVE  PostingIInv'
<1> PICK S : papers \in Seq(S)
  BY DEF PostingIInv, AllStand
<1> PICK m : m = Len(papers)
  OBVIOUS
<1> PICK n, J : n = m - 1 /\ J = papers[m].journal
  OBVIOUS
<1>1. /\ papers # <<>> /\ books' = Booked(books, J, -1) /\ papers' = SubSeq(papers, 1, n)
      /\ paper' = paper /\ price' = price /\ filing' = filing
  BY DEF VoidPaper, Last, Front
<1>2. m \in Nat /\ m # 0 /\ n \in Nat /\ m = n + 1
  <2>1. m \in Nat /\ m # 0
    BY <1>1
  <2> QED
    BY ONLY <2>1, n = m - 1
<1>3. /\ papers' \in Seq(S) /\ Len(papers') = n
      /\ \A k \in 1..n : papers[k] = papers'[k]
  BY <1>1, <1>2
<1>4. \A k \in 1..m : Stands(paper, k, papers[k])
  BY DEF PostingIInv, AllStand
<1>5. AllStand'
  <2>1. paper' \in Papers /\ price' \in Prices /\ (\E Q : papers' \in Seq(Q))
    BY <1>1, <1>3 DEF PostingIInv, AllStand
  <2>2. n <= Len(paper.chain)
    <3>1. paper \in Papers /\ m <= Len(paper.chain)
      BY DEF PostingIInv, AllStand
    <3>2. Len(paper.chain) \in Nat
      BY <3>1, PapersAreChains DEF IsLed
    <3> QED
      BY ONLY <1>2, <3>1, <3>2
  <2>3. \A k \in 1..n : Stands(paper, k, papers'[k])
    <3>1. \A k \in 1..n : k \in 1..m
      BY ONLY <1>2
    <3> QED
      BY ONLY <1>3, <1>4, <3>1
  <2> QED
    BY ONLY <1>1, <1>3, <2>1, <2>2, <2>3 DEF AllStand
<1>6. BooksAreEntered'
  <2>1. J \in Seq(JournalLines) /\ Accepted(J)
    <3>1. m \in 1..m
      BY ONLY <1>2
    <3> QED
      BY ONLY <1>4, <3>1, J = papers[m].journal DEF Stands, IsEntered
  <2>2. books \in [BookAccounts -> Int] /\ SumOf(books, BookAccounts) = 0
    BY DEF PostingIInv, BooksAreEntered
  <2>3. /\ books' \in [BookAccounts -> Int] /\ SumOf(books', BookAccounts) = 0
        /\ \A a \in BookAccounts : books'[a] = books[a] + (-1) * Weigh(OnAccount(a), J)
    BY ONLY <1>1, <2>1, <2>2, BookingTies, -1 \in {1, -1}
  <2>4. ASSUME NEW a \in BookAccounts PROVE books'[a] = Entered(a, papers', n)
    <3>1. \A k \in 1..(n + 1) : papers[k].journal \in Seq(JournalLines)
      BY ONLY <1>2, <1>4 DEF Stands, IsEntered
    <3>2. Entered(a, papers, n + 1) = Entered(a, papers', n) + Weigh(OnAccount(a), papers[n + 1].journal)
      BY ONLY <1>2, <1>3, <3>1, OneMoreEntered
    <3>3. books[a] = Entered(a, papers, m)
      BY DEF PostingIInv, BooksAreEntered
    <3>4. Weigh(OnAccount(a), J) \in Int
      BY <2>1, JournalWeights, WeighTyped
    <3>5. Entered(a, papers', n) \in Int
      <4>1. \A k \in 1..n : Weigh(OnAccount(a), papers'[k].journal) \in Int
        <5>1. \A k \in 1..n : papers'[k].journal \in Seq(JournalLines)
          BY <1>2, <1>3, <3>1
        <5> QED
          BY <5>1, JournalWeights, WeighTyped
      <4>2. IsFiniteSet(1..n)
        <5>1. 1 \in Int /\ n \in Int
          BY ONLY <1>2
        <5> QED
          BY ONLY <5>1, FS_Interval
      <4>3. \A k \in 1..n : Entries(a, papers', n)[k] \in Int
        BY <4>1 DEF Entries
      <4> QED
        BY ONLY <4>2, <4>3, SumIsInteger DEF Entered
    <3> QED
      BY ONLY <1>2, <2>3, <3>2, <3>3, <3>4, <3>5, J = papers[m].journal
  <2> QED
    BY ONLY <1>3, <2>3, <2>4 DEF BooksAreEntered
<1> QED
  BY <1>5, <1>6 DEF PostingIInv

LEMMA PostingGoesOn == PostingIInv /\ [PostingNext]_postingVars => PostingIInv'
<1> SUFFICES ASSUME PostingIInv, [PostingNext]_postingVars PROVE PostingIInv'
  OBVIOUS
<1>1. CASE BookPaper
  BY <1>1, BookingAPaperStands
<1>2. CASE VoidPaper
  BY <1>2, VoidingAPaperStands
<1>3. CASE /\ paper' = paper /\ papers' = papers /\ books' = books /\ price' \in Prices
  BY <1>3 DEF PostingIInv, AllStand, BooksAreEntered
<1>4. CASE \E c \in Prices : ChangeCost(c)
  BY <1>3, <1>4 DEF ChangeCost
<1>5. CASE \E f \in {"off", "unregistered"} : SwitchFiling(f)
  <2>1. price \in Prices
    BY DEF PostingIInv, AllStand
  <2> QED
    BY <1>3, <1>5, <2>1 DEF SwitchFiling
<1>6. CASE UNCHANGED postingVars
  <2>1. price \in Prices
    BY DEF PostingIInv, AllStand
  <2> QED
    BY <1>3, <1>6, <2>1 DEF postingVars
<1> QED
  BY <1>1, <1>2, <1>4, <1>5, <1>6 DEF PostingNext

-----------------------------------------------------------------------------
(* What follows from the invariant.                                          *)

\* The papers and what they say, as the steps below need it.
LEMMA StandingPapers ==
  ASSUME PostingIInv
  PROVE  /\ paper \in Papers /\ Len(papers) \in Nat /\ DOMAIN papers = 1..Len(papers)
         /\ papers = <<>> <=> Len(papers) = 0
         /\ Len(papers) <= Len(paper.chain) /\ Len(paper.chain) \in 1..3
         /\ IsFiniteSet(1..Len(papers))
         /\ \A i \in 1..Len(papers) :
               /\ i \in 1..Len(paper.chain) /\ papers[i].type = paper.chain[i]
               /\ IsDrawnUp(paper, i, papers[i])
               /\ IsEntered(paper, i, papers[i], papers[i].journal)
               /\ papers[i].total \in Int /\ papers[i].worth \in Int /\ Money(papers[i].worth) \in Int
<1> PICK n : n = Len(papers)
  OBVIOUS
<1>1. AreDrawnUp /\ AllStand
  BY AllStandAreDrawnUp DEF PostingIInv
<1>2. /\ paper \in Papers /\ n \in Nat /\ DOMAIN papers = 1..n
      /\ papers = <<>> <=> n = 0
  BY <1>1 DEF AreDrawnUp
<1>3. n <= Len(paper.chain) /\ \A i \in 1..n : Stands(paper, i, papers[i])
  BY <1>1 DEF AllStand
<1>4. Len(paper.chain) \in 1..3
  BY <1>2, PapersAreChains DEF IsLed
<1>5. IsFiniteSet(1..n)
  <2>1. 1 \in Int /\ n \in Int
    BY ONLY <1>2
  <2> QED
    BY ONLY <2>1, FS_Interval
<1>6. \A i \in 1..n : i \in 1..Len(paper.chain)
  BY ONLY <1>2, <1>3, <1>4
<1>7. ASSUME NEW i \in 1..n
      PROVE  /\ papers[i].type = paper.chain[i]
             /\ papers[i].total \in Int /\ papers[i].worth \in Int /\ Money(papers[i].worth) \in Int
  BY <1>3, MoneyFacts DEF Stands, IsDrawnUp
<1> QED
  BY ONLY <1>2, <1>3, <1>4, <1>5, <1>6, <1>7, n = Len(papers) DEF Stands

\* What the books hold on an account is what the standing papers enter there.
LEMMA BooksHoldEntries ==
  ASSUME PostingIInv, NEW a \in BookAccounts,
         NEW f, \A i \in 1..Len(papers) : f[i] = Weigh(OnAccount(a), papers[i].journal)
  PROVE  books[a] = SumOf(f, 1..Len(papers))
<1> PICK n : n = Len(papers)
  OBVIOUS
<1>1. books[a] = Entered(a, papers, n)
  BY DEF PostingIInv, BooksAreEntered
<1>2. IsFiniteSet(1..n)
  BY StandingPapers
<1>3. \A i \in 1..n : f[i] = Entries(a, papers, n)[i]
  BY DEF Entries
<1>4. SumOf(f, 1..n) = SumOf(Entries(a, papers, n), 1..n)
  BY ONLY <1>2, <1>3, SumsAgree
<1> QED
  BY <1>1, <1>4 DEF Entered

LEMMA WithoutPapersNothing ==
  ASSUME PostingIInv, papers = <<>>
  PROVE  \A a \in BookAccounts : books[a] = 0
<1>1. Len(papers) = 0 /\ 1..0 = {}
  OBVIOUS
<1> QED
  BY <1>1, SumOfNone DEF PostingIInv, BooksAreEntered, Entered

LEMMA PartiesOweWhatPapersSay ==
  ASSUME PostingIInv
  PROVE  PartiesOweTotals
<1> PICK P, f, g, h, k, b :
      /\ P = 1..Len(papers)
      /\ f = [i \in DOMAIN papers |-> IF papers[i].type \in {"invoice"} THEN papers[i].total ELSE 0]
      /\ g = [i \in DOMAIN papers |-> IF papers[i].type \in {"credit_note"} THEN papers[i].total ELSE 0]
      /\ k = [i \in DOMAIN papers |-> IF papers[i].type \in {"bill"} THEN papers[i].total ELSE 0]
      /\ h = [i \in DOMAIN papers |-> 0 - g[i]]
      /\ b = [i \in DOMAIN papers |-> 0 - k[i]]
  OBVIOUS
<1>1. /\ Over({"invoice"}, TotalOf) = SumOf(f, P)
      /\ Over({"credit_note"}, TotalOf) = SumOf(g, P)
      /\ Over({"bill"}, TotalOf) = SumOf(k, P)
  <2>1. DOMAIN f = P /\ DOMAIN g = P /\ DOMAIN k = P
    BY StandingPapers
  <2>2. /\ Over({"invoice"}, TotalOf) = Total(f)
        /\ Over({"credit_note"}, TotalOf) = Total(g)
        /\ Over({"bill"}, TotalOf) = Total(k)
    BY DEF Over, TotalOf
  <2> QED
    BY ONLY <2>1, <2>2, TotalIsSum
<1>2. ASSUME NEW i \in P
      PROVE  /\ f[i] \in Int /\ g[i] \in Int /\ k[i] \in Int /\ h[i] \in Int
             /\ h[i] = 0 - g[i] /\ b[i] = 0 - k[i]
             /\ Weigh(OnAccount("accounts_receivable"), papers[i].journal) = f[i] + h[i]
             /\ Weigh(OnAccount("accounts_payable"), papers[i].journal) = b[i]
  <2> PICK t, v : t = papers[i].type /\ v = papers[i].total
    OBVIOUS
  <2>1. /\ i \in DOMAIN papers /\ v \in Int
        /\ Weigh(OnAccount("accounts_receivable"), papers[i].journal) =
              (IF t = "invoice" THEN v ELSE IF t = "credit_note" THEN - v ELSE 0)
        /\ Weigh(OnAccount("accounts_payable"), papers[i].journal) = (IF t = "bill" THEN - v ELSE 0)
    BY StandingPapers DEF IsEntered
  <2>2. /\ f[i] = (IF t = "invoice" THEN v ELSE 0) /\ g[i] = (IF t = "credit_note" THEN v ELSE 0)
        /\ k[i] = (IF t = "bill" THEN v ELSE 0) /\ h[i] = 0 - g[i] /\ b[i] = 0 - k[i]
    BY <2>1
  <2> QED
    BY ONLY <2>1, <2>2
<1> PICK r : r = [i \in P |-> f[i] + h[i]]
  OBVIOUS
<1>3. \A i \in P : r[i] = f[i] + h[i]
  OBVIOUS
<1>4. IsFiniteSet(P)
  BY StandingPapers
<1>5. books["accounts_receivable"] = SumOf(r, P) /\ books["accounts_payable"] = SumOf(b, P)
  <2>1. /\ \A i \in 1..Len(papers) : r[i] = Weigh(OnAccount("accounts_receivable"), papers[i].journal)
        /\ \A i \in 1..Len(papers) : b[i] = Weigh(OnAccount("accounts_payable"), papers[i].journal)
    BY ONLY <1>2, <1>3, P = 1..Len(papers)
  <2> QED
    BY ONLY <2>1, PostingIInv, AccountsOfBooks, BooksHoldEntries, P = 1..Len(papers)
<1>6. SumOf(r, P) = SumOf(f, P) + SumOf(h, P)
  BY ONLY <1>2, <1>3, <1>4, SumsAdd
<1>7. SumOf(h, P) = 0 - SumOf(g, P) /\ SumOf(b, P) = 0 - SumOf(k, P)
  BY ONLY <1>2, <1>4, SumOfOpposites
<1>8. SumOf(f, P) \in Int /\ SumOf(g, P) \in Int /\ SumOf(k, P) \in Int
  BY ONLY <1>2, <1>4, SumIsInteger
<1> QED
  BY ONLY <1>1, <1>5, <1>6, <1>7, <1>8 DEF PartiesOweTotals

LEMMA GoodsCostOnce ==
  ASSUME PostingIInv
  PROVE  GoodsAreCostedOnce
<1> PICK P, T, f, c, v :
      /\ P = 1..Len(papers)
      /\ T = {papers[i].type : i \in DOMAIN papers} \ NoCost
      /\ f = [i \in DOMAIN papers |-> IF papers[i].type \in T THEN Money(papers[i].worth) ELSE 0]
      /\ c = [i \in P |-> Weigh(OnAccount("cogs"), papers[i].journal)]
      /\ v = [i \in P |-> Weigh(OnAccount("inventory"), papers[i].journal)]
  OBVIOUS
<1>0. IsFiniteSet(P) /\ DOMAIN papers = P /\ DOMAIN f = P
  BY StandingPapers
<1>1. Cardinality({i \in DOMAIN papers : papers[i].worth < 0 /\ papers[i].movesGoods}) <= 1
  <2> PICK A : A = {i \in DOMAIN papers : papers[i].worth < 0 /\ papers[i].movesGoods}
    OBVIOUS
  <2>1. ASSUME NEW i \in A PROVE i = 1
    <3>1. i \in P /\ papers[i].worth < 0 /\ papers[i].movesGoods
      BY <1>0
    <3>2. paper \in Papers /\ i \in 1..Len(paper.chain) /\ IsDrawnUp(paper, i, papers[i])
      BY <3>1, StandingPapers
    <3> QED
      BY ONLY <3>1, <3>2, WorthHasItsSign
  <2>2. A = {} \/ A = {1}
    BY <2>1
  <2>3. Cardinality({}) = 0 /\ Cardinality({1}) = 1
    BY FS_EmptySet, FS_Singleton
  <2>4. Cardinality(A) = 0 \/ Cardinality(A) = 1
    BY ONLY <2>2, <2>3
  <2>5. Cardinality(A) <= 1
    BY ONLY <2>4
  <2> QED
    BY ONLY <2>5, A = {i \in DOMAIN papers : papers[i].worth < 0 /\ papers[i].movesGoods}
<1>2. ASSUME NEW i \in P
      PROVE  /\ f[i] \in Int /\ c[i] = 0 - f[i]
             /\ papers[i].type \notin NoCost => v[i] = 0 - c[i]
  <2> PICK t, m : t = papers[i].type /\ m = Money(papers[i].worth)
    OBVIOUS
  <2>1. /\ m \in Int /\ c[i] = (IF t \in NoCost THEN 0 ELSE - m)
        /\ t \notin NoCost => v[i] = m
    BY StandingPapers DEF IsEntered
  <2>2. t \in T <=> t \notin NoCost
    BY <1>0
  <2>3. f[i] = IF t \in NoCost THEN 0 ELSE m
    BY <1>0, <2>2
  <2> QED
    BY ONLY <2>1, <2>3, t = papers[i].type
<1>3. books["cogs"] = SumOf(c, P) /\ books["inventory"] = SumOf(v, P)
  <2>1. /\ \A i \in 1..Len(papers) : c[i] = Weigh(OnAccount("cogs"), papers[i].journal)
        /\ \A i \in 1..Len(papers) : v[i] = Weigh(OnAccount("inventory"), papers[i].journal)
    OBVIOUS
  <2> QED
    BY ONLY <2>1, PostingIInv, AccountsOfBooks, BooksHoldEntries, P = 1..Len(papers)
<1>4. SumOf(c, P) = 0 - SumOf(f, P) /\ SumOf(f, P) \in Int
  BY ONLY <1>0, <1>2, SumOfOpposites, SumIsInteger
<1>5. Over(T, WorthOf) = SumOf(f, P)
  <2>1. Over(T, WorthOf) = Total(f)
    BY DEF Over, WorthOf
  <2> QED
    BY ONLY <1>0, <2>1, TotalIsSum
<1>6. books["cogs"] = - Over({papers[i].type : i \in DOMAIN papers} \ NoCost, WorthOf)
  BY ONLY <1>3, <1>4, <1>5, T = {papers[i].type : i \in DOMAIN papers} \ NoCost
<1>7. ASSUME paper.chain[1] \notin NoCost PROVE books["inventory"] = - books["cogs"]
  <2>1. \A i \in P : papers[i].type \notin NoCost
    <3>1. paper \in Papers /\ \A i \in P : i \in 1..Len(paper.chain) /\ papers[i].type = paper.chain[i]
      BY StandingPapers
    <3>2. \A i \in 1..Len(paper.chain) : paper.chain[i] \notin NoCost
      BY <1>7, <3>1, PapersAreChains DEF IsLed
    <3> QED
      BY <3>1, <3>2
  <2>2. \A i \in P : c[i] \in Int /\ v[i] = 0 - c[i]
    BY ONLY <1>2, <2>1
  <2>3. SumOf(v, P) = 0 - SumOf(c, P)
    BY ONLY <1>0, <2>2, SumOfOpposites
  <2> QED
    BY ONLY <1>3, <1>4, <2>3
<1> QED
  BY <1>1, <1>6, <1>7 DEF GoodsAreCostedOnce

LEMMA GoodsComeBackAtCost ==
  ASSUME PostingIInv
  PROVE  GoodsComeBack
<1> SUFFICES ASSUME NEW i \in DOMAIN papers, NEW j \in DOMAIN papers,
                    papers[i].movesGoods, papers[j].type = "credit_note",
                    i < j, papers[i].cost = papers[j].cost
             PROVE  papers[i].worth + papers[j].worth = 0
  BY DEF GoodsComeBack
<1> PICK t, c, lines : t = papers[i].type /\ c = papers[i].cost /\ lines = paper.lines
  OBVIOUS
<1>1. /\ paper \in Papers /\ i \in Nat /\ j \in Nat /\ i >= 1
      /\ j \in 1..Len(paper.chain) /\ i \in 1..Len(paper.chain)
      /\ t = paper.chain[i] /\ papers[j].type = paper.chain[j]
      /\ IsDrawnUp(paper, i, papers[i]) /\ IsDrawnUp(paper, j, papers[j])
  BY StandingPapers
<1>2. t \in {"delivery_challan", "invoice"}
  <2>1. IsPlaced(paper.chain, j) /\ i \in 1..(j - 1)
    BY <1>1, PapersAreChains
  <2> QED
    BY <1>1, <2>1 DEF IsPlaced
<1>3. Direction(t) = -1 /\ Direction("credit_note") = 1
      /\ ~PricedAtCost(t) /\ ~PricedAtCost("credit_note")
  BY <1>2 DEF Direction, PricedAtCost
<1>4. papers[j].movesGoods
  BY <1>1, <1>3 DEF IsDrawnUp
<1>5. /\ papers[i].worth = Direction(t) * GoodsAt(t, lines, c)
      /\ papers[j].worth = Direction("credit_note") * GoodsAt("credit_note", lines, c)
  BY <1>1, <1>3, <1>4 DEF IsDrawnUp
<1>6. GoodsAt(t, lines, c) = GoodsAt("credit_note", lines, c)
  BY <1>3 DEF GoodsAt
<1>7. GoodsAt("credit_note", lines, c) \in Nat
  <2>1. IsWritten(paper)
    BY <1>1, <1>3, PapersAreChains DEF IsFilledIn
  <2>2. c \in Nat
    BY <1>1 DEF IsDrawnUp
  <2> QED
    BY <2>1, <2>2, GoodsAreNatural
<1> QED
  BY ONLY <1>3, <1>5, <1>6, <1>7

LEMMA ReceiptsClear ==
  ASSUME PostingIInv
  PROVE  ReceiptsAreCleared
<1> SUFFICES ASSUME paper.chain[1] = "goods_receipt", IsPlain(paper)
             PROVE  books["grni"] = IF Len(papers) = 1 THEN - Money(papers[1].worth) ELSE 0
  BY DEF ReceiptsAreCleared
<1> PICK n, g : n = Len(papers) /\ g = [i \in 1..n |-> Weigh(OnAccount("grni"), papers[i].journal)]
  OBVIOUS
<1>1. /\ paper \in Papers /\ n \in Nat /\ n <= Len(paper.chain)
      /\ Len(paper.chain) = 2 /\ paper.chain[2] = "bill"
      /\ n = 0 => papers = <<>>
      /\ \A i \in 1..n : /\ papers[i].type = paper.chain[i] /\ IsDrawnUp(paper, i, papers[i])
                         /\ IsEntered(paper, i, papers[i], papers[i].journal)
                         /\ Money(papers[i].worth) \in Int
  BY StandingPapers, PapersAreChains DEF IsLed
<1>2. books["grni"] = SumOf(g, 1..n)
  <2>1. \A i \in 1..Len(papers) : g[i] = Weigh(OnAccount("grni"), papers[i].journal)
    OBVIOUS
  <2> QED
    BY ONLY <2>1, PostingIInv, AccountsOfBooks, BooksHoldEntries, n = Len(papers)
<1>3. n = 0 \/ n = 1 \/ n = 2
  BY ONLY <1>1
<1>4. CASE n = 0
  BY <1>1, <1>4, WithoutPapersNothing, AccountsOfBooks
<1> PICK m : m = Money(papers[1].worth)
  OBVIOUS
<1>5. ASSUME n = 1 \/ n = 2 PROVE g[1] = - m /\ m \in Int
  <2>1. 1 \in 1..n
    BY ONLY <1>5
  <2>2. g[1] = Weigh(OnAccount("grni"), papers[1].journal)
    BY <2>1
  <2>3. papers[1].type = "goods_receipt" /\ IsEntered(paper, 1, papers[1], papers[1].journal)
    BY <1>1, <2>1
  <2>4. Weigh(OnAccount("grni"), papers[1].journal) = - m
    BY ONLY <2>3, m = Money(papers[1].worth) DEF IsEntered
  <2> QED
    BY <1>1, <2>1, <2>2, <2>4
<1>6. CASE n = 1
  <2>1. 1..n = {1}
    BY ONLY <1>6
  <2>2. SumOf(g, {1}) = g[1]
    BY ONLY <1>5, <1>6, SumOfOne
  <2> QED
    BY ONLY <1>2, <1>5, <1>6, <2>1, <2>2, n = Len(papers), m = Money(papers[1].worth)
<1>7. CASE n = 2
  <2>1. 1 \in 1..n /\ 2 \in 1..n /\ 1..n = {1, 2}
    BY ONLY <1>7
  <2> PICK worth, rest : worth = papers[1].worth /\ rest = papers[2].total - papers[2].tax
    OBVIOUS
  <2>2. /\ papers[1].type = "goods_receipt" /\ papers[2].type = "bill"
        /\ IsDrawnUp(paper, 1, papers[1]) /\ IsDrawnUp(paper, 2, papers[2])
        /\ IsEntered(paper, 2, papers[2], papers[2].journal)
    BY <1>1, <2>1
  <2>3. Direction("goods_receipt") = 1 /\ Direction("bill") = 1
    BY DEF Direction
  <2>4. IsWritten(paper)
    BY <1>1, <2>3, PapersAreChains DEF IsFilledIn, IsLed
  <2>5. worth = GoodsAt("goods_receipt", paper.lines, papers[1].cost)
    <3>1. GoodsAt("goods_receipt", paper.lines, papers[1].cost) \in Nat
      BY <2>2, <2>4, GoodsAreNatural DEF IsDrawnUp
    <3>2. worth = 1 * GoodsAt("goods_receipt", paper.lines, papers[1].cost)
      BY ONLY <2>2, <2>3, worth = papers[1].worth DEF IsDrawnUp
    <3> QED
      BY ONLY <3>1, <3>2
  <2>6. rest = Total(Each(Taxable, paper.lines)) + Cent * paper.extra
    BY <2>2, <2>3 DEF IsDrawnUp
  <2>7. /\ Total(Each(Taxable, paper.lines)) = GoodsAt("goods_receipt", paper.lines, papers[1].cost)
        /\ Cent * paper.extra = 0
    BY <2>4, PlainGoods
  <2>8. rest \in Whole /\ rest \in Int
    <3>1. papers[2].total \in Whole /\ papers[2].tax \in Whole
      BY <2>2, <2>3 DEF IsDrawnUp, IsStated
    <3> QED
      BY ONLY <3>1, WholeCents, rest = papers[2].total - papers[2].tax
  <2>9. rest = worth
    <3>1. worth \in Int
      BY <2>2 DEF IsDrawnUp
    <3> QED
      BY ONLY <2>5, <2>6, <2>7, <3>1
  <2>10. m = rest
    BY ONLY <2>8, <2>9, WholeCents, worth = papers[1].worth, m = Money(papers[1].worth)
  <2>11. g[2] = rest
    <3>1. g[2] = Weigh(OnAccount("grni"), papers[2].journal)
      BY <2>1
    <3>2. Weigh(OnAccount("grni"), papers[2].journal) = rest
      BY ONLY <2>2, rest = papers[2].total - papers[2].tax DEF IsEntered
    <3> QED
      BY <3>1, <3>2
  <2>12. SumOf(g, {1, 2}) = g[1] + g[2]
    <3>1. IsFiniteSet({1, 2}) /\ {1, 2} \ {1} = {2}
      <4>1. IsFiniteSet(1..n)
        BY StandingPapers
      <4>2. {1, 2} \ {1} = {2}
        OBVIOUS
      <4> QED
        BY ONLY <2>1, <4>1, <4>2
    <3>2. \A x \in {1, 2} : g[x] \in Int
      BY ONLY <1>5, <1>7, <2>8, <2>11
    <3>3. SumOf(g, {1, 2}) = g[1] + SumOf(g, {1, 2} \ {1})
      BY ONLY <3>1, <3>2, SumTakes
    <3>4. SumOf(g, {2}) = g[2]
      BY ONLY <3>2, SumOfOne
    <3> QED
      BY ONLY <3>1, <3>3, <3>4
  <2>13. SumOf(g, 1..n) = 0
    BY ONLY <1>5, <1>7, <2>1, <2>8, <2>10, <2>11, <2>12
  <2> QED
    BY ONLY <1>2, <1>7, <2>13, n = Len(papers)
<1> QED
  BY <1>3, <1>4, <1>6, <1>7

LEMMA ExpensesSplit ==
  ASSUME PostingIInv
  PROVE  ExpenseIsSplit
<1> SUFFICES ASSUME paper.chain = <<"expense">>, papers # <<>>
             PROVE  /\ books["bank"] = - ExpenseTotal(paper)
                    /\ books["operating_expenses"] = ExpenseTotal(paper) - books["input_tax"]
  BY DEF ExpenseIsSplit
<1>1. /\ paper \in Papers /\ Len(papers) \in Nat /\ Len(papers) # 0
      /\ Len(papers) <= Len(paper.chain)
      /\ Len(paper.chain) = 1 /\ paper.chain[1] = "expense"
  <2>1. /\ paper \in Papers /\ Len(papers) \in Nat /\ (papers = <<>> <=> Len(papers) = 0)
        /\ Len(papers) <= Len(paper.chain)
    BY StandingPapers
  <2>2. Len(paper.chain) = 1 /\ paper.chain[1] = "expense"
    BY <2>1, PapersAreChains
  <2>3. Len(papers) # 0
    BY ONLY <2>1, papers # <<>>
  <2> QED
    BY ONLY <2>1, <2>2, <2>3
<1>2. Len(papers) = 1 /\ 1 \in 1..Len(papers) /\ 1..Len(papers) = {1}
  <2> PICK n : n = Len(papers)
    OBVIOUS
  <2>1. n \in Nat /\ n # 0 /\ n <= 1
    BY ONLY <1>1, n = Len(papers)
  <2>2. n = 1
    BY ONLY <2>1
  <2>3. 1 \in 1..1 /\ 1..1 = {1}
    OBVIOUS
  <2> QED
    BY ONLY <2>2, <2>3, n = Len(papers)
<1> PICK total, tax, J : total = ExpenseTotal(paper) /\ tax = TaxEntered(paper) /\ J = papers[1].journal
  OBVIOUS
<1>3. papers[1].type = "expense" /\ papers[1].total = total
  <2>1. papers[1].type = paper.chain[1] /\ IsDrawnUp(paper, 1, papers[1])
    BY <1>2, StandingPapers
  <2>2. papers[1].type = "expense"
    BY ONLY <1>1, <2>1
  <2> QED
    BY ONLY <2>1, <2>2, total = ExpenseTotal(paper) DEF IsDrawnUp
<1>4. /\ Weigh(OnAccount("bank"), J) = - total
      /\ Weigh(OnAccount("operating_expenses"), J) = total - tax
      /\ Weigh(OnAccount("input_tax"), J) = tax
  <2>1. IsEntered(paper, 1, papers[1], J)
    BY <1>2, StandingPapers
  <2> QED
    BY ONLY <1>3, <2>1, tax = TaxEntered(paper) DEF IsEntered
<1>5. total \in Int /\ tax \in Int
  <2>1. IsExpense(paper)
    BY <1>1, PapersAreChains DEF IsFilledIn
  <2>2. 0 \in Int /\ paper.tax \in Int /\ total \in Int
    BY <2>1, ExpenseAmounts, WholeCents
  <2> QED
    BY <2>2 DEF TaxEntered
<1>6. ASSUME NEW a \in BookAccounts, Weigh(OnAccount(a), J) \in Int
      PROVE  books[a] = Weigh(OnAccount(a), J)
  <2> PICK f : f = [i \in {1} |-> Weigh(OnAccount(a), papers[i].journal)]
    OBVIOUS
  <2>1. \A i \in 1..Len(papers) : f[i] = Weigh(OnAccount(a), papers[i].journal)
    BY <1>2
  <2>2. books[a] = SumOf(f, 1..Len(papers))
    BY ONLY <2>1, PostingIInv, a \in BookAccounts, BooksHoldEntries
  <2>3. f[1] = Weigh(OnAccount(a), J)
    OBVIOUS
  <2>4. SumOf(f, {1}) = f[1]
    BY ONLY <1>6, <2>3, SumOfOne
  <2> QED
    BY ONLY <1>2, <2>2, <2>3, <2>4
<1>7. books["bank"] = - total /\ books["operating_expenses"] = total - tax /\ books["input_tax"] = tax
  <2>1. - total \in Int /\ total - tax \in Int
    BY ONLY <1>5
  <2> QED
    BY ONLY <1>4, <1>5, <1>6, <2>1, AccountsOfBooks
<1> QED
  BY ONLY <1>5, <1>7, total = ExpenseTotal(paper)

LEMMA RefusalsAreRight ==
  ASSUME PostingIInv
  PROVE  RefusedIsUnbookable
<1> SUFFICES ASSUME Len(papers) < Len(paper.chain)
             PROVE  Accepted(JournalOf(NextPaper)) <=> IsBookable(NextPaper)
  BY DEF RefusedIsUnbookable
<1>1. AreDrawnUp
  BY AllStandAreDrawnUp DEF PostingIInv
<1> PICK i, d, J : i = Len(papers) + 1 /\ d = NextPaper /\ J = JournalOf(d)
  OBVIOUS
<1>2. i \in 1..Len(paper.chain) /\ i = Len(papers) + 1
  BY StandingPapers
<1> QED
  BY <1>1, <1>2, NextIsEntered

\* The invariant holds of every state: whatever papers and prices there are, each
\* finalized paper says what the pricing gives it, its journal enters that and ties, and
\* every account holds what the standing papers enter there (LedgerPoster's builders,
\* validate_lines, and the mirrored lines of a void).
THEOREM PostingInductive == PostingSpec => []PostingIInv
<1>1. PostingInit => PostingIInv
  BY PostingStarts
<1>2. PostingIInv /\ [PostingNext]_postingVars => PostingIInv'
  BY PostingGoesOn
<1> QED
  BY <1>1, <1>2, PTL DEF PostingSpec

LEMMA BooksFollowPapers == PostingIInv => PostingsFollowDocuments
<1> SUFFICES ASSUME PostingIInv PROVE PostingsFollowDocuments
  OBVIOUS
<1>1. \A a \in BookAccounts : papers = <<>> => books[a] = 0
  BY WithoutPapersNothing
<1>2. MapThenSumSet(LAMBDA a : books[a], BookAccounts) = 0
  <2>1. SumOf(books, BookAccounts) = 0
    BY DEF PostingIInv, BooksAreEntered
  <2> QED
    BY ONLY <2>1 DEF SumOf
<1>3. PartiesOweTotals /\ GoodsAreCostedOnce /\ GoodsComeBack
  BY PartiesOweWhatPapersSay, GoodsCostOnce, GoodsComeBackAtCost
<1>4. ReceiptsAreCleared /\ ExpenseIsSplit /\ RefusedIsUnbookable
  BY ReceiptsClear, ExpensesSplit, RefusalsAreRight
<1> QED
  BY ONLY <1>1, <1>2, <1>3, <1>4 DEF PostingsFollowDocuments

\* Whatever chain of papers is finalized and voided, with prices and filing changing on the
\* way: the books hold what the standing papers say and nothing of the voided ones, goods
\* are costed once and come back at that cost, a receipt is cleared by its bill, and the
\* books refuse exactly the papers that cannot be booked (documents/service.py's totals
\* and stock value, expenses/totals.py, accounting/poster.py).
THEOREM PostingsFollow == PostingSpec => []PostingsFollowDocuments
<1>1. PostingIInv => PostingsFollowDocuments
  BY BooksFollowPapers
<1> QED
  BY <1>1, PostingInductive, PTL

=============================================================================
