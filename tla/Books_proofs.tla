---------------------------- MODULE Books_proofs ----------------------------
(***************************************************************************)
(* Proofs about Books, for any accounts, parties, vouchers and days and any    *)
(* number of clerks at the same time: the ledger follows its vouchers, a party *)
(* owes the opening balance last entered, and the statements tie.              *)
(*                                                                          *)
(* A request writes what it read earlier.  JobsAreAsRead says what the read is  *)
(* worth by then: still so, unless another wrote the same voucher in between,   *)
(* and what rests on a stale read is recorded as raced.  EntriesBalance holds   *)
(* even then, which is why the statements tie whatever raced.                  *)
(***************************************************************************)
EXTENDS Books, Sums_proofs

Lines == [account : Accounts, amount : Int, party : Parties \cup {NoOne}]
BookEntries == [account : Accounts, amount : Int, party : Parties \cup {NoOne}, day : Days]
Booked ==
    [type : {"journal", "opening", "reversal"}, status : {"draft", "posted", "reversed", "cancelled"},
     day : Days, year : Days, lines : Seq(Lines), source : Parties \cup {NoOne}, from : Nat,
     entries : Seq(BookEntries)]
VoucherJobs ==
    [kind : {"update", "post", "cancel", "reverse"}, subject : Parties \cup Nat, voucher : Nat,
     stale : BOOLEAN, linesGone : BOOLEAN]
OpeningJobs ==
    [kind : {"opening"}, subject : Parties, existing : Nat, stale : BOOLEAN, linesGone : BOOLEAN]

\* Accounts, the calendar, vouchers, openings and requests keep their types.
BooksTypeOK ==
    /\ account \in [Accounts -> [kept : BOOLEAN, active : BOOLEAN, parent : Accounts \cup {NoOne}]]
    /\ year \in [Days -> BOOLEAN] /\ open \in [Days -> BOOLEAN]
    /\ voucher \in Seq(Booked)
    /\ entered \in [Parties -> Int] /\ vendor \in [Parties -> BOOLEAN]
    /\ turns \in Nat
    /\ job \in [Clerks -> {Resting} \cup VoucherJobs \cup OpeningJobs]
    /\ raced \subseteq Nat \cup Parties

\* Only journals are ever drafts; what is a draft was never posted; a reversal is of a
\* voucher written before it.
VouchersAreFounded ==
    \A v \in DOMAIN voucher :
        /\ voucher[v].from < v
        /\ voucher[v].type # "reversal" => voucher[v].from = 0
        /\ voucher[v].type = "journal" => voucher[v].source = NoOne
        /\ voucher[v].status = "draft" => voucher[v].type = "journal" /\ voucher[v].entries = <<>>

\* A request about a voucher found it in the status it needs, and it is still so unless
\* another wrote meanwhile; only journals are edited, posted and cancelled.
VoucherIsAsRead(r) ==
    /\ r.voucher \in DOMAIN voucher /\ r.subject = Subject(r.voucher)
    /\ r.kind # "reverse" => voucher[r.voucher].type = "journal"
    /\ ~r.stale => voucher[r.voucher].status \in StatusFor(r.kind)

\* A request about a party's opening balance found what stands of it.
OpeningIsAsRead(r) ==
    /\ r.existing # 0 => r.existing \in DOMAIN voucher /\ voucher[r.existing].source = r.subject
    /\ ~r.stale => IF r.existing = 0 THEN OpeningOf(r.subject) = {}
                   ELSE r.existing \in OpeningOf(r.subject)

JobsAreAsRead ==
    \A c \in Clerks :
        /\ job[c] \in VoucherJobs => VoucherIsAsRead(job[c])
        /\ job[c] \in OpeningJobs => OpeningIsAsRead(job[c])

\* BooksFollowVouchers, of one voucher.
ReversalsOf(v) == {r \in DOMAIN voucher : voucher[r].from = v}

FollowsVoucher(v) ==
    /\ voucher[v].entries = IF voucher[v].status \in {"posted", "reversed"}
                              THEN EntriesOf(voucher[v].lines, voucher[v].day) ELSE <<>>
    /\ IF voucher[v].status = "reversed" THEN \E r \in DOMAIN voucher : ReversalsOf(v) = {r}
       ELSE ReversalsOf(v) = {}
    /\ \A r \in ReversalsOf(v) :
          voucher[r].entries = EntriesOf(Mirror(voucher[v].lines), voucher[r].day)

EntriesFollow == \A v \in DOMAIN voucher \ raced : FollowsVoucher(v)

\* Of these lines the j-th is the only one on p, and its amount is x.
Bears(L, p, j, x) ==
    {i \in DOMAIN L : L[i].party = p} = {j} /\ L[j].amount = x

\* What stands of a party's opening balance is one voucher, with one entry on the
\* party: what was last entered.
OpeningStandsFor(p) ==
    IF OpeningOf(p) = {} THEN entered[p] = 0
    ELSE \E o \in DOMAIN voucher, j \in Nat :
        /\ OpeningOf(p) = {o}
        /\ voucher[o].entries = EntriesOf(voucher[o].lines, voucher[o].day)
        /\ Bears(voucher[o].lines, p, j, entered[p])

OpeningsStand == \A p \in Parties \ raced : OpeningStandsFor(p)

\* Entries that add up to nothing, of day d and on accounts one may post to.
BalancedOn(E, d) ==
    /\ LinesTotal(E) = 0
    /\ \A i \in DOMAIN E : E[i].day = d /\ E[i].account \notin Header

\* What is in the ledger is balanced, voucher by voucher, on one day each.
EntriesBalance ==
    \A v \in DOMAIN voucher : \E d \in Days : BalancedOn(voucher[v].entries, d)

\* A request that posts a voucher found no entries; what others have posted since, while
\* it holds the lines, is of the same day.
PostersShareDay ==
    \A c \in Clerks : job[c] \in VoucherJobs /\ job[c].kind = "post" /\ ~job[c].linesGone =>
        BalancedOn(voucher[job[c].voucher].entries, voucher[job[c].voucher].day)

BooksIInv ==
    /\ BooksTypeOK
    /\ VouchersAreFounded
    /\ JobsAreAsRead
    /\ EntriesFollow
    /\ OpeningsStand
    /\ PartyOwesOpening
    /\ EntriesBalance
    /\ PostersShareDay

-----------------------------------------------------------------------------
(* Sequences of vouchers and of lines.                                       *)

LEMMA Appending ==
  ASSUME NEW S, NEW s \in Seq(S), NEW x \in S
  PROVE  /\ Append(s, x) \in Seq(S) /\ Len(s) \in Nat
         /\ DOMAIN s = 1..Len(s) /\ DOMAIN Append(s, x) = 1..(Len(s) + 1)
         /\ Append(s, x)[Len(s) + 1] = x
         /\ \A i \in DOMAIN s : Append(s, x)[i] = s[i]
OBVIOUS

LEMMA ElementsKeepType ==
  ASSUME NEW S, NEW s \in Seq(S), NEW i \in DOMAIN s
  PROVE  s[i] \in S
OBVIOUS

LEMMA Joining ==
  ASSUME NEW S, NEW s \in Seq(S), NEW t \in Seq(S)
  PROVE  s \o t \in Seq(S) /\ <<>> \o t = t
OBVIOUS

LEMMA Replacing ==
  ASSUME NEW S, NEW s \in Seq(S), NEW k \in DOMAIN s, NEW x \in S
  PROVE  /\ [s EXCEPT ![k] = x] \in Seq(S) /\ DOMAIN [s EXCEPT ![k] = x] = DOMAIN s
         /\ Len([s EXCEPT ![k] = x]) = Len(s)
         /\ [s EXCEPT ![k] = x][k] = x
         /\ \A i \in DOMAIN s : i # k => [s EXCEPT ![k] = x][i] = s[i]
OBVIOUS

LEMMA LinesBecomeEntries ==
  ASSUME NEW L \in Seq(Lines), NEW d \in Days
  PROVE  /\ EntriesOf(L, d) \in Seq(BookEntries) /\ DOMAIN EntriesOf(L, d) = DOMAIN L
         /\ \A i \in DOMAIN L : EntriesOf(L, d)[i] = [account |-> L[i].account,
                   amount |-> L[i].amount, party |-> L[i].party, day |-> d]
<1>1. DOMAIN L = 1..Len(L) /\ Len(L) \in Nat /\ \A i \in DOMAIN L : L[i] \in Lines
  OBVIOUS
<1>2. \A i \in DOMAIN L : [account |-> L[i].account, amount |-> L[i].amount,
                           party |-> L[i].party, day |-> d] \in BookEntries
  BY <1>1 DEF Lines, BookEntries
<1>3. EntriesOf(L, d) \in [1..Len(L) -> BookEntries]
  BY <1>1, <1>2 DEF EntriesOf
<1> QED
  BY <1>1, <1>3 DEF EntriesOf

LEMMA MirroredLines ==
  ASSUME NEW L \in Seq(Lines)
  PROVE  /\ Mirror(L) \in Seq(Lines) /\ DOMAIN Mirror(L) = DOMAIN L
         /\ \A i \in DOMAIN L : Mirror(L)[i] = [L[i] EXCEPT !.amount = - @]
<1>1. DOMAIN L = 1..Len(L) /\ Len(L) \in Nat /\ \A i \in DOMAIN L : L[i] \in Lines
  OBVIOUS
<1>2. \A i \in DOMAIN L : [L[i] EXCEPT !.amount = - @] \in Lines
  BY <1>1 DEF Lines
<1>3. Mirror(L) \in [1..Len(L) -> Lines]
  BY <1>1, <1>2 DEF Mirror
<1> QED
  BY <1>1, <1>3 DEF Mirror

\* A voucher as it is written, and once it is posted.
LEMMA NewVouchers ==
  ASSUME NEW type \in {"journal", "opening", "reversal"}, NEW d \in Days,
         NEW L \in Seq(Lines), NEW p \in Parties \cup {NoOne}, NEW from \in Nat,
         NEW n, n = NewVoucher(type, d, L, p, from)
  PROVE  /\ n \in Booked /\ Posted(n) \in Booked
         /\ n.type = type /\ n.status = "draft" /\ n.day = d /\ n.lines = L /\ n.source = p
         /\ n.from = from /\ n.entries = <<>>
         /\ Posted(n).type = type /\ Posted(n).status = "posted" /\ Posted(n).day = d
         /\ Posted(n).lines = L /\ Posted(n).source = p /\ Posted(n).from = from
         /\ Posted(n).entries = EntriesOf(L, d)
<1>1. n \in Booked /\ n.type = type /\ n.status = "draft" /\ n.day = d /\ n.lines = L
      /\ n.source = p /\ n.from = from /\ n.entries = <<>>
  BY DEF NewVoucher, Booked
<1>2. EntriesOf(L, d) \in Seq(BookEntries)
  BY LinesBecomeEntries
<1>3. <<>> \o EntriesOf(L, d) = EntriesOf(L, d)
  BY <1>2
<1>4. Posted(n) = [n EXCEPT !.status = "posted", !.year = d, !.entries = EntriesOf(L, d)]
  BY <1>1, <1>3 DEF Posted, Booked
<1>5. Posted(n) \in Booked
  BY <1>1, <1>2, <1>4 DEF Booked
<1>6. /\ Posted(n).type = type /\ Posted(n).status = "posted" /\ Posted(n).day = d
      /\ Posted(n).lines = L /\ Posted(n).source = p /\ Posted(n).from = from
      /\ Posted(n).entries = EntriesOf(L, d)
  BY <1>1, <1>4 DEF Booked
<1> QED
  BY <1>1, <1>5, <1>6

-----------------------------------------------------------------------------
(* What lines and entries add up to.                                         *)

AmountsOf(L) == [i \in DOMAIN L |-> L[i].amount]

LEMMA TotalIsSum ==
  ASSUME NEW L
  PROVE  LinesTotal(L) = SumOf(AmountsOf(L), DOMAIN L)
<1> DEFINE S == DOMAIN L
           f == AmountsOf(L)
           A(g) == [t \in SUBSET S |->
                      IF t = {} THEN 0
                      ELSE L[CHOOSE x \in t : TRUE].amount + g[t \ {CHOOSE x \in t : TRUE}]]
           B(g) == [t \in SUBSET S |->
                      IF t = {} THEN 0
                      ELSE f[CHOOSE x \in t : TRUE] + g[t \ {CHOOSE x \in t : TRUE}]]
<1>1. \A g : A(g) = B(g)
  <2>1. \A t \in SUBSET S : t # {} =>
          f[CHOOSE x \in t : TRUE] = L[CHOOSE x \in t : TRUE].amount
    BY DEF AmountsOf
  <2> HIDE DEF S, f
  <2> QED
    BY <2>1
<1>2. LinesTotal(L) = (CHOOSE g : g = A(g))[S]
  BY DEF LinesTotal, TotalOver, MapThenSumSet, MapThenFoldSet
<1>3. SumOf(f, S) = (CHOOSE g : g = B(g))[S]
  BY DEF SumOf, MapThenSumSet, MapThenFoldSet
<1>4. (CHOOSE g : g = A(g)) = (CHOOSE g : g = B(g))
  <2> HIDE DEF A, B
  <2> QED BY <1>1
<1> QED
  BY <1>2, <1>3, <1>4

LEMMA TotalOfEntries ==
  ASSUME NEW L \in Seq(Lines), NEW d \in Days
  PROVE  LinesTotal(EntriesOf(L, d)) = LinesTotal(L)
<1>1. AmountsOf(EntriesOf(L, d)) = AmountsOf(L)
  <2>1. DOMAIN EntriesOf(L, d) = DOMAIN L
        /\ \A i \in DOMAIN L : EntriesOf(L, d)[i].amount = L[i].amount
    BY DEF EntriesOf
  <2> QED
    BY <2>1 DEF AmountsOf
<1> QED
  BY <1>1, TotalIsSum, LinesBecomeEntries

LEMMA TotalOfMirror ==
  ASSUME NEW L \in Seq(Lines), LinesTotal(L) = 0
  PROVE  LinesTotal(Mirror(L)) = 0
<1>1. IsFiniteSet(DOMAIN L)
  <2>1. DOMAIN L = 1..Len(L) /\ Len(L) \in Nat
    OBVIOUS
  <2> QED
    BY <2>1, FS_Interval
<1>2. \A i \in DOMAIN L : AmountsOf(L)[i] \in Int /\ AmountsOf(Mirror(L))[i] = 0 - AmountsOf(L)[i]
  <2>1. DOMAIN Mirror(L) = DOMAIN L
    BY MirroredLines
  <2>2. ASSUME NEW i \in DOMAIN L
        PROVE  L[i].amount \in Int /\ Mirror(L)[i].amount = 0 - L[i].amount
    <3>1. L[i] \in Lines /\ Mirror(L)[i] = [L[i] EXCEPT !.amount = - @]
      BY MirroredLines
    <3> QED
      BY <3>1 DEF Lines
  <2> QED
    BY <2>1, <2>2 DEF AmountsOf
<1>3. SumOf(AmountsOf(Mirror(L)), DOMAIN L) = 0 - SumOf(AmountsOf(L), DOMAIN L)
  BY <1>1, <1>2, SumOfOpposites
<1> QED
  BY <1>3, TotalIsSum, MirroredLines

\* Entries beside others: both together add up to what they add up to apart.
LEMMA TotalOfBoth ==
  ASSUME NEW A \in Seq(BookEntries), NEW B \in Seq(BookEntries)
  PROVE  LinesTotal(A \o B) = LinesTotal(A) + LinesTotal(B)
<1> DEFINE m == Len(A)
           n == Len(B)
           C == A \o B
           f == AmountsOf(C)
           S == 1..m
           T == (m + 1)..(m + n)
<1>1. /\ m \in Nat /\ n \in Nat /\ DOMAIN A = 1..m /\ DOMAIN B = 1..n /\ DOMAIN C = 1..(m + n)
      /\ \A i \in 1..m : C[i] = A[i]
      /\ \A i \in 1..n : C[m + i] = B[i]
  OBVIOUS
<1>2. /\ \A i \in DOMAIN A : AmountsOf(A)[i] \in Int
      /\ \A i \in DOMAIN B : AmountsOf(B)[i] \in Int
  <2>1. /\ \A i \in DOMAIN A : A[i] \in BookEntries
        /\ \A i \in DOMAIN B : B[i] \in BookEntries
    OBVIOUS
  <2> QED
    BY <2>1 DEF AmountsOf, BookEntries
<1> HIDE DEF m, n, C
<1>3. IsFiniteSet(S) /\ IsFiniteSet(T) /\ S \cap T = {} /\ S \cup T = DOMAIN C
  <2>1. IsFiniteSet(S) /\ IsFiniteSet(T)
    BY <1>1, FS_Interval
  <2>2. S \cap T = {} /\ S \cup T = DOMAIN C
    BY <1>1
  <2> QED
    BY <2>1, <2>2
<1>4. \A i \in S : f[i] = AmountsOf(A)[i]
  BY <1>1 DEF AmountsOf
<1>5. \A i \in 1..n : f[m + i] = AmountsOf(B)[i]
  BY <1>1 DEF AmountsOf
<1>6. \A i \in T : i - m \in 1..n /\ m + (i - m) = i
  BY <1>1
<1>7. \A i \in S \cup T : f[i] \in Int
  <2>1. \A i \in S : f[i] \in Int
    BY <1>1, <1>2, <1>4
  <2>2. ASSUME NEW i \in T PROVE f[i] \in Int
    <3>1. i - m \in 1..n /\ f[m + (i - m)] = AmountsOf(B)[i - m]
      BY <1>5, <1>6
    <3> QED
      BY <1>1, <1>2, <1>6, <3>1
  <2> QED
    BY <2>1, <2>2
<1>8. SumOf(f, DOMAIN C) = SumOf(f, S) + SumOf(f, T)
  <2> HIDE DEF f, S, T
  <2> QED BY <1>3, <1>7, SumOfUnion
<1>9. SumOf(f, S) = SumOf(AmountsOf(A), DOMAIN A)
  <2> HIDE DEF f
  <2> QED BY <1>1, <1>3, <1>4, SumsAgree
<1>10. SumOf(f, T) = SumOf(AmountsOf(B), DOMAIN B)
  <2> DEFINE t == [i \in 1..n |-> m + i]
             h == AmountsOf(B)
  <2>1. T = {t[i] : i \in 1..n}
    BY <1>1, <1>6
  <2>2. \A i, j \in 1..n : t[i] = t[j] => i = j
    BY <1>1
  <2>3. \A i \in 1..n : h[i] = f[t[i]] /\ f[t[i]] \in Int
    BY <1>1, <1>2, <1>5
  <2>4. IsFiniteSet(1..n)
    BY <1>1, FS_Interval
  <2> HIDE DEF t, h, f, T
  <2> DEFINE N == 1..n
  <2>5. IsFiniteSet(N) /\ (\A i \in N : h[i] = f[t[i]] /\ f[t[i]] \in Int)
        /\ (\A i, j \in N : t[i] = t[j] => i = j)
    BY <2>2, <2>3, <2>4
  <2> HIDE DEF N
  <2>6. SumOf(h, N) = SumOf(f, {t[i] : i \in N})
    BY <2>5, SumThrough
  <2> QED
    BY <1>1, <2>1, <2>6 DEF h, N
<1> QED
  BY <1>8, <1>9, <1>10, TotalIsSum DEF C

-----------------------------------------------------------------------------
(* The requests beside the one that writes.                                  *)

LEMMA JobKinds ==
  /\ \A r \in VoucherJobs : r \notin OpeningJobs /\ r # Resting
  /\ \A r \in OpeningJobs : r \notin VoucherJobs /\ r # Resting
<1>1. \A r \in VoucherJobs : r.kind \in {"update", "post", "cancel", "reverse"}
  BY DEF VoucherJobs
<1>2. \A r \in OpeningJobs : r.kind = "opening"
  BY DEF OpeningJobs
<1>3. Resting.kind = "idle"
  BY DEF Resting
<1> QED
  BY <1>1, <1>2, <1>3

LEMMA WrittenJobs ==
  ASSUME BooksTypeOK, NEW c \in Clerks, NEW b \in BOOLEAN, Written(c, b)
  PROVE  /\ job' \in [Clerks -> {Resting} \cup VoucherJobs \cup OpeningJobs]
         /\ job'[c] = Resting
         /\ \A o \in Clerks : job'[o] # Resting =>
               /\ IF job[o].subject = job[c].subject
                    THEN job'[o].stale /\ job'[o].linesGone = (job[o].linesGone \/ b)
                    ELSE job'[o] = job[o]
               /\ job'[o].kind = job[o].kind /\ job'[o].subject = job[o].subject
               /\ job'[o] \in VoucherJobs =>
                     job[o] \in VoucherJobs /\ job'[o].voucher = job[o].voucher
               /\ job'[o] \in OpeningJobs =>
                     job[o] \in OpeningJobs /\ job'[o].existing = job[o].existing
<1> DEFINE marked(o) == [job[o] EXCEPT !.stale = TRUE, !.linesGone = @ \/ b]
<1>1. \A o \in Clerks :
         job'[o] = IF o = c \/ job[o] = Resting THEN Resting
                   ELSE IF job[o].subject # job[c].subject THEN job[o] ELSE marked(o)
  BY DEF Written
<1>2. ASSUME NEW o \in Clerks, job[o] \in VoucherJobs
      PROVE  /\ marked(o) \in VoucherJobs /\ marked(o).stale /\ marked(o).kind = job[o].kind
             /\ marked(o).subject = job[o].subject /\ marked(o).voucher = job[o].voucher
             /\ marked(o).linesGone = (job[o].linesGone \/ b)
  BY <1>2 DEF VoucherJobs
<1>3. ASSUME NEW o \in Clerks, job[o] \in OpeningJobs
      PROVE  /\ marked(o) \in OpeningJobs /\ marked(o).stale /\ marked(o).kind = job[o].kind
             /\ marked(o).subject = job[o].subject /\ marked(o).existing = job[o].existing
             /\ marked(o).linesGone = (job[o].linesGone \/ b)
  BY <1>3 DEF OpeningJobs
<1>4. \A o \in Clerks : job[o] \in {Resting} \cup VoucherJobs \cup OpeningJobs
  BY DEF BooksTypeOK
<1>5. job' = [o \in Clerks |-> job'[o]]
  BY DEF Written
<1> HIDE DEF marked
<1>6. job' \in [Clerks -> {Resting} \cup VoucherJobs \cup OpeningJobs] /\ job'[c] = Resting
  BY <1>1, <1>2, <1>3, <1>4, <1>5
<1>7. ASSUME NEW o \in Clerks, job'[o] # Resting
      PROVE  /\ IF job[o].subject = job[c].subject
                  THEN job'[o].stale /\ job'[o].linesGone = (job[o].linesGone \/ b)
                  ELSE job'[o] = job[o]
             /\ job'[o].kind = job[o].kind /\ job'[o].subject = job[o].subject
             /\ job'[o] \in VoucherJobs =>
                   job[o] \in VoucherJobs /\ job'[o].voucher = job[o].voucher
             /\ job'[o] \in OpeningJobs =>
                   job[o] \in OpeningJobs /\ job'[o].existing = job[o].existing
  <2>1. job[o] # Resting
        /\ job'[o] = IF job[o].subject # job[c].subject THEN job[o] ELSE marked(o)
    BY <1>1, <1>7
  <2>2. CASE job[o] \in VoucherJobs
    BY <1>2, <2>1, <2>2, JobKinds
  <2>3. CASE job[o] \in OpeningJobs
    BY <1>3, <2>1, <2>3, JobKinds
  <2> QED
    BY <1>4, <2>1, <2>2, <2>3
<1> QED
  BY <1>6, <1>7

\* A voucher keeps its type and its source; what others read of the same subject is
\* marked as stale, and nothing of another subject is written.
LEMMA WrittenKeepsJobs ==
  ASSUME BooksTypeOK, JobsAreAsRead, NEW c \in Clerks, NEW b \in BOOLEAN, Written(c, b),
         voucher' \in Seq(Booked),
         \A v \in DOMAIN voucher :
            /\ v \in DOMAIN voucher'
            /\ voucher'[v].type = voucher[v].type /\ voucher'[v].source = voucher[v].source
            /\ Subject(v) # job[c].subject => voucher'[v].status = voucher[v].status,
         \A v \in DOMAIN voucher' \ DOMAIN voucher :
            voucher'[v].source \in Parties => voucher'[v].source = job[c].subject
  PROVE  JobsAreAsRead'
<1> SUFFICES ASSUME NEW o \in Clerks
             PROVE  /\ job'[o] \in VoucherJobs => VoucherIsAsRead(job[o])'
                    /\ job'[o] \in OpeningJobs => OpeningIsAsRead(job[o])'
  BY DEF JobsAreAsRead
<1>1. ASSUME job'[o] \in VoucherJobs PROVE VoucherIsAsRead(job[o])'
  <2>1. job'[o] # Resting
    BY <1>1, JobKinds
  <2>2. /\ job'[o].kind = job[o].kind /\ job[o] \in VoucherJobs
        /\ job'[o].voucher = job[o].voucher /\ job'[o].subject = job[o].subject
        /\ IF job[o].subject = job[c].subject THEN job'[o].stale ELSE job'[o] = job[o]
    BY <1>1, <2>1, WrittenJobs
  <2>3. VoucherIsAsRead(job[o])
    BY <2>2 DEF JobsAreAsRead
  <2>4. Subject(job[o].voucher)' = Subject(job[o].voucher)
    BY <2>2, <2>3 DEF VoucherIsAsRead, Subject
  <2> QED
    BY <2>2, <2>3, <2>4 DEF VoucherIsAsRead
<1>2. ASSUME job'[o] \in OpeningJobs PROVE OpeningIsAsRead(job[o])'
  <2>1. job'[o] # Resting
    BY <1>2, JobKinds
  <2>2. /\ job'[o].subject = job[o].subject /\ job[o] \in OpeningJobs
        /\ job'[o].existing = job[o].existing
        /\ IF job[o].subject = job[c].subject THEN job'[o].stale ELSE job'[o] = job[o]
    BY <1>2, <2>1, WrittenJobs
  <2>3. OpeningIsAsRead(job[o]) /\ job[o].subject \in Parties
    BY <2>2 DEF JobsAreAsRead, OpeningJobs
  <2> PICK p : p = job[o].subject
    OBVIOUS
  <2>4. ASSUME p # job[c].subject PROVE OpeningOf(p)' = OpeningOf(p)
    <3>1. \A v \in DOMAIN voucher : voucher[v].source = p => voucher'[v].status = voucher[v].status
      BY <2>3, <2>4 DEF Subject
    <3>2. \A v \in DOMAIN voucher' \ DOMAIN voucher : voucher'[v].source # p
      BY <2>3, <2>4
    <3> QED
      BY <3>1, <3>2 DEF OpeningOf
  <2>5. OpeningOf(job[o].subject)' = OpeningOf(p)' /\ OpeningOf(job[o].subject) = OpeningOf(p)
    BY <2>2 DEF OpeningOf
  <2>6. job'[o].existing # 0 =>
           job'[o].existing \in DOMAIN voucher' /\ voucher'[job'[o].existing].source = job'[o].subject
    BY <2>2, <2>3 DEF OpeningIsAsRead
  <2>7. ~job'[o].stale => IF job'[o].existing = 0 THEN OpeningOf(p)' = {}
                          ELSE job'[o].existing \in OpeningOf(p)'
    BY <2>2, <2>3, <2>4, <2>5 DEF OpeningIsAsRead
  <2> QED
    BY <2>5, <2>6, <2>7 DEF OpeningIsAsRead
<1> QED
  BY <1>1, <1>2

\* A voucher of no party, written beside them, leaves the requests as they are.
LEMMA AppendingKeepsJobs ==
  ASSUME BooksTypeOK, JobsAreAsRead, PostersShareDay, NEW n \in Booked, n.source = NoOne,
         voucher' = Append(voucher, n), job' = job
  PROVE  JobsAreAsRead' /\ PostersShareDay'
<1>1. /\ DOMAIN voucher = 1..Len(voucher) /\ DOMAIN voucher' = 1..(Len(voucher) + 1)
      /\ Len(voucher) \in Nat /\ voucher'[Len(voucher) + 1] = n
      /\ \A v \in DOMAIN voucher : v \in DOMAIN voucher' /\ voucher'[v] = voucher[v]
  <2>1. voucher \in Seq(Booked)
    BY DEF BooksTypeOK
  <2> QED
    BY <2>1, Appending
<1>2. ASSUME NEW p \in Parties PROVE OpeningOf(p)' = OpeningOf(p)
  <2>1. n.source # p
    BY BooksAssumption
  <2>2. \A v \in DOMAIN voucher' : v \in DOMAIN voucher \/ v = Len(voucher) + 1
    BY <1>1
  <2> QED
    BY <1>1, <2>1, <2>2 DEF OpeningOf
<1>3. JobsAreAsRead'
  <2> SUFFICES ASSUME NEW o \in Clerks
               PROVE  /\ job[o] \in VoucherJobs => VoucherIsAsRead(job[o])'
                      /\ job[o] \in OpeningJobs => OpeningIsAsRead(job[o])'
    BY DEF JobsAreAsRead
  <2>1. ASSUME job[o] \in VoucherJobs PROVE VoucherIsAsRead(job[o])'
    <3>1. VoucherIsAsRead(job[o])
      BY <2>1 DEF JobsAreAsRead
    <3> QED
      BY <1>1, <3>1 DEF VoucherIsAsRead, Subject
  <2>2. ASSUME job[o] \in OpeningJobs PROVE OpeningIsAsRead(job[o])'
    <3>1. OpeningIsAsRead(job[o]) /\ job[o].subject \in Parties
      BY <2>2 DEF JobsAreAsRead, OpeningJobs
    <3>2. PICK p : p = job[o].subject
      OBVIOUS
    <3>3. OpeningOf(p)' = OpeningOf(p)
      BY <1>2, <3>1, <3>2
    <3>4. OpeningOf(job[o].subject)' = OpeningOf(p)'
      BY <3>2 DEF OpeningOf
    <3> QED
      BY <1>1, <3>1, <3>2, <3>3, <3>4 DEF OpeningIsAsRead
  <2> QED
    BY <2>1, <2>2
<1>4. PostersShareDay'
  <2> SUFFICES ASSUME NEW o \in Clerks, job[o] \in VoucherJobs, job[o].kind = "post",
                      ~job[o].linesGone
               PROVE  BalancedOn(voucher'[job[o].voucher].entries, voucher'[job[o].voucher].day)
    BY DEF PostersShareDay, BalancedOn
  <2>1. job[o].voucher \in DOMAIN voucher
    BY DEF JobsAreAsRead, VoucherIsAsRead
  <2> QED
    BY <1>1, <2>1 DEF PostersShareDay
<1> QED
  BY <1>3, <1>4

-----------------------------------------------------------------------------
(* The vouchers a step leaves alone.                                         *)

\* A voucher that is not written, and whose reversals keep their entries, is followed
\* as before.
LEMMA OthersAreFollowed ==
  ASSUME BooksTypeOK, VouchersAreFounded, EntriesFollow, NEW k \in Nat, raced \subseteq raced',
         \A v \in DOMAIN voucher :
            /\ v \in DOMAIN voucher' /\ voucher'[v].from = voucher[v].from
            /\ v # k => voucher'[v] = voucher[v]
            /\ voucher[v].from # 0 =>
                  voucher'[v].entries = voucher[v].entries /\ voucher'[v].day = voucher[v].day,
         \A r \in DOMAIN voucher' \ DOMAIN voucher : voucher'[r].from \in {0, k}
  PROVE  \A v \in DOMAIN voucher \ raced' : v # k => FollowsVoucher(v)'
<1> SUFFICES ASSUME NEW v \in DOMAIN voucher, v \notin raced', v # k
             PROVE  FollowsVoucher(v)'
  OBVIOUS
<1>1. FollowsVoucher(v)
  BY DEF EntriesFollow
<1>2. v # 0
  BY DEF BooksTypeOK
<1>3. ReversalsOf(v)' = ReversalsOf(v)
  BY <1>2 DEF ReversalsOf
<1>4. \A r \in ReversalsOf(v) :
         voucher'[r].entries = voucher[r].entries /\ voucher'[r].day = voucher[r].day
  BY <1>2 DEF ReversalsOf
<1>5. voucher'[v] = voucher[v]
  OBVIOUS
<1>6. ReversalsOf(v) \subseteq DOMAIN voucher /\ DOMAIN voucher \subseteq DOMAIN voucher'
  BY DEF ReversalsOf
<1> QED
  BY <1>1, <1>3, <1>4, <1>5, <1>6 DEF FollowsVoucher

\* Nothing reverses a voucher that was just written.
LEMMA NewIsFollowed ==
  ASSUME VouchersAreFounded, voucher \in Seq(Booked), voucher' \in Seq(Booked),
         NEW k \in {0} \cup DOMAIN voucher,
         \A v \in DOMAIN voucher : v \in DOMAIN voucher' /\ voucher'[v].from = voucher[v].from,
         \A r \in DOMAIN voucher' \ DOMAIN voucher : voucher'[r].from \in {0, k},
         NEW n \in DOMAIN voucher' \ DOMAIN voucher,
         \/ voucher'[n].status = "draft" /\ voucher'[n].entries = <<>>
         \/ voucher'[n].status = "posted"
               /\ voucher'[n].entries = EntriesOf(voucher'[n].lines, voucher'[n].day)
  PROVE  FollowsVoucher(n)'
<1>1. DOMAIN voucher = 1..Len(voucher) /\ DOMAIN voucher' = 1..Len(voucher')
      /\ Len(voucher) \in Nat /\ Len(voucher') \in Nat
  OBVIOUS
<1>2. n \in Nat /\ n > Len(voucher) /\ n # 0
  BY <1>1
<1>3. ASSUME NEW r \in DOMAIN voucher' PROVE voucher'[r].from # n
  <2>1. CASE r \in DOMAIN voucher
    <3>1. voucher[r] \in Booked
      BY <2>1
    <3>2. voucher[r].from < r /\ voucher[r].from \in Nat
      BY <2>1, <3>1 DEF VouchersAreFounded, Booked
    <3> QED
      BY <1>1, <1>2, <2>1, <3>2
  <2>2. CASE r \notin DOMAIN voucher
    <3>1. voucher'[r].from \in {0, k}
      BY <2>2
    <3> QED
      BY <1>1, <1>2, <3>1
  <2> QED
    BY <2>1, <2>2
<1>4. ReversalsOf(n)' = {}
  BY <1>3 DEF ReversalsOf
<1> QED
  BY <1>4 DEF FollowsVoucher, EntriesOf

-----------------------------------------------------------------------------
(* What the entries add up to.                                               *)

EntryAmounts == [e \in Entries |-> AmountOf(e)]

EntriesTyped ==
    /\ IsFiniteSet(Entries)
    /\ \A e \in Entries :
          /\ EntryAt(e) \in BookEntries /\ AmountOf(e) \in Int
          /\ e[1] \in DOMAIN voucher /\ e[2] \in DOMAIN voucher[e[1]].entries /\ e = <<e[1], e[2]>>
    /\ \A v \in DOMAIN voucher : \A i \in DOMAIN voucher[v].entries :
          <<v, i>> \in Entries /\ EntryAt(<<v, i>>) = voucher[v].entries[i]

LEMMA EntryTypes == BooksTypeOK => EntriesTyped
<1> SUFFICES ASSUME BooksTypeOK PROVE EntriesTyped
  OBVIOUS
<1>1. /\ voucher \in Seq(Booked) /\ DOMAIN voucher = 1..Len(voucher) /\ Len(voucher) \in Nat
  BY DEF BooksTypeOK
<1>2. ASSUME NEW v \in DOMAIN voucher
      PROVE  /\ voucher[v].entries \in Seq(BookEntries)
             /\ IsFiniteSet({<<v, i>> : i \in DOMAIN voucher[v].entries})
  <2>1. voucher[v].entries \in Seq(BookEntries)
    <3>1. voucher[v] \in Booked
      BY <1>1
    <3> QED
      BY <3>1 DEF Booked
  <2>2. IsFiniteSet(DOMAIN voucher[v].entries)
    <3>1. DOMAIN voucher[v].entries = 1..Len(voucher[v].entries) /\ Len(voucher[v].entries) \in Nat
      BY <2>1
    <3> QED
      BY <3>1, FS_Interval
  <2> DEFINE I == DOMAIN voucher[v].entries
  <2> HIDE DEF I
  <2>3. IsFiniteSet({<<v, i>> : i \in I})
    <3> DEFINE f == [i \in I |-> <<v, i>>]
    <3>1. IsFiniteSet({f[i] : i \in I})
      <4> HIDE DEF f
      <4> QED BY <2>2, ImageIsFinite DEF I
    <3> QED
      BY <3>1
  <2> QED
    BY <2>1, <2>3 DEF I
<1>3. IsFiniteSet(Entries)
  <2> DEFINE rows == {{<<v, i>> : i \in DOMAIN voucher[v].entries} : v \in DOMAIN voucher}
  <2>1. IsFiniteSet(DOMAIN voucher)
    BY <1>1, FS_Interval
  <2>2. IsFiniteSet(rows)
    <3> DEFINE f == [v \in DOMAIN voucher |-> {<<v, i>> : i \in DOMAIN voucher[v].entries}]
    <3>1. IsFiniteSet({f[v] : v \in DOMAIN voucher})
      <4> HIDE DEF f
      <4> QED BY <2>1, ImageIsFinite
    <3>2. {f[v] : v \in DOMAIN voucher} = rows
      OBVIOUS
    <3> QED
      BY <3>1, <3>2
  <2>3. \A r \in rows : IsFiniteSet(r)
    BY <1>2
  <2> HIDE DEF rows
  <2>4. IsFiniteSet(UNION rows)
    BY <2>2, <2>3, FS_UNION
  <2> QED
    BY <2>4 DEF Entries, rows
<1>4. ASSUME NEW v \in DOMAIN voucher, NEW i \in DOMAIN voucher[v].entries
      PROVE  /\ <<v, i>> \in Entries /\ EntryAt(<<v, i>>) = voucher[v].entries[i]
             /\ voucher[v].entries[i] \in BookEntries
  <2>1. voucher[v].entries[i] \in BookEntries
    <3>1. voucher[v].entries \in Seq(BookEntries)
      BY <1>2
    <3> QED
      BY <3>1, ElementsKeepType
  <2>2. <<v, i>> \in Entries
    BY DEF Entries
  <2> QED
    BY <2>1, <2>2 DEF EntryAt
<1>5. ASSUME NEW e \in Entries
      PROVE  /\ EntryAt(e) \in BookEntries /\ AmountOf(e) \in Int
             /\ e[1] \in DOMAIN voucher /\ e[2] \in DOMAIN voucher[e[1]].entries /\ e = <<e[1], e[2]>>
  <2>a. PICK v \in DOMAIN voucher : \E i \in DOMAIN voucher[v].entries : e = <<v, i>>
    BY DEF Entries
  <2>1. PICK i \in DOMAIN voucher[v].entries : e = <<v, i>>
    BY <2>a
  <2>2. EntryAt(e) \in BookEntries
    BY <1>4, <2>1
  <2> QED
    BY <2>1, <2>2 DEF AmountOf, BookEntries
<1> QED
  BY <1>3, <1>4, <1>5 DEF EntriesTyped

NetIsSum == \A S \in SUBSET Entries : Net(S) = SumOf(EntryAmounts, S)

LEMMA NetAsSum == NetIsSum
<1> SUFFICES ASSUME NEW S \in SUBSET Entries PROVE Net(S) = SumOf(EntryAmounts, S)
  BY DEF NetIsSum
<1> DEFINE f == EntryAmounts
           A(g) == [t \in SUBSET S |->
                      IF t = {} THEN 0
                      ELSE AmountOf(CHOOSE x \in t : TRUE) + g[t \ {CHOOSE x \in t : TRUE}]]
           B(g) == [t \in SUBSET S |->
                      IF t = {} THEN 0
                      ELSE f[CHOOSE x \in t : TRUE] + g[t \ {CHOOSE x \in t : TRUE}]]
<1>1. \A g : A(g) = B(g)
  <2>1. \A t \in SUBSET S : t # {} =>
          f[CHOOSE x \in t : TRUE] = AmountOf(CHOOSE x \in t : TRUE)
    BY DEF EntryAmounts
  <2> HIDE DEF f
  <2> QED
    BY <2>1
<1>2. Net(S) = (CHOOSE g : g = A(g))[S]
  BY DEF Net, TotalOver, MapThenSumSet, MapThenFoldSet
<1>3. SumOf(f, S) = (CHOOSE g : g = B(g))[S]
  BY DEF SumOf, MapThenSumSet, MapThenFoldSet
<1>4. (CHOOSE g : g = A(g)) = (CHOOSE g : g = B(g))
  <2> HIDE DEF A, B
  <2> QED BY <1>1
<1> QED
  BY <1>2, <1>3, <1>4

\* The entries of the vouchers of p that are on p.
PartyEntries(p) == {e \in Entries : voucher[e[1]].source = p /\ EntryAt(e).party = p}

\* Where no voucher of p is written, what its opening balance put on it stays.
LEMMA PartyUntouched ==
  ASSUME BooksTypeOK, BooksTypeOK', NEW p \in Parties, entered'[p] = entered[p],
         \A v \in DOMAIN voucher :
            v \in DOMAIN voucher' /\ voucher'[v].source = voucher[v].source
               /\ (voucher[v].source = p => voucher'[v] = voucher[v]),
         \A v \in DOMAIN voucher' \ DOMAIN voucher : voucher'[v].source # p,
         OpeningStandsFor(p), Net(PartyEntries(p)) = entered[p]
  PROVE  OpeningStandsFor(p)' /\ Net(PartyEntries(p))' = entered'[p]
<1>1. OpeningOf(p)' = OpeningOf(p)
  BY DEF OpeningOf
<1>2. \A o \in OpeningOf(p) : voucher'[o] = voucher[o] /\ o \in DOMAIN voucher'
  BY DEF OpeningOf
<1>3. OpeningStandsFor(p)'
  <2>1. CASE OpeningOf(p) = {}
    BY <1>1, <2>1 DEF OpeningStandsFor
  <2>2. CASE OpeningOf(p) # {}
    <3>1. PICK o \in DOMAIN voucher, j \in Nat :
            /\ OpeningOf(p) = {o}
            /\ voucher[o].entries = EntriesOf(voucher[o].lines, voucher[o].day)
            /\ Bears(voucher[o].lines, p, j, entered[p])
      BY <2>2 DEF OpeningStandsFor
    <3>2. voucher'[o] = voucher[o] /\ o \in DOMAIN voucher'
      BY <1>2, <3>1
    <3> QED
      BY <1>1, <2>2, <3>1, <3>2 DEF OpeningStandsFor, Bears
  <2> QED
    BY <2>1, <2>2
<1>4. (BooksTypeOK => EntriesTyped)' /\ NetIsSum'
  BY EntryTypes, NetAsSum, PTL
<1>5. EntriesTyped /\ NetIsSum
  BY EntryTypes, NetAsSum
<1>6. ASSUME NEW e \in PartyEntries(p)
      PROVE  e \in PartyEntries(p)' /\ EntryAmounts[e] = EntryAmounts'[e]
  <2>1. PICK v : v = e[1]
    OBVIOUS
  <2>2. PICK i : i = e[2]
    OBVIOUS
  <2>3. /\ v \in DOMAIN voucher /\ i \in DOMAIN voucher[v].entries /\ e = <<v, i>>
        /\ voucher[v].source = p /\ voucher[v].entries[i].party = p
    BY <1>5, <2>1, <2>2 DEF EntriesTyped, PartyEntries, EntryAt
  <2>4. voucher'[v] = voucher[v] /\ v \in DOMAIN voucher'
    BY <2>3
  <2>5. e \in Entries'
    BY <1>4, <2>3, <2>4 DEF EntriesTyped
  <2>6. EntryAt(e)' = EntryAt(e)
    BY <2>3, <2>4 DEF EntryAt
  <2> QED
    BY <2>3, <2>4, <2>5, <2>6 DEF PartyEntries, EntryAmounts, AmountOf
<1>7. ASSUME NEW e \in PartyEntries(p)' PROVE e \in PartyEntries(p)
  <2>1. PICK v : v = e[1]
    OBVIOUS
  <2>2. PICK i : i = e[2]
    OBVIOUS
  <2>3. /\ v \in DOMAIN voucher' /\ i \in DOMAIN voucher'[v].entries /\ e = <<v, i>>
        /\ voucher'[v].source = p /\ voucher'[v].entries[i].party = p
    BY <1>4, <2>1, <2>2 DEF EntriesTyped, PartyEntries, EntryAt
  <2>4. v \in DOMAIN voucher /\ voucher'[v] = voucher[v]
    BY <2>3
  <2> QED
    BY <1>5, <2>3, <2>4 DEF EntriesTyped, PartyEntries, EntryAt
<1>8. PartyEntries(p)' = PartyEntries(p)
  BY <1>6, <1>7
<1>9. Net(PartyEntries(p))' = SumOf(EntryAmounts', PartyEntries(p))
  <2>1. PartyEntries(p)' \in SUBSET Entries'
    BY DEF PartyEntries
  <2> QED
    BY <1>4, <1>8, <2>1 DEF NetIsSum
<1>10. Net(PartyEntries(p)) = SumOf(EntryAmounts, PartyEntries(p))
  <2>1. PartyEntries(p) \in SUBSET Entries
    BY DEF PartyEntries
  <2> QED
    BY <1>5, <2>1 DEF NetIsSum
<1>11. IsFiniteSet(PartyEntries(p))
  <2>1. PartyEntries(p) \in SUBSET Entries
    BY DEF PartyEntries
  <2> QED
    BY <1>5, <2>1, FS_Subset DEF EntriesTyped
<1>12. SumOf(EntryAmounts', PartyEntries(p)) = SumOf(EntryAmounts, PartyEntries(p))
  <2> DEFINE f == EntryAmounts
             g == EntryAmounts'
             S == PartyEntries(p)
  <2>1. IsFiniteSet(S) /\ \A e \in S : f[e] = g[e]
    BY <1>6, <1>11
  <2> HIDE DEF f, g, S
  <2>2. SumOf(f, S) = SumOf(g, S)
    BY <2>1, SumsAgree
  <2> QED
    BY <2>2 DEF f, g, S
<1> QED
  BY <1>3, <1>9, <1>10, <1>12

-----------------------------------------------------------------------------
(* Balanced entries.                                                         *)

LEMMA NothingBalances == \A d : BalancedOn(<<>>, d)
<1>1. DOMAIN <<>> = {} /\ LinesTotal(<<>>) = SumOf(AmountsOf(<<>>), DOMAIN <<>>)
  BY TotalIsSum
<1>2. LinesTotal(<<>>) = 0
  BY <1>1, SumOfNone
<1> QED
  BY <1>1, <1>2 DEF BalancedOn

\* What ValidLines asks of the lines alone.
Fits(L) == LinesTotal(L) = 0 /\ \A i \in DOMAIN L : L[i].account \notin Header

LEMMA ValidEntries ==
  ASSUME NEW L \in Seq(Lines), NEW d \in Days, Fits(L)
  PROVE  BalancedOn(EntriesOf(L, d), d) /\ BalancedOn(EntriesOf(Mirror(L), d), d)
<1>1. LinesTotal(L) = 0 /\ \A i \in DOMAIN L : L[i].account \notin Header
  BY DEF Fits
<1>2. BalancedOn(EntriesOf(L, d), d)
  <2>1. LinesTotal(EntriesOf(L, d)) = 0
    BY <1>1, TotalOfEntries
  <2>2. DOMAIN EntriesOf(L, d) = DOMAIN L
        /\ \A i \in DOMAIN L : EntriesOf(L, d)[i].day = d /\ EntriesOf(L, d)[i].account = L[i].account
    BY DEF EntriesOf
  <2> QED
    BY <1>1, <2>1, <2>2 DEF BalancedOn
<1>3. BalancedOn(EntriesOf(Mirror(L), d), d)
  <2>1. LinesTotal(EntriesOf(Mirror(L), d)) = 0
    BY <1>1, TotalOfMirror, TotalOfEntries, MirroredLines
  <2>2. DOMAIN EntriesOf(Mirror(L), d) = DOMAIN L
        /\ \A i \in DOMAIN L : EntriesOf(Mirror(L), d)[i].day = d
              /\ EntriesOf(Mirror(L), d)[i].account = Mirror(L)[i].account
    BY DEF EntriesOf, Mirror
  <2>3. \A i \in DOMAIN L : Mirror(L)[i].account = L[i].account
    <3> TAKE i \in DOMAIN L
    <3>1. L[i] \in Lines /\ Mirror(L)[i] = [L[i] EXCEPT !.amount = - @]
      BY MirroredLines, ElementsKeepType
    <3> QED
      BY <3>1 DEF Lines
  <2> QED
    BY <1>1, <2>1, <2>2, <2>3 DEF BalancedOn
<1> QED
  BY <1>2, <1>3

LEMMA BothBalance ==
  ASSUME NEW A \in Seq(BookEntries), NEW B \in Seq(BookEntries), NEW d,
         BalancedOn(A, d), BalancedOn(B, d)
  PROVE  BalancedOn(A \o B, d)
<1>1. LinesTotal(A \o B) = 0
  BY TotalOfBoth DEF BalancedOn
<1>2. \A i \in DOMAIN (A \o B) :
         \/ i \in DOMAIN A /\ (A \o B)[i] = A[i]
         \/ i - Len(A) \in DOMAIN B /\ (A \o B)[i] = B[i - Len(A)]
  OBVIOUS
<1> HIDE DEF BalancedOn
<1> QED
  BY <1>1, <1>2 DEF BalancedOn

-----------------------------------------------------------------------------
(* Vouchers of no party: journals and the opening balances of accounts.      *)

LEMMA PartiesUntouched ==
  ASSUME BooksIInv, BooksTypeOK', raced \subseteq raced',
         \A p \in Parties \ raced' :
            /\ entered'[p] = entered[p]
            /\ \A v \in DOMAIN voucher :
                  v \in DOMAIN voucher' /\ voucher'[v].source = voucher[v].source
                     /\ (voucher[v].source = p => voucher'[v] = voucher[v])
            /\ \A v \in DOMAIN voucher' \ DOMAIN voucher : voucher'[v].source # p
  PROVE  OpeningsStand' /\ PartyOwesOpening'
<1>1. ASSUME NEW p \in Parties \ raced'
      PROVE  OpeningStandsFor(p)' /\ Net(PartyEntries(p))' = entered'[p]
  <2>1. p \notin raced
    OBVIOUS
  <2>2. OpeningStandsFor(p) /\ Net(PartyEntries(p)) = entered[p]
    BY <2>1 DEF BooksIInv, OpeningsStand, PartyOwesOpening, PartyEntries
  <2> QED
    BY <1>1, <2>2, PartyUntouched DEF BooksIInv
<1> QED
  BY <1>1 DEF OpeningsStand, PartyOwesOpening, PartyEntries

LEMMA AppendingKeepsBooks ==
  ASSUME BooksIInv, NEW n \in Booked, n.source = NoOne, n.from = 0,
         \/ n.type = "journal" /\ n.status = "draft" /\ n.entries = <<>>
         \/ n.type = "opening" /\ n.status = "posted" /\ n.entries = EntriesOf(n.lines, n.day),
         BalancedOn(n.entries, n.day), voucher' = Append(voucher, n),
         UNCHANGED <<account, year, open, entered, vendor, turns, job, raced>>
  PROVE  BooksIInv'
<1>1. /\ DOMAIN voucher = 1..Len(voucher) /\ DOMAIN voucher' = 1..(Len(voucher) + 1)
      /\ Len(voucher) \in Nat /\ voucher'[Len(voucher) + 1] = n
      /\ \A v \in DOMAIN voucher : v \in DOMAIN voucher' /\ voucher'[v] = voucher[v]
      /\ voucher' \in Seq(Booked) /\ voucher \in Seq(Booked)
  <2>1. voucher \in Seq(Booked)
    BY DEF BooksIInv, BooksTypeOK
  <2> QED
    BY <2>1, Appending
<1>2. \A v \in DOMAIN voucher' : v \in DOMAIN voucher \/ v = Len(voucher) + 1
  BY <1>1
<1>3. BooksTypeOK'
  BY <1>1 DEF BooksIInv, BooksTypeOK
<1>4. VouchersAreFounded'
  <2>1. n.from < Len(voucher) + 1
    BY <1>1
  <2> QED
    BY <1>1, <1>2, <2>1 DEF BooksIInv, VouchersAreFounded
<1>5. JobsAreAsRead' /\ PostersShareDay'
  BY AppendingKeepsJobs DEF BooksIInv
<1>6. EntriesFollow'
  <2>1. \A r \in DOMAIN voucher' \ DOMAIN voucher : voucher'[r] = n
    BY <1>1, <1>2
  <2>2. \A v \in DOMAIN voucher \ raced' : FollowsVoucher(v)'
    <3>1. \A v \in DOMAIN voucher \ raced' : v # 0 => FollowsVoucher(v)'
      BY <1>1, <2>1, OthersAreFollowed DEF BooksIInv
    <3> QED
      BY <1>1, <3>1
  <2>3. ASSUME NEW v \in DOMAIN voucher' \ DOMAIN voucher PROVE FollowsVoucher(v)'
    <3>1. voucher'[v] = n
      BY <2>1
    <3> QED
      BY <1>1, <2>1, <3>1, NewIsFollowed DEF BooksIInv
  <2> QED
    BY <2>2, <2>3 DEF EntriesFollow
<1>7. OpeningsStand' /\ PartyOwesOpening'
  <2>1. \A p \in Parties : n.source # p
    BY BooksAssumption
  <2> QED
    BY <1>1, <1>2, <1>3, <2>1, PartiesUntouched
<1>8. EntriesBalance'
  <2> SUFFICES ASSUME NEW v \in DOMAIN voucher'
               PROVE  \E d \in Days : BalancedOn(voucher'[v].entries, d)
    BY DEF EntriesBalance, BalancedOn
  <2>1. n.day \in Days
    BY DEF Booked
  <2> QED
    BY <1>1, <1>2, <2>1 DEF BooksIInv, EntriesBalance
<1> QED
  BY <1>3, <1>4, <1>5, <1>6, <1>7, <1>8 DEF BooksIInv

LEMMA WritingJournalKeepsBooks ==
  ASSUME BooksIInv, NEW lines \in Journals, NEW d \in Days, WriteJournal(lines, d)
  PROVE  BooksIInv'
<1> DEFINE n == NewVoucher("journal", d, lines, NoOne, 0)
<1>1. /\ voucher' = Append(voucher, n)
      /\ UNCHANGED <<account, year, open, entered, vendor, turns, job, raced>>
  BY DEF WriteJournal
<1>2. lines \in Seq(Lines)
  BY BooksAssumption DEF Lines
<1>3. /\ n \in Booked /\ n.type = "journal" /\ n.status = "draft" /\ n.day = d /\ n.source = NoOne
      /\ n.from = 0 /\ n.entries = <<>>
  BY <1>2, NewVouchers
<1>4. BalancedOn(n.entries, n.day)
  BY <1>3, NothingBalances
<1> HIDE DEF n
<1> QED
  BY <1>1, <1>3, <1>4, AppendingKeepsBooks

LEMMA EnteringOpeningKeepsBooks ==
  ASSUME BooksIInv, NEW a \in Movable, NEW x \in Amounts, NEW d \in Days, EnterOpening(a, x, d)
  PROVE  BooksIInv'
<1> DEFINE L == <<[account |-> a, amount |-> x, party |-> NoOne],
                  [account |-> Role.opening_balance_equity, amount |-> - x, party |-> NoOne]>>
           n == Posted(NewVoucher("opening", d, L, NoOne, 0))
<1> PICK m : m = NewVoucher("opening", d, L, NoOne, 0)
  OBVIOUS
<1>1. /\ voucher' = Append(voucher, n) /\ Fits(L)
      /\ UNCHANGED <<account, year, open, entered, vendor, turns, job, raced>>
  BY DEF EnterOpening, ValidLines, Fits
<1>2. L \in Seq(Lines)
  <2>1. a \in Accounts /\ Role.opening_balance_equity \in Accounts /\ x \in Int /\ - x \in Int
    BY BooksAssumption
  <2>2. L[1] \in Lines /\ L[2] \in Lines
    BY <2>1 DEF Lines
  <2> QED
    BY <2>2
<1> HIDE DEF L
<1>3. /\ n \in Booked /\ n.type = "opening" /\ n.status = "posted" /\ n.day = d /\ n.source = NoOne
      /\ n.from = 0 /\ n.entries = EntriesOf(L, d) /\ n.lines = L
  <2>1. "opening" \in {"journal", "opening", "reversal"} /\ 0 \in Nat
        /\ NoOne \in Parties \cup {NoOne}
    OBVIOUS
  <2>2. n = Posted(m)
    OBVIOUS
  <2> HIDE DEF n
  <2> QED
    BY <1>2, <2>1, <2>2, NewVouchers
<1>4. BalancedOn(n.entries, n.day)
  BY <1>1, <1>2, <1>3, ValidEntries
<1> HIDE DEF n
<1> QED
  BY <1>1, <1>3, <1>4, AppendingKeepsBooks

-----------------------------------------------------------------------------
(* Journals: what a request writes of one.                                   *)

LEMMA VoucherJob ==
  ASSUME BooksTypeOK, JobsAreAsRead, NEW c \in Clerks,
         job[c].kind \in {"update", "post", "cancel", "reverse"}
  PROVE  /\ job[c] \in VoucherJobs /\ VoucherIsAsRead(job[c]) /\ job[c].voucher \in DOMAIN voucher
         /\ job[c].voucher \in Nat /\ voucher[job[c].voucher] \in Booked
<1>1. job[c] \in {Resting} \cup VoucherJobs \cup OpeningJobs
  BY DEF BooksTypeOK
<1>2. job[c] # Resting /\ job[c] \notin OpeningJobs
  BY DEF Resting, OpeningJobs
<1>3. job[c] \in VoucherJobs /\ VoucherIsAsRead(job[c])
  BY <1>1, <1>2 DEF JobsAreAsRead
<1>4. job[c].voucher \in DOMAIN voucher
  BY <1>3 DEF VoucherIsAsRead
<1> QED
  BY <1>3, <1>4, ElementsKeepType DEF BooksTypeOK, VoucherJobs

LEMMA NotedTypes ==
  ASSUME BooksTypeOK, NEW c \in Clerks, NEW k \in DOMAIN voucher
  PROVE  /\ Noted(c, k) \subseteq Nat \cup Parties /\ raced \subseteq Noted(c, k)
         /\ job[c].stale => k \in Noted(c, k)
         /\ job[c].kind = "reverse" /\ voucher[k].source \in Parties =>
               voucher[k].source \in Noted(c, k)
<1>1. k \in Nat /\ Subject(k) \in Nat \cup Parties
  BY DEF BooksTypeOK, Subject
<1> QED
  BY <1>1 DEF Noted, BooksTypeOK

LEMMA JournalKeepsBooks ==
  ASSUME BooksIInv, NEW c \in Clerks, job[c].kind \in {"update", "post", "cancel"},
         NEW k, k = job[c].voucher, NEW w \in Booked, NEW b \in BOOLEAN,
         voucher' = [voucher EXCEPT ![k] = w], Written(c, b), raced' = Noted(c, k),
         UNCHANGED <<account, year, open, entered, vendor, turns>>,
         w.type = voucher[k].type /\ w.source = voucher[k].source /\ w.from = voucher[k].from,
         w.status = "draft" => w.entries = <<>>,
         \E d \in Days : BalancedOn(w.entries, d),
         b \/ (BalancedOn(voucher[k].entries, voucher[k].day) => BalancedOn(w.entries, w.day)),
         voucher[k].status = "draft" /\ voucher[k].entries = <<>> =>
            /\ w.status \in {"draft", "posted", "cancelled"}
            /\ w.entries = IF w.status = "posted" THEN EntriesOf(w.lines, w.day) ELSE <<>>
  PROVE  BooksIInv'
<1>1. /\ job[c] \in VoucherJobs /\ VoucherIsAsRead(job[c]) /\ k \in DOMAIN voucher
      /\ k \in Nat /\ voucher[k] \in Booked
  BY VoucherJob DEF BooksIInv
<1>2. voucher[k].type = "journal" /\ (~job[c].stale => voucher[k].status = "draft")
  BY <1>1 DEF VoucherIsAsRead, StatusFor
<1>3. voucher[k].from = 0 /\ voucher[k].source = NoOne
      /\ (voucher[k].status = "draft" => voucher[k].entries = <<>>)
  BY <1>1, <1>2 DEF BooksIInv, VouchersAreFounded
<1>4. /\ voucher' \in Seq(Booked) /\ DOMAIN voucher' = DOMAIN voucher /\ voucher'[k] = w
      /\ \A v \in DOMAIN voucher : v # k => voucher'[v] = voucher[v]
  <2>1. voucher \in Seq(Booked)
    BY DEF BooksIInv, BooksTypeOK
  <2> QED
    BY <1>1, <2>1, Replacing
<1>5. raced \subseteq raced' /\ raced' \subseteq Nat \cup Parties /\ (job[c].stale => k \in raced')
  BY <1>1, NotedTypes DEF BooksIInv
<1>6. BooksTypeOK'
  <2>1. job' \in [Clerks -> {Resting} \cup VoucherJobs \cup OpeningJobs]
    BY WrittenJobs DEF BooksIInv
  <2> QED
    BY <1>4, <1>5, <2>1 DEF BooksIInv, BooksTypeOK
<1>7. VouchersAreFounded'
  BY <1>1, <1>2, <1>3, <1>4 DEF BooksIInv, VouchersAreFounded
<1>8. JobsAreAsRead'
  <2>1. \A v \in DOMAIN voucher :
           /\ v \in DOMAIN voucher'
           /\ voucher'[v].type = voucher[v].type /\ voucher'[v].source = voucher[v].source
           /\ Subject(v) # job[c].subject => voucher'[v].status = voucher[v].status
    BY <1>1, <1>4 DEF VoucherIsAsRead
  <2> QED
    BY <1>4, <2>1, WrittenKeepsJobs DEF BooksIInv
<1>9. EntriesFollow'
  <2>1. \A v \in DOMAIN voucher \ raced' : v # k => FollowsVoucher(v)'
    <3>1. \A v \in DOMAIN voucher :
            /\ v \in DOMAIN voucher' /\ voucher'[v].from = voucher[v].from
            /\ v # k => voucher'[v] = voucher[v]
            /\ voucher[v].from # 0 =>
                  voucher'[v].entries = voucher[v].entries /\ voucher'[v].day = voucher[v].day
      <4> TAKE v \in DOMAIN voucher
      <4>1. CASE v = k
        BY <1>3, <1>4, <4>1
      <4>2. CASE v # k
        BY <1>4, <4>2
      <4> QED
        BY <4>1, <4>2
    <3>2. \A r \in DOMAIN voucher' \ DOMAIN voucher : voucher'[r].from \in {0, k}
      BY <1>4
    <3>3. BooksTypeOK /\ VouchersAreFounded /\ EntriesFollow /\ raced \subseteq raced'
      BY <1>5 DEF BooksIInv
    <3> QED
      BY <1>1, <3>1, <3>2, <3>3, OthersAreFollowed
  <2>2. ASSUME k \notin raced' PROVE FollowsVoucher(k)'
    <3>1. voucher[k].status = "draft" /\ voucher[k].entries = <<>>
      BY <1>2, <1>3, <1>5, <2>2
    <3>2. FollowsVoucher(k)
      BY <1>1, <1>5, <2>2 DEF BooksIInv, EntriesFollow
    <3>3. ReversalsOf(k)' = {}
      <4>1. ReversalsOf(k) = {}
        BY <3>1, <3>2 DEF FollowsVoucher
      <4>2. \A v \in DOMAIN voucher : voucher'[v].from = voucher[v].from
        BY <1>4
      <4> QED
        BY <1>4, <4>1, <4>2 DEF ReversalsOf
    <3> QED
      BY <1>4, <3>1, <3>3 DEF FollowsVoucher
  <2> QED
    BY <1>4, <2>1, <2>2 DEF EntriesFollow
<1>10. OpeningsStand' /\ PartyOwesOpening'
  <2>1. NoOne \notin Parties
    BY BooksAssumption
  <2> QED
    BY <1>3, <1>4, <1>5, <1>6, <2>1, PartiesUntouched
<1>11. EntriesBalance'
  <2> SUFFICES ASSUME NEW v \in DOMAIN voucher'
               PROVE  \E d \in Days : BalancedOn(voucher'[v].entries, d)
    BY DEF EntriesBalance, BalancedOn
  <2> QED
    BY <1>4 DEF BooksIInv, EntriesBalance
<1>12. PostersShareDay'
  <2> SUFFICES ASSUME NEW o \in Clerks, job'[o] \in VoucherJobs, job'[o].kind = "post",
                      ~job'[o].linesGone
               PROVE  BalancedOn(voucher'[job'[o].voucher].entries, voucher'[job'[o].voucher].day)
    BY DEF PostersShareDay, BalancedOn
  <2>1. job'[o] # Resting
    BY JobKinds
  <2>2. /\ job[o] \in VoucherJobs /\ job[o].kind = "post" /\ job'[o].voucher = job[o].voucher
        /\ ~job[o].linesGone /\ (job[o].subject = job[c].subject => ~b)
    BY <2>1, WrittenJobs DEF BooksIInv
  <2>3. /\ BalancedOn(voucher[job[o].voucher].entries, voucher[job[o].voucher].day)
        /\ job[o].voucher \in DOMAIN voucher
        /\ job[o].voucher = k => ~b
    BY <1>1, <2>2 DEF BooksIInv, PostersShareDay, JobsAreAsRead, VoucherIsAsRead
  <2> QED
    BY <1>4, <2>2, <2>3
<1> QED
  BY <1>6, <1>7, <1>8, <1>9, <1>10, <1>11, <1>12 DEF BooksIInv

LEMMA UpdatingKeepsBooks ==
  ASSUME BooksIInv, NEW c \in Clerks, NEW lines \in Journals, NEW d \in Days,
         UpdateVoucher(c, lines, d)
  PROVE  BooksIInv'
<1> PICK k : k = job[c].voucher
  OBVIOUS
<1> PICK all : all = (IF job[c].linesGone THEN voucher[k].lines ELSE <<>>) \o lines
  OBVIOUS
<1> PICK w : w = [voucher[k] EXCEPT !.lines = all, !.day = d]
  OBVIOUS
<1>1. /\ job[c].kind = "update" /\ Written(c, TRUE) /\ raced' = Noted(c, k)
      /\ voucher' = [voucher EXCEPT ![k].lines = all, ![k].day = d]
      /\ UNCHANGED <<account, year, open, entered, vendor, turns>>
  BY DEF UpdateVoucher
<1>2. k \in DOMAIN voucher /\ voucher[k] \in Booked
  BY <1>1, VoucherJob DEF BooksIInv
<1>3. all \in Seq(Lines)
  <2>1. lines \in Seq(Lines)
    BY BooksAssumption DEF Lines
  <2>2. voucher[k].lines \in Seq(Lines)
    BY <1>2 DEF Booked
  <2> QED
    BY <2>1, <2>2
<1>4. /\ w \in Booked /\ w.type = voucher[k].type /\ w.source = voucher[k].source
      /\ w.from = voucher[k].from /\ w.status = voucher[k].status /\ w.entries = voucher[k].entries
  BY <1>2, <1>3 DEF Booked
<1>5. voucher' = [voucher EXCEPT ![k] = w]
  BY <1>1, <1>2 DEF BooksIInv, BooksTypeOK
<1>6. \E e \in Days : BalancedOn(w.entries, e)
  BY <1>2, <1>4 DEF BooksIInv, EntriesBalance
<1>7. w.status = "draft" => w.entries = <<>>
  BY <1>2, <1>4 DEF BooksIInv, VouchersAreFounded
<1>8. voucher[k].status = "draft" /\ voucher[k].entries = <<>> =>
         /\ w.status \in {"draft", "posted", "cancelled"}
         /\ w.entries = IF w.status = "posted" THEN EntriesOf(w.lines, w.day) ELSE <<>>
  BY <1>4
<1> QED
  BY <1>1, <1>4, <1>5, <1>6, <1>7, <1>8, JournalKeepsBooks

LEMMA CancellingKeepsBooks ==
  ASSUME BooksIInv, NEW c \in Clerks, CancelVoucher(c)
  PROVE  BooksIInv'
<1> PICK k : k = job[c].voucher
  OBVIOUS
<1> PICK w : w = [voucher[k] EXCEPT !.status = "cancelled"]
  OBVIOUS
<1>1. /\ job[c].kind = "cancel" /\ Written(c, FALSE) /\ raced' = Noted(c, k)
      /\ voucher' = [voucher EXCEPT ![k].status = "cancelled"]
      /\ UNCHANGED <<account, year, open, entered, vendor, turns>>
  BY DEF CancelVoucher
<1>2. k \in DOMAIN voucher /\ voucher[k] \in Booked
  BY <1>1, VoucherJob DEF BooksIInv
<1>4. /\ w \in Booked /\ w.type = voucher[k].type /\ w.source = voucher[k].source
      /\ w.from = voucher[k].from /\ w.status = "cancelled" /\ w.entries = voucher[k].entries
      /\ w.day = voucher[k].day
  BY <1>2 DEF Booked
<1>5. voucher' = [voucher EXCEPT ![k] = w]
  BY <1>1, <1>2 DEF BooksIInv, BooksTypeOK
<1>6. \E e \in Days : BalancedOn(w.entries, e)
  BY <1>2, <1>4 DEF BooksIInv, EntriesBalance
<1> QED
  BY <1>1, <1>4, <1>5, <1>6, JournalKeepsBooks

LEMMA PostingKeepsBooks ==
  ASSUME BooksIInv, NEW c \in Clerks, PostVoucher(c)
  PROVE  BooksIInv'
<1> PICK k : k = job[c].voucher
  OBVIOUS
<1> PICK w : w = Posted(voucher[k])
  OBVIOUS
<1> PICK E : E = EntriesOf(voucher[k].lines, voucher[k].day)
  OBVIOUS
<1>1. /\ job[c].kind = "post" /\ ~job[c].linesGone /\ Fits(voucher[k].lines)
      /\ Written(c, FALSE) /\ raced' = Noted(c, k)
      /\ voucher' = [voucher EXCEPT ![k] = w]
      /\ UNCHANGED <<account, year, open, entered, vendor, turns>>
  BY DEF PostVoucher, ValidLines, Fits
<1>2. k \in DOMAIN voucher /\ voucher[k] \in Booked /\ job[c] \in VoucherJobs
  BY <1>1, VoucherJob DEF BooksIInv
<1>3. /\ voucher[k].lines \in Seq(Lines) /\ voucher[k].day \in Days
      /\ voucher[k].entries \in Seq(BookEntries)
  BY <1>2 DEF Booked
<1>4. E \in Seq(BookEntries) /\ BalancedOn(E, voucher[k].day)
  BY <1>1, <1>3, LinesBecomeEntries, ValidEntries
<1>5. voucher[k].entries \o E \in Seq(BookEntries)
      /\ (voucher[k].entries = <<>> => voucher[k].entries \o E = E)
  BY <1>3, <1>4, Joining
<1>6. /\ w \in Booked /\ w.type = voucher[k].type /\ w.source = voucher[k].source
      /\ w.from = voucher[k].from /\ w.status = "posted" /\ w.entries = voucher[k].entries \o E
      /\ w.day = voucher[k].day /\ w.lines = voucher[k].lines
  BY <1>2, <1>5 DEF Posted, Booked
<1>7. BalancedOn(w.entries, w.day)
  <2>1. BalancedOn(voucher[k].entries, voucher[k].day)
    BY <1>1, <1>2 DEF BooksIInv, PostersShareDay
  <2> QED
    BY <1>3, <1>4, <1>6, <2>1, BothBalance
<1> QED
  BY <1>1, <1>3, <1>5, <1>6, <1>7, JournalKeepsBooks

-----------------------------------------------------------------------------
(* Reversals and the opening balances of parties.                            *)

\* What is booked beside the vouchers, and at most one voucher reversed for it.
LEMMA BookingKeepsVouchers ==
  ASSUME BooksIInv, BooksTypeOK', NEW old \in {0} \cup DOMAIN voucher, raced \subseteq raced',
         \A v \in DOMAIN voucher :
            /\ v \in DOMAIN voucher'
            /\ voucher'[v] = IF v = old THEN [voucher[v] EXCEPT !.status = "reversed"] ELSE voucher[v],
         \A r \in DOMAIN voucher' \ DOMAIN voucher :
            /\ voucher'[r].from \in {0, old} /\ voucher'[r].type \in {"opening", "reversal"}
            /\ voucher'[r].type = "opening" => voucher'[r].from = 0
            /\ voucher'[r].status = "posted"
            /\ voucher'[r].entries = EntriesOf(voucher'[r].lines, voucher'[r].day)
            /\ BalancedOn(voucher'[r].entries, voucher'[r].day)
            /\ voucher'[r].from # 0 => voucher'[r].lines = Mirror(voucher[old].lines),
         old # 0 => \E n \in DOMAIN voucher' \ DOMAIN voucher :
                       \A r \in DOMAIN voucher' \ DOMAIN voucher : voucher'[r].from = old <=> r = n,
         old # 0 /\ old \notin raced' => voucher[old].status = "posted",
         NEW c \in Clerks, Written(c, FALSE), old # 0 => Subject(old) = job[c].subject,
         \A r \in DOMAIN voucher' \ DOMAIN voucher :
            voucher'[r].source \in Parties => voucher'[r].source = job[c].subject
  PROVE  VouchersAreFounded' /\ JobsAreAsRead' /\ EntriesFollow' /\ EntriesBalance'
         /\ PostersShareDay'
<1>1. /\ voucher \in Seq(Booked) /\ voucher' \in Seq(Booked) /\ old \in Nat
      /\ DOMAIN voucher = 1..Len(voucher) /\ Len(voucher) \in Nat
      /\ DOMAIN voucher' = 1..Len(voucher') /\ Len(voucher') \in Nat
  BY DEF BooksIInv, BooksTypeOK
<1>2. \A v \in DOMAIN voucher : voucher[v] \in Booked
  BY <1>1, ElementsKeepType
<1>3. ASSUME NEW v \in DOMAIN voucher
      PROVE  /\ v \in DOMAIN voucher' /\ voucher'[v].type = voucher[v].type
             /\ voucher'[v].source = voucher[v].source /\ voucher'[v].from = voucher[v].from
             /\ voucher'[v].entries = voucher[v].entries /\ voucher'[v].day = voucher[v].day
             /\ voucher'[v].lines = voucher[v].lines
             /\ v = old => voucher'[v].status = "reversed"
             /\ v # old => voucher'[v] = voucher[v]
  <2>1. CASE v = old
    <3>1. voucher[v] \in Booked /\ voucher'[v] = [voucher[v] EXCEPT !.status = "reversed"]
          /\ v \in DOMAIN voucher'
      BY <1>2, <2>1
    <3> QED
      BY <2>1, <3>1 DEF Booked
  <2>2. CASE v # old
    BY <2>2
  <2> QED
    BY <2>1, <2>2
<1>4. VouchersAreFounded'
  <2> SUFFICES ASSUME NEW v \in DOMAIN voucher'
               PROVE  /\ voucher'[v].from < v
                      /\ voucher'[v].type # "reversal" => voucher'[v].from = 0
                      /\ voucher'[v].type = "journal" => voucher'[v].source = NoOne
                      /\ voucher'[v].status = "draft" =>
                            voucher'[v].type = "journal" /\ voucher'[v].entries = <<>>
    BY DEF VouchersAreFounded
  <2>1. CASE v \in DOMAIN voucher
    <3>1. CASE v = old
      BY <1>3, <2>1, <3>1 DEF BooksIInv, VouchersAreFounded
    <3>2. CASE v # old
      BY <1>3, <2>1, <3>2 DEF BooksIInv, VouchersAreFounded
    <3> QED
      BY <3>1, <3>2
  <2>2. CASE v \notin DOMAIN voucher
    <3>1. v > Len(voucher) /\ old <= Len(voucher) /\ v \in Nat
      BY <1>1, <2>2
    <3>2. voucher'[v].from \in {0, old} /\ voucher'[v].type \in {"opening", "reversal"}
          /\ (voucher'[v].type = "opening" => voucher'[v].from = 0) /\ voucher'[v].status = "posted"
      BY <2>2
    <3> QED
      BY <1>1, <3>1, <3>2
  <2> QED
    BY <2>1, <2>2
<1>5. JobsAreAsRead'
  <2>1. \A v \in DOMAIN voucher :
           /\ v \in DOMAIN voucher'
           /\ voucher'[v].type = voucher[v].type /\ voucher'[v].source = voucher[v].source
           /\ Subject(v) # job[c].subject => voucher'[v].status = voucher[v].status
    BY <1>1, <1>3
  <2>2. BooksTypeOK /\ JobsAreAsRead
    BY DEF BooksIInv
  <2> QED
    BY <1>1, <2>1, <2>2, WrittenKeepsJobs
<1>6. EntriesFollow'
  <2>1. \A v \in DOMAIN voucher \ raced' : v # old => FollowsVoucher(v)'
    <3>1. \A v \in DOMAIN voucher :
            /\ v \in DOMAIN voucher' /\ voucher'[v].from = voucher[v].from
            /\ v # old => voucher'[v] = voucher[v]
            /\ voucher[v].from # 0 =>
                  voucher'[v].entries = voucher[v].entries /\ voucher'[v].day = voucher[v].day
      BY <1>3
    <3>2. BooksTypeOK /\ VouchersAreFounded /\ EntriesFollow
      BY DEF BooksIInv
    <3> QED
      BY <1>1, <3>1, <3>2, OthersAreFollowed
  <2>2. ASSUME old # 0, old \notin raced' PROVE FollowsVoucher(old)'
    <3>1. old \in DOMAIN voucher /\ voucher[old].status = "posted" /\ old \notin raced
      BY <2>2
    <3>2. FollowsVoucher(old)
      BY <3>1 DEF BooksIInv, EntriesFollow
    <3>3. PICK n \in DOMAIN voucher' \ DOMAIN voucher :
             \A r \in DOMAIN voucher' \ DOMAIN voucher : voucher'[r].from = old <=> r = n
      BY <2>2
    <3>4. \A r \in DOMAIN voucher : voucher[r].from # old
      BY <3>1, <3>2 DEF FollowsVoucher, ReversalsOf
    <3>5. ReversalsOf(old)' = {n}
      <4>1. \A r \in DOMAIN voucher : voucher'[r].from # old
        BY <1>3, <3>4
      <4> QED
        BY <3>3, <4>1 DEF ReversalsOf
    <3>6. voucher'[n].entries = EntriesOf(Mirror(voucher'[old].lines), voucher'[n].day)
      <4>1. voucher'[n].from = old
        BY <3>3
      <4> QED
        BY <1>3, <2>2, <3>1, <3>3, <4>1
    <3>7. voucher'[old].entries = EntriesOf(voucher'[old].lines, voucher'[old].day)
          /\ voucher'[old].status = "reversed"
      BY <1>3, <3>1, <3>2 DEF FollowsVoucher
    <3> QED
      BY <3>5, <3>6, <3>7 DEF FollowsVoucher
  <2>3. ASSUME NEW v \in DOMAIN voucher' \ DOMAIN voucher PROVE FollowsVoucher(v)'
    <3>1. \A u \in DOMAIN voucher : u \in DOMAIN voucher' /\ voucher'[u].from = voucher[u].from
      BY <1>3
    <3>2. VouchersAreFounded
      BY DEF BooksIInv
    <3> QED
      BY <1>1, <3>1, <3>2, NewIsFollowed
  <2>4. ASSUME NEW v \in DOMAIN voucher', v \notin raced' PROVE FollowsVoucher(v)'
    <3>1. CASE v \notin DOMAIN voucher
      BY <2>3, <3>1
    <3>2. CASE v \in DOMAIN voucher /\ v # old
      BY <2>1, <2>4, <3>2
    <3>3. CASE v \in DOMAIN voucher /\ v = old
      BY <1>1, <2>2, <2>4, <3>3
    <3> QED
      BY <3>1, <3>2, <3>3
  <2> QED
    BY <2>4 DEF EntriesFollow
<1>7. EntriesBalance'
  <2> SUFFICES ASSUME NEW v \in DOMAIN voucher'
               PROVE  \E d \in Days : BalancedOn(voucher'[v].entries, d)
    BY DEF EntriesBalance, BalancedOn
  <2>1. CASE v \in DOMAIN voucher
    BY <1>3, <2>1 DEF BooksIInv, EntriesBalance
  <2>2. CASE v \notin DOMAIN voucher
    <3>1. voucher'[v].day \in Days
      <4>1. voucher'[v] \in Booked
        BY <1>1, ElementsKeepType
      <4> QED
        BY <4>1 DEF Booked
    <3> QED
      BY <2>2, <3>1
  <2> QED
    BY <2>1, <2>2
<1>8. PostersShareDay'
  <2> SUFFICES ASSUME NEW o \in Clerks, job'[o] \in VoucherJobs, job'[o].kind = "post",
                      ~job'[o].linesGone
               PROVE  BalancedOn(voucher'[job'[o].voucher].entries, voucher'[job'[o].voucher].day)
    BY DEF PostersShareDay, BalancedOn
  <2>1. job'[o] # Resting
    BY JobKinds
  <2>2. /\ job[o] \in VoucherJobs /\ job[o].kind = "post" /\ job'[o].voucher = job[o].voucher
        /\ ~job[o].linesGone
    <3>1. BooksTypeOK
      BY DEF BooksIInv
    <3> QED
      BY <2>1, <3>1, WrittenJobs
  <2>3. /\ BalancedOn(voucher[job[o].voucher].entries, voucher[job[o].voucher].day)
        /\ job[o].voucher \in DOMAIN voucher
    BY <2>2 DEF BooksIInv, PostersShareDay, JobsAreAsRead, VoucherIsAsRead
  <2> QED
    BY <1>3, <2>2, <2>3
<1> QED
  BY <1>4, <1>5, <1>6, <1>7, <1>8

\* The reversal of a voucher on a day.
LEMMA Reversals ==
  ASSUME voucher \in Seq(Booked), NEW k \in DOMAIN voucher, NEW d \in Days,
         Fits(voucher[k].lines), NEW r, r = ReversalOf(k, d)
  PROVE  /\ r \in Booked /\ r.type = "reversal" /\ r.status = "posted" /\ r.day = d
         /\ r.source = voucher[k].source /\ r.from = k /\ r.lines = Mirror(voucher[k].lines)
         /\ r.entries = EntriesOf(r.lines, d) /\ BalancedOn(r.entries, d)
<1>1. voucher[k] \in Booked /\ k \in Nat
  BY ElementsKeepType
<1>2. voucher[k].lines \in Seq(Lines) /\ voucher[k].source \in Parties \cup {NoOne}
  BY <1>1 DEF Booked
<1>3. Mirror(voucher[k].lines) \in Seq(Lines)
        /\ BalancedOn(EntriesOf(Mirror(voucher[k].lines), d), d)
  BY <1>2, MirroredLines, ValidEntries
<1> PICK L : L = Mirror(voucher[k].lines)
  OBVIOUS
<1> PICK s : s = voucher[k].source
  OBVIOUS
<1> PICK n : n = NewVoucher("reversal", d, L, s, k)
  OBVIOUS
<1>4. r = Posted(n)
  BY DEF ReversalOf
<1>5. "reversal" \in {"journal", "opening", "reversal"} /\ L \in Seq(Lines)
      /\ s \in Parties \cup {NoOne} /\ BalancedOn(EntriesOf(L, d), d)
  BY <1>2, <1>3
<1>6. /\ r \in Booked /\ r.type = "reversal" /\ r.status = "posted" /\ r.day = d
      /\ r.source = s /\ r.from = k /\ r.lines = L /\ r.entries = EntriesOf(L, d)
  BY <1>1, <1>4, <1>5, NewVouchers
<1> QED
  BY <1>5, <1>6

LEMMA ReversingKeepsBooks ==
  ASSUME BooksIInv, NEW c \in Clerks, ReverseVoucher(c)
  PROVE  BooksIInv'
<1> PICK k : k = job[c].voucher
  OBVIOUS
<1> PICK r : r = ReversalOf(k, voucher[k].day)
  OBVIOUS
<1> PICK w : w = [voucher[k] EXCEPT !.status = "reversed"]
  OBVIOUS
<1>1. /\ job[c].kind = "reverse" /\ Fits(voucher[k].lines)
      /\ voucher' = Append([voucher EXCEPT ![k].status = "reversed"], r)
      /\ Written(c, FALSE) /\ raced' = Noted(c, k)
      /\ UNCHANGED <<account, year, open, entered, vendor, turns>>
  BY DEF ReverseVoucher, ValidLines, Fits
<1>2. /\ job[c] \in VoucherJobs /\ VoucherIsAsRead(job[c]) /\ k \in DOMAIN voucher
      /\ k \in Nat /\ voucher[k] \in Booked /\ voucher \in Seq(Booked)
  BY <1>1, VoucherJob DEF BooksIInv, BooksTypeOK
<1>3. voucher[k].day \in Days /\ w \in Booked
  BY <1>2 DEF Booked
<1>4. /\ r \in Booked /\ r.type = "reversal" /\ r.status = "posted" /\ r.day = voucher[k].day
      /\ r.source = voucher[k].source /\ r.from = k /\ r.lines = Mirror(voucher[k].lines)
      /\ r.entries = EntriesOf(r.lines, r.day) /\ BalancedOn(r.entries, r.day)
  <2> PICK d : d = voucher[k].day
    OBVIOUS
  <2>1. d \in Days /\ r = ReversalOf(k, d)
    BY <1>3
  <2>2. /\ r \in Booked /\ r.type = "reversal" /\ r.status = "posted" /\ r.day = d
        /\ r.source = voucher[k].source /\ r.from = k /\ r.lines = Mirror(voucher[k].lines)
        /\ r.entries = EntriesOf(r.lines, d) /\ BalancedOn(r.entries, d)
    <3>1. Fits(voucher[k].lines) /\ voucher \in Seq(Booked) /\ k \in DOMAIN voucher
      BY <1>1, <1>2
    <3> QED
      BY <2>1, <3>1, Reversals
  <2> QED
    BY <2>2
<1> PICK undone : undone = [voucher EXCEPT ![k] = w]
  OBVIOUS
<1>5. voucher' = Append(undone, r)
  BY <1>1, <1>2
<1>6. /\ undone \in Seq(Booked) /\ DOMAIN undone = DOMAIN voucher /\ Len(undone) = Len(voucher)
      /\ \A v \in DOMAIN voucher : undone[v] = IF v = k THEN w ELSE voucher[v]
  BY <1>2, <1>3, Replacing
<1>7. /\ voucher' \in Seq(Booked) /\ Len(voucher) \in Nat
      /\ DOMAIN voucher = 1..Len(voucher) /\ DOMAIN voucher' = 1..(Len(voucher) + 1)
      /\ voucher'[Len(voucher) + 1] = r
      /\ \A v \in DOMAIN voucher : v \in DOMAIN voucher' /\ voucher'[v] = undone[v]
  BY <1>2, <1>4, <1>5, <1>6, Appending
<1>8. \A v \in DOMAIN voucher' \ DOMAIN voucher : v = Len(voucher) + 1 /\ voucher'[v] = r
  BY <1>7
<1>9. /\ raced \subseteq raced' /\ raced' \subseteq Nat \cup Parties /\ (job[c].stale => k \in raced')
      /\ (voucher[k].source \in Parties => voucher[k].source \in raced')
  BY <1>1, <1>2, NotedTypes DEF BooksIInv
<1>10. BooksTypeOK'
  <2>1. job' \in [Clerks -> {Resting} \cup VoucherJobs \cup OpeningJobs]
    BY <1>1, WrittenJobs DEF BooksIInv
  <2> QED
    BY <1>1, <1>7, <1>9, <2>1 DEF BooksIInv, BooksTypeOK
<1>11. VouchersAreFounded' /\ JobsAreAsRead' /\ EntriesFollow' /\ EntriesBalance' /\ PostersShareDay'
  <2>1. \A v \in DOMAIN voucher :
            /\ v \in DOMAIN voucher'
            /\ voucher'[v] = IF v = k THEN [voucher[v] EXCEPT !.status = "reversed"] ELSE voucher[v]
    BY <1>6, <1>7
  <2>2. \A q \in DOMAIN voucher' \ DOMAIN voucher :
            /\ voucher'[q].from \in {0, k} /\ voucher'[q].type \in {"opening", "reversal"}
            /\ voucher'[q].type = "opening" => voucher'[q].from = 0
            /\ voucher'[q].status = "posted"
            /\ voucher'[q].entries = EntriesOf(voucher'[q].lines, voucher'[q].day)
            /\ BalancedOn(voucher'[q].entries, voucher'[q].day)
            /\ voucher'[q].from # 0 => voucher'[q].lines = Mirror(voucher[k].lines)
    BY <1>4, <1>8
  <2>3. \E n \in DOMAIN voucher' \ DOMAIN voucher :
           \A q \in DOMAIN voucher' \ DOMAIN voucher : voucher'[q].from = k <=> q = n
    <3>1. Len(voucher) + 1 \in DOMAIN voucher' \ DOMAIN voucher
      BY <1>7
    <3> QED
      BY <1>4, <1>8, <3>1
  <2>4. k \notin raced' => voucher[k].status = "posted"
    BY <1>1, <1>2, <1>9 DEF VoucherIsAsRead, StatusFor
  <2>5. k \in {0} \cup DOMAIN voucher /\ raced \subseteq raced' /\ Written(c, FALSE)
    BY <1>1, <1>2, <1>9
  <2>6. Subject(k) = job[c].subject
    BY <1>2 DEF VoucherIsAsRead
  <2>7. \A q \in DOMAIN voucher' \ DOMAIN voucher :
           voucher'[q].source \in Parties => voucher'[q].source = job[c].subject
    BY <1>4, <1>8, <2>6 DEF Subject
  <2> QED
    BY <1>10, <2>1, <2>2, <2>3, <2>4, <2>5, <2>6, <2>7, BookingKeepsVouchers
<1>12. OpeningsStand' /\ PartyOwesOpening'
  <2> SUFFICES ASSUME NEW p \in Parties \ raced'
               PROVE  /\ entered'[p] = entered[p]
                      /\ \A v \in DOMAIN voucher :
                            v \in DOMAIN voucher' /\ voucher'[v].source = voucher[v].source
                               /\ (voucher[v].source = p => voucher'[v] = voucher[v])
                      /\ \A v \in DOMAIN voucher' \ DOMAIN voucher : voucher'[v].source # p
    BY <1>9, <1>10, PartiesUntouched
  <2>1. voucher[k].source # p
    BY <1>9
  <2>2. \A v \in DOMAIN voucher : voucher'[v].source = voucher[v].source
           /\ (voucher[v].source = p => voucher'[v] = voucher[v])
    <3>1. w.source = voucher[k].source
      BY <1>2 DEF Booked
    <3> QED
      BY <1>6, <1>7, <2>1, <3>1
  <2> QED
    BY <1>1, <1>4, <1>7, <1>8, <2>1, <2>2
<1> QED
  BY <1>10, <1>11, <1>12 DEF BooksIInv

\* A request about an opening balance knows its party and the voucher it replaces.
LEMMA OpeningJob ==
  ASSUME BooksTypeOK, JobsAreAsRead, NEW c \in Clerks, job[c].kind = "opening"
  PROVE  /\ job[c] \in OpeningJobs /\ OpeningIsAsRead(job[c]) /\ job[c].subject \in Parties
         /\ job[c].existing \in Nat /\ job[c].existing \in {0} \cup DOMAIN voucher
         /\ job[c].existing # 0 => voucher[job[c].existing].source = job[c].subject
<1>1. job[c] \in {Resting} \cup VoucherJobs \cup OpeningJobs
  BY DEF BooksTypeOK
<1>2. job[c] # Resting /\ job[c] \notin VoucherJobs
  BY DEF Resting, VoucherJobs
<1>3. job[c] \in OpeningJobs /\ OpeningIsAsRead(job[c])
  BY <1>1, <1>2 DEF JobsAreAsRead
<1> QED
  BY <1>3 DEF OpeningJobs, OpeningIsAsRead

\* What an opening balance of a party puts on it, and what its reversal does.
LEMMA OpeningBears ==
  ASSUME BooksTypeOK, NEW p \in Parties, NEW x \in Int
  PROVE  /\ OpeningLines(p, x) \in Seq(Lines)
         /\ \E j \in Nat : Bears(OpeningLines(p, x), p, j, IF vendor[p] THEN - x ELSE x)
<1> PICK equity, receivable, payable :
       /\ equity = Role.opening_balance_equity /\ receivable = Role.accounts_receivable
       /\ payable = Role.accounts_payable
  OBVIOUS
<1>1. {equity, receivable, payable} \subseteq Accounts /\ p # NoOne /\ - x \in Int
  BY BooksAssumption
<1>2. CASE vendor[p]
  <2> DEFINE L == <<[account |-> equity, amount |-> x, party |-> NoOne],
                    [account |-> payable, amount |-> - x, party |-> p]>>
  <2>1. OpeningLines(p, x) = L
    BY <1>2 DEF OpeningLines
  <2>2. L[1] \in Lines /\ L[2] \in Lines
    BY <1>1 DEF Lines
  <2>3. L \in Seq(Lines) /\ DOMAIN L = {1, 2}
    BY <2>2
  <2>4. {i \in DOMAIN L : L[i].party = p} = {2} /\ L[2].amount = - x
    BY <1>1, <2>3
  <2> QED
    BY <1>2, <2>1, <2>3, <2>4 DEF Bears
<1>3. CASE ~ vendor[p]
  <2> DEFINE L == <<[account |-> receivable, amount |-> x, party |-> p],
                    [account |-> equity, amount |-> - x, party |-> NoOne]>>
  <2>1. OpeningLines(p, x) = L
    BY <1>3 DEF OpeningLines
  <2>2. L[1] \in Lines /\ L[2] \in Lines
    BY <1>1 DEF Lines
  <2>3. L \in Seq(Lines) /\ DOMAIN L = {1, 2}
    BY <2>2
  <2>4. {i \in DOMAIN L : L[i].party = p} = {1} /\ L[1].amount = x
    BY <1>1, <2>3
  <2> QED
    BY <1>3, <2>1, <2>3, <2>4 DEF Bears
<1> QED
  BY <1>2, <1>3

LEMMA MirrorBears ==
  ASSUME NEW L \in Seq(Lines), NEW p, NEW j \in Nat, NEW x \in Int, Bears(L, p, j, x)
  PROVE  Bears(Mirror(L), p, j, - x)
<1>1. \A i \in DOMAIN L : Mirror(L)[i].party = L[i].party /\ Mirror(L)[i].amount = - L[i].amount
  <2> TAKE i \in DOMAIN L
  <2>1. L[i] \in Lines /\ Mirror(L)[i] = [L[i] EXCEPT !.amount = - @]
    BY MirroredLines, ElementsKeepType
  <2> QED
    BY <2>1 DEF Lines
<1>2. DOMAIN Mirror(L) = DOMAIN L
  BY MirroredLines
<1>3. j \in DOMAIN L /\ L[j].amount = x
  BY DEF Bears
<1> QED
  BY <1>1, <1>2, <1>3 DEF Bears

\* What setting an opening balance writes: the voucher in force, if any, is reversed, and
\* one is posted for the new amount, unless it is zero.
NewlyWritten == DOMAIN voucher' \ DOMAIN voucher

OpeningIsReplaced(p, old, x) ==
    /\ voucher' \in Seq(Booked)
    /\ \A v \in DOMAIN voucher :
        /\ v \in DOMAIN voucher'
        /\ voucher'[v] = IF v = old THEN [voucher[v] EXCEPT !.status = "reversed"] ELSE voucher[v]
    /\ \A r \in NewlyWritten :
        /\ voucher'[r].source = p /\ voucher'[r].status = "posted"
        /\ voucher'[r].entries = EntriesOf(voucher'[r].lines, voucher'[r].day)
        /\ BalancedOn(voucher'[r].entries, voucher'[r].day)
        /\ \/ /\ voucher'[r].type = "reversal" /\ voucher'[r].from = old /\ old # 0
              /\ voucher'[r].lines = Mirror(voucher[old].lines)
           \/ /\ voucher'[r].type = "opening" /\ voucher'[r].from = 0 /\ x # 0
              /\ voucher'[r].lines = OpeningLines(p, x)
    /\ old # 0 => \E n \in NewlyWritten :
            \A r \in NewlyWritten : voucher'[r].type = "reversal" <=> r = n
    /\ x # 0 => \E n \in NewlyWritten :
            \A r \in NewlyWritten : voucher'[r].type = "opening" <=> r = n

LEMMA ReplacingOpening ==
  ASSUME BooksIInv, NEW c \in Clerks, NEW x \in Amounts, NEW d \in Days, SetPartyOpening(c, x, d),
         NEW p, p = job[c].subject, NEW old, old = job[c].existing
  PROVE  OpeningIsReplaced(p, old, x)
<1>1. /\ p \in Parties /\ old \in {0} \cup DOMAIN voucher /\ old \in Nat /\ x \in Int
      /\ old # 0 => voucher[old].source = p
  <2>1. BooksTypeOK /\ JobsAreAsRead /\ job[c].kind = "opening"
    BY DEF BooksIInv, SetPartyOpening
  <2> QED
    BY <2>1, OpeningJob, BooksAssumption
<1> PICK r : r = ReversalOf(old, d)
  OBVIOUS
<1> PICK m : m = NewVoucher("opening", d, OpeningLines(p, x), p, 0)
  OBVIOUS
<1> PICK n : n = Posted(m)
  OBVIOUS
<1>w. PICK w : w = [voucher[old] EXCEPT !.status = "reversed"]
  OBVIOUS
<1>u. PICK undone : undone = IF old = 0 THEN voucher
                           ELSE Append([voucher EXCEPT ![old].status = "reversed"], r)
  OBVIOUS
<1>2. /\ voucher' = IF x = 0 THEN undone ELSE Append(undone, n)
      /\ old # 0 => Fits(voucher[old].lines)
      /\ x # 0 => Fits(OpeningLines(p, x))
  BY <1>u DEF SetPartyOpening, ValidLines, Fits
<1>3. voucher \in Seq(Booked) /\ DOMAIN voucher = 1..Len(voucher) /\ Len(voucher) \in Nat
  BY DEF BooksIInv, BooksTypeOK
<1>4. ASSUME old # 0
      PROVE  /\ r \in Booked /\ r.type = "reversal" /\ r.status = "posted" /\ r.day = d
             /\ r.source = p /\ r.from = old /\ r.lines = Mirror(voucher[old].lines)
             /\ r.entries = EntriesOf(r.lines, d) /\ BalancedOn(r.entries, d)
  <2>1. Fits(voucher[old].lines) /\ old \in DOMAIN voucher /\ voucher[old].source = p
    BY <1>1, <1>2, <1>4
  <2> QED
    BY <1>3, <2>1, Reversals
<1>5. ASSUME x # 0
      PROVE  /\ n \in Booked /\ n.type = "opening" /\ n.status = "posted" /\ n.day = d
             /\ n.source = p /\ n.from = 0 /\ n.lines = OpeningLines(p, x)
             /\ n.entries = EntriesOf(n.lines, d) /\ BalancedOn(n.entries, d)
  <2> PICK L : L = OpeningLines(p, x)
    OBVIOUS
  <2>1. L \in Seq(Lines) /\ Fits(L)
    BY <1>1, <1>2, <1>5, OpeningBears DEF BooksIInv
  <2>2. "opening" \in {"journal", "opening", "reversal"} /\ 0 \in Nat
        /\ p \in Parties \cup {NoOne} /\ m = NewVoucher("opening", d, L, p, 0)
    BY <1>1
  <2>3. /\ n \in Booked /\ n.type = "opening" /\ n.status = "posted" /\ n.day = d
        /\ n.source = p /\ n.from = 0 /\ n.lines = L /\ n.entries = EntriesOf(L, d)
    BY <2>1, <2>2, NewVouchers
  <2> QED
    BY <2>1, <2>3, ValidEntries
<1>6. /\ undone \in Seq(Booked) /\ DOMAIN undone = 1..Len(undone)
      /\ Len(undone) = Len(voucher) + (IF old = 0 THEN 0 ELSE 1)
      /\ \A v \in DOMAIN voucher :
            v \in DOMAIN undone /\ undone[v] = IF v = old THEN w ELSE voucher[v]
      /\ old # 0 => undone[Len(voucher) + 1] = r
  <2>1. CASE old = 0
    BY <1>3, <1>u, <2>1
  <2>2. CASE old # 0
    <3>1. old \in DOMAIN voucher /\ w \in Booked
      <4>1. old \in DOMAIN voucher
        BY <1>1, <2>2
      <4>2. voucher[old] \in Booked
        BY <1>3, <4>1
      <4> QED
        BY <1>w, <4>1, <4>2 DEF Booked
    <3> PICK base : base = [voucher EXCEPT ![old] = w]
      OBVIOUS
    <3>2. undone = Append(base, r)
      BY <1>3, <1>u, <1>w, <2>2, <3>1
    <3>3. /\ base \in Seq(Booked) /\ DOMAIN base = DOMAIN voucher /\ Len(base) = Len(voucher)
          /\ \A v \in DOMAIN voucher : base[v] = IF v = old THEN w ELSE voucher[v]
      BY <1>3, <3>1, Replacing
    <3>4. r \in Booked
      BY <1>4, <2>2
    <3>5. /\ Append(base, r) \in Seq(Booked) /\ DOMAIN Append(base, r) = 1..(Len(base) + 1)
          /\ Append(base, r)[Len(base) + 1] = r
          /\ \A i \in DOMAIN base : Append(base, r)[i] = base[i]
      BY <3>3, <3>4, Appending
    <3>6. Len(undone) = Len(voucher) + 1
      BY <3>2, <3>3
    <3> QED
      BY <1>3, <2>2, <3>2, <3>3, <3>5, <3>6
  <2> QED
    BY <2>1, <2>2
<1>7. /\ voucher' \in Seq(Booked) /\ DOMAIN voucher' = 1..Len(voucher')
      /\ Len(voucher') = Len(undone) + (IF x = 0 THEN 0 ELSE 1)
      /\ \A v \in DOMAIN undone : v \in DOMAIN voucher' /\ voucher'[v] = undone[v]
      /\ x # 0 => voucher'[Len(undone) + 1] = n
  <2>1. CASE x = 0
    BY <1>2, <1>6, <2>1
  <2>2. CASE x # 0
    <3>1. n \in Booked /\ voucher' = Append(undone, n)
      BY <1>2, <1>5, <2>2
    <3>2. /\ Append(undone, n) \in Seq(Booked) /\ DOMAIN Append(undone, n) = 1..(Len(undone) + 1)
          /\ Append(undone, n)[Len(undone) + 1] = n
          /\ \A i \in DOMAIN undone : Append(undone, n)[i] = undone[i]
      BY <1>6, <3>1, Appending
    <3>3. Len(voucher') = Len(undone) + 1 /\ Len(undone) \in Nat
      BY <1>6, <3>1
    <3> QED
      BY <1>6, <2>2, <3>1, <3>2, <3>3
  <2> QED
    BY <2>1, <2>2
<1>l. PICK before, between, last :
        before = Len(voucher) /\ between = Len(undone) /\ last = Len(voucher')
  OBVIOUS
<1>n. /\ before \in Nat /\ between \in Nat /\ last \in Nat
      /\ old = 0 => between = before
      /\ old # 0 => between = before + 1
      /\ x = 0 => last = between
      /\ x # 0 => last = between + 1
  <2>1. before \in Nat /\ between = before + (IF old = 0 THEN 0 ELSE 1)
        /\ last = between + (IF x = 0 THEN 0 ELSE 1)
    BY <1>3, <1>6, <1>7, <1>l
  <2> QED
    BY ONLY <2>1
<1>s. NewlyWritten = (1..last) \ (1..before)
  <2>1. DOMAIN voucher = 1..before /\ DOMAIN voucher' = 1..last
    BY <1>3, <1>7, <1>l
  <2> QED
    BY <2>1 DEF NewlyWritten
<1>8. ASSUME NEW q \in NewlyWritten
      PROVE  \/ old # 0 /\ q = Len(voucher) + 1 /\ voucher'[q] = r
             \/ x # 0 /\ q = Len(undone) + 1 /\ voucher'[q] = n
  <2>1. /\ q \in 1..last /\ q \notin 1..before /\ before \in Nat
        /\ old = 0 => between = before
        /\ old # 0 => between = before + 1
        /\ x = 0 => last = between
        /\ x # 0 => last = between + 1
    BY <1>n, <1>s
  <2>2. /\ x # 0 /\ q = between + 1
        \/ /\ old # 0 /\ q = before + 1 /\ q \in 1..between
    BY <2>1
  <2>3. CASE old # 0 /\ q = before + 1 /\ q \in 1..between
    BY <1>6, <1>7, <1>l, <2>3
  <2>4. CASE x # 0 /\ q = between + 1
    BY <1>7, <1>l, <2>4
  <2> QED
    BY <1>l, <2>2, <2>3, <2>4
<1>9. \A v \in DOMAIN voucher :
        /\ v \in DOMAIN voucher'
        /\ voucher'[v] = IF v = old THEN [voucher[v] EXCEPT !.status = "reversed"] ELSE voucher[v]
  BY <1>6, <1>7, <1>w
<1>10. \A q \in NewlyWritten :
        /\ voucher'[q].source = p /\ voucher'[q].status = "posted"
        /\ voucher'[q].entries = EntriesOf(voucher'[q].lines, voucher'[q].day)
        /\ BalancedOn(voucher'[q].entries, voucher'[q].day)
        /\ \/ /\ voucher'[q].type = "reversal" /\ voucher'[q].from = old /\ old # 0
              /\ voucher'[q].lines = Mirror(voucher[old].lines)
           \/ /\ voucher'[q].type = "opening" /\ voucher'[q].from = 0 /\ x # 0
              /\ voucher'[q].lines = OpeningLines(p, x)
  BY <1>4, <1>5, <1>8
<1>11. ASSUME old # 0
       PROVE  \E k \in NewlyWritten : \A q \in NewlyWritten : voucher'[q].type = "reversal" <=> q = k
  <2>1. Len(voucher) + 1 \in NewlyWritten /\ voucher'[Len(voucher) + 1] = r
    BY <1>3, <1>6, <1>7, <1>11 DEF NewlyWritten
  <2>2. r.type = "reversal" /\ (x # 0 => n.type = "opening")
    BY <1>4, <1>5, <1>11
  <2> QED
    BY <1>8, <2>1, <2>2
<1>12. ASSUME x # 0
       PROVE  \E k \in NewlyWritten : \A q \in NewlyWritten : voucher'[q].type = "opening" <=> q = k
  <2>1. between + 1 \in NewlyWritten /\ voucher'[between + 1] = n
    <3>1. between + 1 \in 1..last /\ between + 1 \notin 1..before
      BY <1>n, <1>12
    <3> QED
      BY <1>7, <1>l, <1>s, <1>12, <3>1
  <2>2. n.type = "opening" /\ (old # 0 => r.type = "reversal")
    BY <1>4, <1>5, <1>12
  <2> QED
    BY <1>8, <1>l, <2>1, <2>2
<1> QED
  BY <1>7, <1>9, <1>10, <1>11, <1>12 DEF OpeningIsReplaced

\* What the entries of a party gain when vouchers are booked beside those there are.
LEMMA PartyGains ==
  ASSUME BooksTypeOK, BooksTypeOK', NEW p \in Parties,
         \A v \in DOMAIN voucher :
            /\ v \in DOMAIN voucher' /\ voucher'[v].source = voucher[v].source
            /\ voucher'[v].entries = voucher[v].entries,
         NEW T, T = {e \in PartyEntries(p)' : e[1] \notin DOMAIN voucher}
  PROVE  /\ Net(PartyEntries(p))' = Net(PartyEntries(p)) + SumOf(EntryAmounts', T)
         /\ Net(PartyEntries(p)) \in Int
<1>1. (BooksTypeOK => EntriesTyped)' /\ NetIsSum'
  BY EntryTypes, NetAsSum, PTL
<1>2. EntriesTyped /\ EntriesTyped' /\ NetIsSum
  BY <1>1, EntryTypes, NetAsSum
<1>3. ASSUME NEW e \in PartyEntries(p)
      PROVE  e \in PartyEntries(p)' /\ EntryAmounts[e] = EntryAmounts'[e] /\ e \notin T
  <2>1. PICK v : v = e[1]
    OBVIOUS
  <2>2. PICK i : i = e[2]
    OBVIOUS
  <2>3. /\ v \in DOMAIN voucher /\ i \in DOMAIN voucher[v].entries /\ e = <<v, i>>
        /\ voucher[v].source = p /\ voucher[v].entries[i].party = p
    BY <1>2, <2>1, <2>2 DEF EntriesTyped, PartyEntries, EntryAt
  <2>4. voucher'[v].entries = voucher[v].entries /\ voucher'[v].source = p /\ v \in DOMAIN voucher'
    BY <2>3
  <2>5. e \in Entries' /\ e \in Entries
    BY <1>2, <2>3, <2>4 DEF EntriesTyped
  <2>6. EntryAt(e)' = EntryAt(e)
    BY <2>3, <2>4 DEF EntryAt
  <2> QED
    BY <2>3, <2>4, <2>5, <2>6 DEF PartyEntries, EntryAmounts, AmountOf
<1>4. ASSUME NEW e \in PartyEntries(p)', e \notin T PROVE e \in PartyEntries(p)
  <2>1. PICK v : v = e[1]
    OBVIOUS
  <2>2. PICK i : i = e[2]
    OBVIOUS
  <2>3. /\ i \in DOMAIN voucher'[v].entries /\ e = <<v, i>>
        /\ voucher'[v].source = p /\ voucher'[v].entries[i].party = p
    BY <1>2, <2>1, <2>2 DEF EntriesTyped, PartyEntries, EntryAt
  <2>4. v \in DOMAIN voucher /\ voucher'[v].entries = voucher[v].entries /\ voucher[v].source = p
    BY <1>4, <2>1, <2>3
  <2> QED
    BY <1>2, <2>3, <2>4 DEF EntriesTyped, PartyEntries, EntryAt
<1> PICK f, g, S, U : /\ f = EntryAmounts /\ g = EntryAmounts' /\ S = PartyEntries(p)
                      /\ U = PartyEntries(p)'
  OBVIOUS
<1>5. S \cap T = {} /\ S \cup T = U /\ \A e \in S : f[e] = g[e]
  BY <1>3, <1>4
<1>6. IsFiniteSet(S) /\ IsFiniteSet(T) /\ Net(S) = SumOf(f, S) /\ \A e \in S : f[e] \in Int
  <2>1. S \in SUBSET Entries /\ U \in SUBSET Entries' /\ T \in SUBSET Entries'
    BY DEF PartyEntries
  <2>2. IsFiniteSet(S) /\ IsFiniteSet(T)
    BY <1>2, <2>1, FS_Subset DEF EntriesTyped
  <2> QED
    BY <1>2, <2>1, <2>2 DEF EntriesTyped, NetIsSum, EntryAmounts
<1>7. \A e \in S \cup T : g[e] \in Int
  BY <1>2, <1>5 DEF PartyEntries, EntriesTyped, EntryAmounts
<1>8. SumOf(g, U) = SumOf(f, S) + SumOf(g, T)
  <2>1. SumOf(g, S \cup T) = SumOf(g, S) + SumOf(g, T)
    BY ONLY <1>5, <1>6, <1>7, SumOfUnion
  <2>2. SumOf(f, S) = SumOf(g, S)
    BY ONLY <1>5, <1>6, SumsAgree
  <2> QED
    BY <1>5, <2>1, <2>2
<1>9. Net(PartyEntries(p))' = SumOf(g, U)
  <2>1. PartyEntries(p)' \in SUBSET Entries'
    BY DEF PartyEntries
  <2> QED
    BY <1>1, <2>1 DEF NetIsSum
<1>10. SumOf(f, S) \in Int
  BY ONLY <1>6, SumIsInteger
<1>11. Net(PartyEntries(p)) = SumOf(f, S)
  <2>1. PartyEntries(p) \in SUBSET Entries
    BY DEF PartyEntries
  <2> QED
    BY <1>2, <2>1 DEF NetIsSum
<1> QED
  BY <1>8, <1>9, <1>10, <1>11

\* The entry of a new voucher whose lines bear one amount on its party.
LEMMA NewEntry ==
  ASSUME BooksTypeOK', NEW p \in Parties, NEW r \in NewlyWritten, voucher'[r].source = p,
         voucher'[r].entries = EntriesOf(voucher'[r].lines, voucher'[r].day),
         NEW j \in Nat, NEW x \in Int, Bears(voucher'[r].lines, p, j, x)
  PROVE  /\ <<r, j>> \in PartyEntries(p)' /\ EntryAmounts'[<<r, j>>] = x
         /\ \A e \in PartyEntries(p)' : e[1] = r => e = <<r, j>>
<1>1. EntriesTyped'
  <2>1. (BooksTypeOK => EntriesTyped)'
    BY EntryTypes, PTL
  <2> QED
    BY <2>1
<1>2. r \in DOMAIN voucher'
  BY DEF NewlyWritten
<1> PICK L, d, E : L = voucher'[r].lines /\ d = voucher'[r].day /\ E = voucher'[r].entries
  OBVIOUS
<1>3. /\ DOMAIN E = DOMAIN L
      /\ \A i \in DOMAIN E : E[i].party = L[i].party /\ E[i].amount = L[i].amount
  BY DEF EntriesOf
<1>4. j \in DOMAIN L /\ L[j].amount = x /\ \A i \in DOMAIN L : L[i].party = p <=> i = j
  BY DEF Bears
<1>5. <<r, j>> \in Entries' /\ EntryAt(<<r, j>>)' = E[j]
  <2>1. \A i \in DOMAIN voucher'[r].entries :
           <<r, i>> \in Entries' /\ EntryAt(<<r, i>>)' = voucher'[r].entries[i]
    BY <1>1, <1>2 DEF EntriesTyped
  <2> QED
    BY <1>3, <1>4, <2>1
<1>6. <<r, j>> \in PartyEntries(p)' /\ EntryAmounts'[<<r, j>>] = x
  BY <1>3, <1>4, <1>5 DEF PartyEntries, EntryAmounts, AmountOf
<1>7. ASSUME NEW e \in PartyEntries(p)', e[1] = r PROVE e = <<r, j>>
  <2>1. /\ e \in Entries' /\ EntryAt(e)'.party = p
    BY DEF PartyEntries
  <2>2. PICK i : i = e[2]
    OBVIOUS
  <2>3. i \in DOMAIN E /\ e = <<r, i>> /\ EntryAt(e)' = E[i]
    BY <1>1, <1>7, <2>1, <2>2 DEF EntriesTyped, EntryAt
  <2> QED
    BY <1>3, <1>4, <2>1, <2>3
<1> QED
  BY <1>6, <1>7

\* The party whose opening balance was set, unless the request was stale: what stands of
\* it is the new voucher, and its entries say what was entered.
LEMMA OpeningIsSet ==
  ASSUME BooksIInv, BooksTypeOK', NEW p \in Parties \ raced, NEW old \in {0} \cup DOMAIN voucher,
         IF old = 0 THEN OpeningOf(p) = {} ELSE old \in OpeningOf(p),
         NEW x \in Int, OpeningIsReplaced(p, old, x),
         entered'[p] = IF vendor[p] THEN - x ELSE x, entered'[p] \in Int
  PROVE  OpeningStandsFor(p)' /\ Net(PartyEntries(p))' = entered'[p]
<1>1. /\ BooksTypeOK /\ OpeningStandsFor(p) /\ Net(PartyEntries(p)) = entered[p]
      /\ voucher \in Seq(Booked) /\ old \in Nat /\ entered[p] \in Int
  BY DEF BooksIInv, BooksTypeOK, OpeningsStand, PartyOwesOpening, PartyEntries
<1>2. /\ voucher' \in Seq(Booked)
      /\ \A v \in DOMAIN voucher :
            /\ v \in DOMAIN voucher'
            /\ voucher'[v] = IF v = old THEN [voucher[v] EXCEPT !.status = "reversed"] ELSE voucher[v]
  BY DEF OpeningIsReplaced
<1>3. ASSUME NEW v \in DOMAIN voucher
      PROVE  /\ v \in DOMAIN voucher' /\ voucher'[v].type = voucher[v].type
             /\ voucher'[v].source = voucher[v].source /\ voucher'[v].entries = voucher[v].entries
             /\ v = old => voucher'[v].status = "reversed"
             /\ v # old => voucher'[v] = voucher[v]
  <2>1. voucher[v] \in Booked
    BY <1>1
  <2>2. CASE v = old
    BY <1>2, <2>1, <2>2 DEF Booked
  <2>3. CASE v # old
    BY <1>2, <2>3
  <2> QED
    BY <2>2, <2>3
<1>4. OpeningOf(p) \subseteq {old}
  BY <1>1 DEF OpeningStandsFor
<1>5. \A v \in DOMAIN voucher : v \notin OpeningOf(p)'
  <2> TAKE v \in DOMAIN voucher
  <2>1. CASE v = old
    BY <1>3, <2>1 DEF OpeningOf
  <2>2. CASE v # old
    BY <1>3, <1>4, <2>2 DEF OpeningOf
  <2> QED
    BY <2>1, <2>2
<1>6. OpeningOf(p)' = {r \in NewlyWritten : voucher'[r].type = "opening"}
  <2>1. \A r \in NewlyWritten : /\ voucher'[r].source = p /\ voucher'[r].status = "posted"
                                /\ voucher'[r].type \in {"opening", "reversal"}
    BY DEF OpeningIsReplaced
  <2> QED
    BY <1>5, <2>1 DEF OpeningOf, NewlyWritten
<1> DEFINE T == {e \in PartyEntries(p)' : e[1] \notin DOMAIN voucher}
           A == {e \in T : voucher'[e[1]].type = "reversal"}
           B == {e \in T : voucher'[e[1]].type = "opening"}
           g == EntryAmounts'
<1>7. EntriesTyped'
  <2>1. (BooksTypeOK => EntriesTyped)'
    BY EntryTypes, PTL
  <2> QED
    BY <2>1
<1>8. \A e \in T : e[1] \in NewlyWritten
  BY <1>7 DEF EntriesTyped, PartyEntries, NewlyWritten
<1>9. IsFiniteSet(A) /\ SumOf(g, A) = 0 - entered[p]
  <2>1. CASE old = 0
    <3>1. A = {}
      BY <1>8, <2>1 DEF OpeningIsReplaced
    <3>2. entered[p] = 0
      BY <1>1, <2>1 DEF OpeningStandsFor
    <3>3. IsFiniteSet(A) /\ SumOf(g, A) = 0
      BY ONLY <3>1, SumOfNone, FS_EmptySet
    <3> QED
      BY <3>2, <3>3
  <2>2. CASE old # 0
    <3>1. PICK n \in NewlyWritten :
             \A r \in NewlyWritten : voucher'[r].type = "reversal" <=> r = n
      BY <2>2 DEF OpeningIsReplaced
    <3>2. PICK o \in DOMAIN voucher, j \in Nat :
            OpeningOf(p) = {o} /\ Bears(voucher[o].lines, p, j, entered[p])
      BY <1>1, <2>2 DEF OpeningStandsFor
    <3>3. o = old /\ voucher[old].lines \in Seq(Lines)
      <4>1. o = old
        BY <2>2, <3>2
      <4>2. voucher[o] \in Booked
        BY <1>1
      <4> QED
        BY <4>1, <4>2 DEF Booked
    <3>4. /\ voucher'[n].source = p
          /\ voucher'[n].entries = EntriesOf(voucher'[n].lines, voucher'[n].day)
          /\ voucher'[n].lines = Mirror(voucher[old].lines)
      BY <3>1 DEF OpeningIsReplaced
    <3>5. Bears(voucher'[n].lines, p, j, - entered[p])
      BY <1>1, <3>2, <3>3, <3>4, MirrorBears
    <3> PICK m : m = - entered[p]
      OBVIOUS
    <3>6. m \in Int /\ Bears(voucher'[n].lines, p, j, m)
      BY <1>1, <3>5
    <3>7. /\ <<n, j>> \in PartyEntries(p)' /\ g[<<n, j>>] = m
          /\ \A e \in PartyEntries(p)' : e[1] = n => e = <<n, j>>
      BY <3>4, <3>6, NewEntry
    <3>8. A = {<<n, j>>}
      <4>1. <<n, j>> \in T /\ voucher'[n].type = "reversal"
        BY <3>1, <3>7 DEF NewlyWritten
      <4> QED
        BY <1>8, <3>1, <3>7, <4>1
    <3>9. SumOf(g, {<<n, j>>}) = m /\ IsFiniteSet({<<n, j>>})
      <4> HIDE DEF g
      <4> QED
        BY <3>6, <3>7, SumOfOne, FS_Singleton
    <3>10. IsFiniteSet(A) /\ SumOf(g, A) = m
      <4> HIDE DEF g, A
      <4> QED
        BY <3>8, <3>9
    <3>11. m = 0 - entered[p]
      BY <1>1
    <3> QED
      BY <3>10, <3>11
  <2> QED
    BY <2>1, <2>2
<1>10. /\ IsFiniteSet(B) /\ SumOf(g, B) = entered'[p]
       /\ OpeningStandsFor(p)'
  <2>1. CASE x = 0
    <3>1. B = {} /\ OpeningOf(p)' = {}
      BY <1>6, <1>8, <2>1 DEF OpeningIsReplaced
    <3>2. entered'[p] = 0
      <4>1. entered'[p] = - x \/ entered'[p] = x
        OBVIOUS
      <4> QED
        BY ONLY <2>1, <4>1
    <3>3. IsFiniteSet(B) /\ SumOf(g, B) = 0
      BY ONLY <3>1, SumOfNone, FS_EmptySet
    <3> QED
      BY <3>1, <3>2, <3>3 DEF OpeningStandsFor
  <2>2. CASE x # 0
    <3>1. PICK n \in NewlyWritten :
             \A r \in NewlyWritten : voucher'[r].type = "opening" <=> r = n
      BY <2>2 DEF OpeningIsReplaced
    <3>2. PICK j \in Nat : Bears(OpeningLines(p, x), p, j, entered'[p])
      BY <1>1, OpeningBears
    <3>3. /\ voucher'[n].source = p
          /\ voucher'[n].entries = EntriesOf(voucher'[n].lines, voucher'[n].day)
          /\ voucher'[n].lines = OpeningLines(p, x)
      BY <3>1 DEF OpeningIsReplaced
    <3> PICK m : m = entered'[p]
      OBVIOUS
    <3>4. m \in Int /\ Bears(voucher'[n].lines, p, j, m)
      BY <3>2, <3>3
    <3>5. /\ <<n, j>> \in PartyEntries(p)' /\ g[<<n, j>>] = m
          /\ \A e \in PartyEntries(p)' : e[1] = n => e = <<n, j>>
      BY <3>3, <3>4, NewEntry
    <3>6. B = {<<n, j>>}
      <4>1. <<n, j>> \in T /\ voucher'[n].type = "opening"
        BY <3>1, <3>5 DEF NewlyWritten
      <4> QED
        BY <1>8, <3>1, <3>5, <4>1
    <3>7. SumOf(g, {<<n, j>>}) = m /\ IsFiniteSet({<<n, j>>})
      <4> HIDE DEF g
      <4> QED
        BY ONLY <3>4, <3>5, SumOfOne, FS_Singleton
    <3>8. OpeningOf(p)' = {n} /\ n \in DOMAIN voucher'
      <4>1. n \in DOMAIN voucher'
        BY DEF NewlyWritten
      <4>2. {r \in NewlyWritten : voucher'[r].type = "opening"} = {n}
        BY ONLY <3>1, n \in NewlyWritten
      <4> QED
        BY <1>6, <4>1, <4>2
    <3>9. OpeningStandsFor(p)'
      <4>1. OpeningOf(p)' # {}
        BY <3>8
      <4>2. {i \in DOMAIN voucher'[n].lines : voucher'[n].lines[i].party = p} = {j}
            /\ voucher'[n].lines[j].amount = entered'[p]
        BY <3>4 DEF Bears
      <4> PICK E, L : E = voucher'[n].entries /\ L = voucher'[n].lines
        OBVIOUS
      <4>b. {i \in DOMAIN L : L[i].party = p} = {j} /\ L[j].amount = entered'[p]
        BY <4>2
      <4>3. \E o \in DOMAIN voucher', k \in Nat :
              /\ OpeningOf(p)' = {o}
              /\ voucher'[o].entries = EntriesOf(voucher'[o].lines, voucher'[o].day)
              /\ {i \in DOMAIN voucher'[o].lines : voucher'[o].lines[i].party = p} = {k}
              /\ voucher'[o].lines[k].amount = entered'[p]
        BY <3>3, <3>8, <4>b
      <4> QED
        BY ONLY <4>1, <4>3 DEF OpeningStandsFor, Bears
    <3>10. IsFiniteSet(B) /\ SumOf(g, B) = m
      <4> HIDE DEF g, B
      <4> QED
        BY <3>6, <3>7
    <3> QED
      BY <3>9, <3>10
  <2> QED
    BY <2>1, <2>2
<1>11. A \cap B = {} /\ A \cup B = T /\ \A e \in A \cup B : g[e] \in Int
  <2>1. \A e \in T : voucher'[e[1]].type \in {"opening", "reversal"}
    BY <1>8 DEF OpeningIsReplaced
  <2>2. \A e \in T : g[e] \in Int
    BY <1>7 DEF EntriesTyped, PartyEntries, EntryAmounts
  <2>3. A \cap B = {} /\ A \subseteq T /\ B \subseteq T
    OBVIOUS
  <2>4. T \subseteq A \cup B
    BY <2>1
  <2> HIDE DEF g, T, A, B
  <2> QED
    BY <2>2, <2>3, <2>4
<1>12. SumOf(g, T) = entered'[p] - entered[p]
  <2> HIDE DEF A, B, T, g
  <2>1. SumOf(g, A \cup B) = SumOf(g, A) + SumOf(g, B)
    BY <1>9, <1>10, <1>11, SumOfUnion
  <2>2. SumOf(g, T) = (0 - entered[p]) + entered'[p]
    BY ONLY <1>9, <1>10, <1>11, <2>1
  <2>3. entered[p] \in Int /\ entered'[p] \in Int
    BY <1>1
  <2> QED
    BY ONLY <2>2, <2>3
<1>13. Net(PartyEntries(p))' = Net(PartyEntries(p)) + SumOf(g, T)
  BY <1>1, <1>3, PartyGains
<1> QED
  BY <1>1, <1>10, <1>12, <1>13

LEMMA SettingOpeningKeepsBooks ==
  ASSUME BooksIInv, NEW c \in Clerks, NEW x \in Amounts, NEW d \in Days, SetPartyOpening(c, x, d)
  PROVE  BooksIInv'
<1> PICK p, old : p = job[c].subject /\ old = job[c].existing
  OBVIOUS
<1>1. /\ job[c].kind = "opening" /\ Written(c, FALSE)
      /\ entered' = [entered EXCEPT ![p] = IF vendor[p] THEN - x ELSE x]
      /\ raced' = IF job[c].stale THEN raced \cup {p, old} ELSE raced
      /\ UNCHANGED <<account, year, open, vendor, turns>>
  BY DEF SetPartyOpening
<1>2. BooksTypeOK /\ JobsAreAsRead
  BY DEF BooksIInv
<1>3. /\ p \in Parties /\ old \in {0} \cup DOMAIN voucher /\ old \in Nat /\ x \in Int
      /\ old # 0 => voucher[old].source = p
      /\ OpeningIsAsRead(job[c])
  BY <1>1, <1>2, OpeningJob, BooksAssumption
<1>4. OpeningIsReplaced(p, old, x)
  BY ReplacingOpening
<1>5. ~ job[c].stale => IF old = 0 THEN OpeningOf(p) = {} ELSE old \in OpeningOf(p)
  BY <1>3 DEF OpeningIsAsRead, OpeningOf
<1>6. BooksTypeOK'
  <2>1. job' \in [Clerks -> {Resting} \cup VoucherJobs \cup OpeningJobs]
    BY <1>1, <1>2, WrittenJobs
  <2>2. voucher' \in Seq(Booked)
    BY <1>4 DEF OpeningIsReplaced
  <2>3. entered' \in [Parties -> Int] /\ raced' \subseteq Nat \cup Parties
    <3>1. entered \in [Parties -> Int] /\ raced \subseteq Nat \cup Parties
      BY <1>2 DEF BooksTypeOK
    <3>2. (IF vendor[p] THEN - x ELSE x) \in Int
      BY <1>3
    <3>3. entered' \in [Parties -> Int]
      BY <1>1, <3>1, <3>2
    <3> QED
      BY <1>1, <1>3, <3>1, <3>3
  <2> QED
    BY <1>1, <1>2, <2>1, <2>2, <2>3 DEF BooksTypeOK
<1>7. /\ raced \subseteq raced' /\ entered'[p] = IF vendor[p] THEN - x ELSE x
      /\ \A q \in Parties : q # p => entered'[q] = entered[q]
      /\ p \notin raced' => ~ job[c].stale
      /\ old \notin raced' => ~ job[c].stale
  BY <1>1, <1>2, <1>3 DEF BooksTypeOK
<1>8. VouchersAreFounded' /\ JobsAreAsRead' /\ EntriesFollow' /\ EntriesBalance' /\ PostersShareDay'
  <2>1. \A v \in DOMAIN voucher :
            /\ v \in DOMAIN voucher'
            /\ voucher'[v] = IF v = old THEN [voucher[v] EXCEPT !.status = "reversed"] ELSE voucher[v]
    BY <1>4 DEF OpeningIsReplaced
  <2>2. \A r \in DOMAIN voucher' \ DOMAIN voucher :
            /\ voucher'[r].from \in {0, old} /\ voucher'[r].type \in {"opening", "reversal"}
            /\ voucher'[r].type = "opening" => voucher'[r].from = 0
            /\ voucher'[r].status = "posted"
            /\ voucher'[r].entries = EntriesOf(voucher'[r].lines, voucher'[r].day)
            /\ BalancedOn(voucher'[r].entries, voucher'[r].day)
            /\ voucher'[r].from # 0 => voucher'[r].lines = Mirror(voucher[old].lines)
    BY <1>4 DEF OpeningIsReplaced, NewlyWritten
  <2>3. ASSUME old # 0
        PROVE  \E n \in DOMAIN voucher' \ DOMAIN voucher :
                  \A r \in DOMAIN voucher' \ DOMAIN voucher : voucher'[r].from = old <=> r = n
    <3>1. PICK n \in NewlyWritten :
             \A r \in NewlyWritten : voucher'[r].type = "reversal" <=> r = n
      BY <1>4, <2>3 DEF OpeningIsReplaced
    <3>2. \A r \in NewlyWritten : voucher'[r].type = "reversal" <=> voucher'[r].from = old
      BY <1>4, <2>3 DEF OpeningIsReplaced
    <3> QED
      BY <3>1, <3>2 DEF NewlyWritten
  <2>4. old # 0 /\ old \notin raced' => voucher[old].status = "posted"
    BY <1>5, <1>7 DEF OpeningOf
  <2>5. old # 0 => Subject(old) = job[c].subject
    BY <1>3 DEF Subject
  <2>6. \A r \in DOMAIN voucher' \ DOMAIN voucher :
           voucher'[r].source \in Parties => voucher'[r].source = job[c].subject
    BY <1>4 DEF OpeningIsReplaced, NewlyWritten
  <2> QED
    BY <1>1, <1>3, <1>6, <1>7, <2>1, <2>2, <2>3, <2>4, <2>5, <2>6, BookingKeepsVouchers
<1>9. ASSUME NEW q \in Parties \ raced'
      PROVE  OpeningStandsFor(q)' /\ Net(PartyEntries(q))' = entered'[q]
  <2>1. CASE q = p
    <3>1. entered'[p] \in Int /\ p \in Parties \ raced
          /\ IF old = 0 THEN OpeningOf(p) = {} ELSE old \in OpeningOf(p)
      BY <1>5, <1>6, <1>7, <2>1 DEF BooksTypeOK
    <3> QED
      BY <1>3, <1>4, <1>6, <1>7, <2>1, <3>1, OpeningIsSet
  <2>2. CASE q # p
    <3>1. q \in Parties /\ q \notin raced
      BY <1>7
    <3>2. OpeningStandsFor(q) /\ Net(PartyEntries(q)) = entered[q]
      BY <3>1 DEF BooksIInv, OpeningsStand, PartyOwesOpening, PartyEntries
    <3>3. \A v \in DOMAIN voucher :
             v \in DOMAIN voucher' /\ voucher'[v].source = voucher[v].source
               /\ (voucher[v].source = q => voucher'[v] = voucher[v])
      <4> TAKE v \in DOMAIN voucher
      <4>1. voucher[v] \in Booked
        BY <1>2 DEF BooksTypeOK
      <4>2. CASE v = old
        <5>1. old # 0
          BY <1>2, <4>2 DEF BooksTypeOK
        <5> QED
          BY <1>3, <1>4, <2>2, <4>1, <4>2, <5>1 DEF OpeningIsReplaced, Booked
      <4>3. CASE v # old
        BY <1>4, <4>3 DEF OpeningIsReplaced
      <4> QED
        BY <4>2, <4>3
    <3>4. \A v \in DOMAIN voucher' \ DOMAIN voucher : voucher'[v].source # q
      BY <1>4, <2>2 DEF OpeningIsReplaced, NewlyWritten
    <3> QED
      BY <1>2, <1>6, <1>7, <2>2, <3>1, <3>2, <3>3, <3>4, PartyUntouched
  <2> QED
    BY <2>1, <2>2
<1>10. OpeningsStand' /\ PartyOwesOpening'
  BY <1>9 DEF OpeningsStand, PartyOwesOpening, PartyEntries
<1> QED
  BY <1>6, <1>8, <1>10 DEF BooksIInv

-----------------------------------------------------------------------------
(* Steps that write no voucher.                                              *)

LEMMA UnwrittenKeepsBooks ==
  ASSUME BooksIInv, BooksTypeOK', UNCHANGED <<voucher, entered, raced>>,
         \A o \in Clerks :
            \/ job'[o] = job[o] \/ job'[o] = Resting
            \/ /\ job'[o] \in VoucherJobs /\ VoucherIsAsRead(job'[o])
               /\ job'[o].kind = "post" => voucher[job'[o].voucher].entries = <<>>
            \/ job'[o] \in OpeningJobs /\ OpeningIsAsRead(job'[o])
  PROVE  BooksIInv'
<1>1. VouchersAreFounded'
  BY DEF BooksIInv, VouchersAreFounded
<1>2. JobsAreAsRead'
  <2> SUFFICES ASSUME NEW o \in Clerks
               PROVE  /\ job'[o] \in VoucherJobs => VoucherIsAsRead(job[o])'
                      /\ job'[o] \in OpeningJobs => OpeningIsAsRead(job[o])'
    BY DEF JobsAreAsRead
  <2>1. CASE job'[o] = job[o]
    <3>1. /\ job[o] \in VoucherJobs => VoucherIsAsRead(job[o])
          /\ job[o] \in OpeningJobs => OpeningIsAsRead(job[o])
      BY DEF BooksIInv, JobsAreAsRead
    <3> QED
      BY <2>1, <3>1 DEF VoucherIsAsRead, OpeningIsAsRead, OpeningOf, Subject
  <2>2. CASE job'[o] = Resting
    BY <2>2, JobKinds
  <2>3. CASE job'[o] \in VoucherJobs /\ VoucherIsAsRead(job'[o])
    BY <2>3, JobKinds DEF VoucherIsAsRead, Subject
  <2>4. CASE job'[o] \in OpeningJobs /\ OpeningIsAsRead(job'[o])
    BY <2>4, JobKinds DEF OpeningIsAsRead, OpeningOf
  <2> QED
    BY <2>1, <2>2, <2>3, <2>4
<1>3. EntriesFollow'
  BY DEF BooksIInv, EntriesFollow, FollowsVoucher, ReversalsOf
<1>4. OpeningsStand' /\ PartyOwesOpening'
  BY PartiesUntouched
<1>5. EntriesBalance'
  BY DEF BooksIInv, EntriesBalance, BalancedOn
<1>6. PostersShareDay'
  <2> SUFFICES ASSUME NEW o \in Clerks, job'[o] \in VoucherJobs, job'[o].kind = "post",
                      ~job'[o].linesGone
               PROVE  BalancedOn(voucher'[job'[o].voucher].entries, voucher'[job'[o].voucher].day)
    BY DEF PostersShareDay, BalancedOn
  <2>1. CASE job'[o] = job[o]
    BY <2>1 DEF BooksIInv, PostersShareDay
  <2>2. CASE voucher[job'[o].voucher].entries = <<>>
    BY <2>2, NothingBalances
  <2> QED
    BY <2>1, <2>2, JobKinds
<1> QED
  BY <1>1, <1>2, <1>3, <1>4, <1>5, <1>6 DEF BooksIInv

LEMMA ReadingKeepsBooks ==
  ASSUME BooksIInv, NEW c \in Clerks,
         NEW r \in VoucherJobs \cup OpeningJobs, Read(c, r),
         r \in VoucherJobs => /\ VoucherIsAsRead(r)
                              /\ r.kind = "post" => voucher[r.voucher].entries = <<>>,
         r \in OpeningJobs => OpeningIsAsRead(r)
  PROVE  BooksIInv'
<1>1. /\ job' = [job EXCEPT ![c] = r]
      /\ UNCHANGED <<account, year, open, voucher, entered, vendor, turns, raced>>
  BY DEF Read
<1>2. BooksTypeOK'
  BY <1>1 DEF BooksIInv, BooksTypeOK
<1>3. \A o \in Clerks : job'[o] = IF o = c THEN r ELSE job[o]
  BY <1>1 DEF BooksIInv, BooksTypeOK
<1> QED
  BY <1>1, <1>2, <1>3, UnwrittenKeepsBooks

LEMMA ReadingVoucherKeepsBooks ==
  ASSUME BooksIInv, NEW c \in Clerks, NEW kind \in {"update", "post", "cancel", "reverse"},
         NEW v \in DOMAIN voucher, ReadVoucher(c, kind, v)
  PROVE  BooksIInv'
<1> PICK r : r = [kind |-> kind, subject |-> Subject(v), voucher |-> v,
                  stale |-> FALSE, linesGone |-> FALSE]
  OBVIOUS
<1>1. voucher[v].status \in StatusFor(kind) /\ Read(c, r)
  BY DEF ReadVoucher
<1>2. v \in Nat /\ Subject(v) \in Parties \cup Nat
  BY DEF BooksIInv, BooksTypeOK, Subject
<1>3. /\ r \in VoucherJobs /\ r.kind = kind /\ r.voucher = v /\ r.stale = FALSE
      /\ r.subject = Subject(v)
  BY <1>2 DEF VoucherJobs
<1>4. kind # "reverse" => voucher[v].type = "journal" /\ voucher[v].entries = <<>>
  BY <1>1 DEF StatusFor, BooksIInv, VouchersAreFounded
<1>5. VoucherIsAsRead(r)
  BY <1>1, <1>3, <1>4 DEF VoucherIsAsRead
<1> QED
  BY <1>1, <1>3, <1>4, <1>5, JobKinds, ReadingKeepsBooks

LEMMA ReadingOpeningKeepsBooks ==
  ASSUME BooksIInv, NEW c \in Clerks, NEW p \in Parties, ReadPartyOpening(c, p)
  PROVE  BooksIInv'
<1>1. PICK old \in IF OpeningOf(p) = {} THEN {0} ELSE OpeningOf(p) :
         Read(c, [kind |-> "opening", subject |-> p, existing |-> old,
                  stale |-> FALSE, linesGone |-> FALSE])
  BY DEF ReadPartyOpening
<1> PICK r : r = [kind |-> "opening", subject |-> p, existing |-> old,
                  stale |-> FALSE, linesGone |-> FALSE]
  OBVIOUS
<1>2. \A v \in OpeningOf(p) : v \in DOMAIN voucher /\ v \in Nat /\ v # 0 /\ voucher[v].source = p
  BY DEF OpeningOf, BooksIInv, BooksTypeOK
<1>3. old \in Nat /\ (old # 0 => old \in OpeningOf(p)) /\ (old = 0 => OpeningOf(p) = {})
  BY <1>2
<1>4. r \in OpeningJobs /\ r.subject = p /\ r.existing = old
  BY <1>3 DEF OpeningJobs
<1>5. OpeningIsAsRead(r)
  BY <1>2, <1>3, <1>4 DEF OpeningIsAsRead
<1> QED
  BY <1>1, <1>4, <1>5, JobKinds, ReadingKeepsBooks

\* Fiscal years, periods, accounts and the roles of parties.
LEMMA TurningKeepsBooks ==
  ASSUME BooksIInv, Turn, UNCHANGED <<voucher, entered, job, raced>>,
         account' \in [Accounts -> [kept : BOOLEAN, active : BOOLEAN, parent : Accounts \cup {NoOne}]],
         year' \in [Days -> BOOLEAN], open' \in [Days -> BOOLEAN], vendor' \in [Parties -> BOOLEAN]
  PROVE  BooksIInv'
<1>1. BooksTypeOK'
  BY DEF BooksIInv, BooksTypeOK, Turn
<1> QED
  BY <1>1, UnwrittenKeepsBooks

LEMMA SettingUpKeepsBooks ==
  ASSUME BooksIInv,
         \/ \E p \in Parties : ChangePartyRole(p)
         \/ CreateNextYear \/ AddBank \/ DeleteBank
         \/ \E d \in Days : DeleteYear(d) \/ \E s \in BOOLEAN : SetPeriod(d, s)
         \/ \E a \in Accounts : \/ \E b \in BOOLEAN : SetAccountActive(a, b)
                                \/ \E q \in Folders : MoveAccount(a, q)
  PROVE  BooksIInv'
<1> DEFINE AccountTypes == [kept : BOOLEAN, active : BOOLEAN, parent : Accounts \cup {NoOne}]
<1>1. /\ account \in [Accounts -> AccountTypes] /\ year \in [Days -> BOOLEAN]
      /\ open \in [Days -> BOOLEAN] /\ vendor \in [Parties -> BOOLEAN]
  BY DEF BooksIInv, BooksTypeOK
<1>2. ASSUME NEW p \in Parties, ChangePartyRole(p) PROVE BooksIInv'
  <2>1. Turn /\ vendor' = [vendor EXCEPT ![p] = ~ @]
        /\ UNCHANGED <<account, year, open, voucher, entered, job, raced>>
    BY <1>2 DEF ChangePartyRole
  <2> QED
    BY <1>1, <2>1, TurningKeepsBooks
<1>3. ASSUME CreateNextYear PROVE BooksIInv'
  <2>1. Turn /\ UNCHANGED <<account, voucher, entered, vendor, job, raced>>
        /\ year' = [year EXCEPT ![LatestYear + 1] = TRUE]
        /\ open' = [open EXCEPT ![LatestYear + 1] = TRUE]
    BY <1>3 DEF CreateNextYear
  <2>2. year' \in [Days -> BOOLEAN] /\ open' \in [Days -> BOOLEAN]
    BY <1>1, <2>1
  <2> QED
    BY <1>1, <2>1, <2>2, TurningKeepsBooks
<1>4. ASSUME AddBank PROVE BooksIInv'
  <2>1. Turn /\ UNCHANGED <<year, open, voucher, entered, vendor, job, raced>>
        /\ account' = [account EXCEPT ![BankAccount] =
                         [kept |-> TRUE, active |-> TRUE, parent |-> Role.bank]]
    BY <1>4 DEF AddBank
  <2>2. Role.bank \in Accounts
    BY BooksAssumption
  <2>3. account' \in [Accounts -> AccountTypes]
    BY <1>1, <2>1, <2>2
  <2> QED
    BY <1>1, <2>1, <2>3, TurningKeepsBooks
<1>5. ASSUME DeleteBank PROVE BooksIInv'
  <2>1. Turn /\ UNCHANGED <<year, open, voucher, entered, vendor, job, raced>>
        /\ account' = [a \in Accounts |->
                         IF a = BankAccount THEN [account[a] EXCEPT !.kept = FALSE]
                         ELSE IF account[a].parent = BankAccount
                           THEN [account[a] EXCEPT !.parent = NoOne] ELSE account[a]]
    BY <1>5 DEF DeleteBank
  <2>2. \A a \in Accounts : /\ [account[a] EXCEPT !.kept = FALSE] \in AccountTypes
                            /\ [account[a] EXCEPT !.parent = NoOne] \in AccountTypes
                            /\ account[a] \in AccountTypes
    BY <1>1
  <2>3. account' \in [Accounts -> AccountTypes]
    <3> HIDE DEF AccountTypes
    <3> QED
      BY <2>1, <2>2
  <2> QED
    BY <1>1, <2>1, <2>3, TurningKeepsBooks
<1>6. ASSUME NEW d \in Days, DeleteYear(d) PROVE BooksIInv'
  <2>1. Turn /\ year' = [year EXCEPT ![d] = FALSE]
        /\ UNCHANGED <<account, open, voucher, entered, vendor, job, raced>>
    BY <1>6 DEF DeleteYear
  <2> QED
    BY <1>1, <2>1, TurningKeepsBooks
<1>7. ASSUME NEW d \in Days, NEW s \in BOOLEAN, SetPeriod(d, s) PROVE BooksIInv'
  <2>1. Turn /\ open' = [open EXCEPT ![d] = s]
        /\ UNCHANGED <<account, year, voucher, entered, vendor, job, raced>>
    BY <1>7 DEF SetPeriod
  <2>2. open' \in [Days -> BOOLEAN]
    BY <1>1, <2>1
  <2> QED
    BY <1>1, <2>1, <2>2, TurningKeepsBooks
<1>8. ASSUME NEW a \in Accounts, NEW b \in BOOLEAN, SetAccountActive(a, b) PROVE BooksIInv'
  <2>1. Turn /\ account' = [account EXCEPT ![a].active = b]
        /\ UNCHANGED <<year, open, voucher, entered, vendor, job, raced>>
    BY <1>8 DEF SetAccountActive
  <2>2. [account[a] EXCEPT !.active = b] \in AccountTypes
    BY <1>1
  <2>3. account' \in [Accounts -> AccountTypes]
    BY <1>1, <2>1, <2>2
  <2> QED
    BY <1>1, <2>1, <2>3, TurningKeepsBooks
<1>9. ASSUME NEW a \in Accounts, NEW q \in Folders, MoveAccount(a, q) PROVE BooksIInv'
  <2>1. Turn /\ account' = [account EXCEPT ![a].parent = q]
        /\ UNCHANGED <<year, open, voucher, entered, vendor, job, raced>>
    BY <1>9 DEF MoveAccount
  <2>2. q \in Accounts \cup {NoOne}
    BY BooksAssumption
  <2>3. [account[a] EXCEPT !.parent = q] \in AccountTypes
    BY <1>1, <2>2
  <2>4. account' \in [Accounts -> AccountTypes]
    BY <1>1, <2>1, <2>3
  <2> QED
    BY <1>1, <2>1, <2>4, TurningKeepsBooks
<1> QED
  BY <1>2, <1>3, <1>4, <1>5, <1>6, <1>7, <1>8, <1>9

-----------------------------------------------------------------------------
(* What sets of entries add up to.                                           *)

LEMMA NetTyped ==
  ASSUME BooksTypeOK, NEW S \in SUBSET Entries
  PROVE  /\ IsFiniteSet(S) /\ Net(S) = SumOf(EntryAmounts, S) /\ Net(S) \in Int
         /\ \A e \in S : EntryAmounts[e] = AmountOf(e) /\ EntryAmounts[e] \in Int
<1>1. EntriesTyped /\ NetIsSum
  BY EntryTypes, NetAsSum
<1>2. IsFiniteSet(S) /\ Net(S) = SumOf(EntryAmounts, S)
  BY <1>1, FS_Subset DEF EntriesTyped, NetIsSum
<1>3. \A e \in S : EntryAmounts[e] = AmountOf(e) /\ EntryAmounts[e] \in Int
  BY <1>1 DEF EntriesTyped, EntryAmounts
<1>4. SumOf(EntryAmounts, S) \in Int
  BY <1>2, <1>3, SumIsInteger
<1> QED
  BY <1>2, <1>3, <1>4

LEMMA NetOfBoth ==
  ASSUME BooksTypeOK, NEW S \in SUBSET Entries, NEW T \in SUBSET Entries, S \cap T = {},
         NEW U, U = S \cup T
  PROVE  Net(U) = Net(S) + Net(T)
<1> PICK f : f = EntryAmounts
  OBVIOUS
<1>1. /\ IsFiniteSet(S) /\ IsFiniteSet(T) /\ Net(S) = SumOf(f, S) /\ Net(T) = SumOf(f, T)
      /\ \A e \in S \cup T : f[e] \in Int
  BY NetTyped
<1>2. Net(U) = SumOf(f, U)
  BY NetTyped
<1>3. SumOf(f, S \cup T) = SumOf(f, S) + SumOf(f, T)
  BY ONLY <1>1, S \cap T = {}, SumOfUnion
<1> QED
  BY <1>1, <1>2, <1>3

LEMMA NetOfNothing ==
  ASSUME BooksTypeOK, NEW S \in SUBSET Entries, \A e \in S : AmountOf(e) = 0
  PROVE  Net(S) = 0
<1> PICK f : f = EntryAmounts
  OBVIOUS
<1>1. IsFiniteSet(S) /\ Net(S) = SumOf(f, S) /\ \A e \in S : f[e] = 0
  BY NetTyped
<1> QED
  BY <1>1, SumOfZeros

\* What came in less what went out.
LEMMA NetBySign ==
  ASSUME BooksTypeOK, NEW S \in SUBSET Entries
  PROVE  Net(S) = Net({e \in S : AmountOf(e) > 0}) + Net({e \in S : AmountOf(e) < 0})
<1> PICK P, N, Z, R : /\ P = {e \in S : AmountOf(e) > 0} /\ N = {e \in S : AmountOf(e) < 0}
                      /\ Z = {e \in S : AmountOf(e) = 0} /\ R = N \cup Z
  OBVIOUS
<1>1. \A e \in S : AmountOf(e) \in Int
  BY NetTyped
<1>2. /\ {P, N, Z, R} \subseteq SUBSET Entries /\ N \cap Z = {} /\ P \cap R = {} /\ S = P \cup R
  BY <1>1
<1>3. Net(R) = Net(N) + Net(Z) /\ Net(S) = Net(P) + Net(R)
  BY <1>2, NetOfBoth
<1>4. Net(Z) = 0
  BY <1>2, NetOfNothing
<1>5. Net(P) \in Int /\ Net(N) \in Int
  BY <1>2, NetTyped
<1> QED
  BY <1>3, <1>4, <1>5

\* The balances of accounts, and of some accounts altogether.
NetsOf(S) == [a \in Accounts |-> Net(On(S, {a}))]
NetOfAccounts(S, A) == TotalOver(A, LAMBDA a : Net(On(S, {a})))

LEMMA NetByAccount ==
  ASSUME BooksTypeOK, NEW S \in SUBSET Entries, NEW A \in SUBSET Accounts
  PROVE  NetOfAccounts(S, A) = Net(On(S, A)) /\ NetOfAccounts(S, A) = SumOf(NetsOf(S), A)
<1>1. NetOfAccounts(S, A) = SumOf(NetsOf(S), A)
  <2> DEFINE f == NetsOf(S)
             F(g) == [t \in SUBSET A |->
                        IF t = {} THEN 0
                        ELSE Net(On(S, {CHOOSE x \in t : TRUE})) + g[t \ {CHOOSE x \in t : TRUE}]]
             G(g) == [t \in SUBSET A |->
                        IF t = {} THEN 0
                        ELSE f[CHOOSE x \in t : TRUE] + g[t \ {CHOOSE x \in t : TRUE}]]
  <2>1. \A g : F(g) = G(g)
    <3>1. \A t \in SUBSET A : t # {} =>
            f[CHOOSE x \in t : TRUE] = Net(On(S, {CHOOSE x \in t : TRUE}))
      BY DEF NetsOf
    <3> HIDE DEF f
    <3> QED
      BY <3>1
  <2>2. NetOfAccounts(S, A) = (CHOOSE g : g = F(g))[A]
    BY DEF NetOfAccounts, TotalOver, MapThenSumSet, MapThenFoldSet
  <2>3. SumOf(f, A) = (CHOOSE g : g = G(g))[A]
    BY DEF SumOf, MapThenSumSet, MapThenFoldSet
  <2>4. (CHOOSE g : g = F(g)) = (CHOOSE g : g = G(g))
    <3> HIDE DEF F, G
    <3> QED BY <2>1
  <2> QED
    BY <2>2, <2>3, <2>4
<1> DEFINE f == EntryAmounts
           g == NetsOf(S)
           P == [a \in A |-> On(S, {a})]
<1>2. IsFiniteSet(A)
  BY BooksAssumption, FS_Subset
<1>3. ASSUME NEW a \in A
      PROVE  /\ IsFiniteSet(P[a]) /\ g[a] = SumOf(f, P[a])
             /\ \A e \in P[a] : f[e] \in Int
  <2>1. On(S, {a}) \in SUBSET Entries
    BY DEF On
  <2>2. g[a] = Net(On(S, {a})) /\ P[a] = On(S, {a})
    BY DEF NetsOf
  <2> QED
    BY <2>1, <2>2, NetTyped
<1>4. \A a, b \in A : a # b => P[a] \cap P[b] = {}
  BY DEF On
<1>5. UNION {P[a] : a \in A} = On(S, A)
  BY DEF On
<1>6. SumOf(g, A) = SumOf(f, UNION {P[a] : a \in A})
  <2> HIDE DEF f, g, P
  <2> QED
    BY <1>2, <1>3, <1>4, SumByParts
<1>7. Net(On(S, A)) = SumOf(f, On(S, A))
  <2>1. On(S, A) \in SUBSET Entries
    BY DEF On
  <2> QED
    BY <2>1, NetTyped
<1> QED
  BY <1>1, <1>5, <1>6, <1>7

\* Whole vouchers add up to nothing.
LEMMA VouchersBalance ==
  ASSUME BooksTypeOK, EntriesBalance, NEW V \in SUBSET DOMAIN voucher,
         NEW S, S = {e \in Entries : e[1] \in V}
  PROVE  Net(S) = 0
<1>1. EntriesTyped
  BY EntryTypes
<1> DEFINE f == EntryAmounts
           F == [v \in V |-> {<<v, i>> : i \in DOMAIN voucher[v].entries}]
           g == [v \in V |-> SumOf(f, F[v])]
<1>2. ASSUME NEW v \in V
      PROVE  IsFiniteSet(F[v]) /\ (\A e \in F[v] : f[e] \in Int) /\ SumOf(f, F[v]) = 0
  <2> PICK E : E = voucher[v].entries
    OBVIOUS
  <2>1. LinesTotal(E) = 0
    BY DEF EntriesBalance, BalancedOn
  <2>2. F[v] \in SUBSET Entries
    BY <1>1 DEF EntriesTyped
  <2>3. IsFiniteSet(F[v]) /\ \A e \in F[v] : f[e] \in Int
    BY <2>2, NetTyped
  <2> DEFINE h == AmountsOf(E)
             N == DOMAIN E
             t == [i \in N |-> <<v, i>>]
  <2>4. IsFiniteSet(N)
    <3>1. E \in Seq(BookEntries)
      <4>1. voucher[v] \in Booked
        BY ElementsKeepType DEF BooksTypeOK
      <4> QED
        BY <4>1 DEF Booked
    <3>2. N = 1..Len(E) /\ Len(E) \in Nat
      BY <3>1
    <3> QED
      BY <3>2, FS_Interval
  <2>5. \A i \in N : h[i] = f[t[i]] /\ f[t[i]] \in Int
    <3> TAKE i \in N
    <3>1. <<v, i>> \in Entries /\ EntryAt(<<v, i>>) = E[i]
      BY <1>1 DEF EntriesTyped
    <3>2. f[<<v, i>>] = E[i].amount /\ f[<<v, i>>] \in Int
      BY <1>1, <3>1 DEF EntriesTyped, EntryAmounts, AmountOf
    <3> QED
      BY <3>2 DEF AmountsOf
  <2>6. \A i, j \in N : t[i] = t[j] => i = j
    OBVIOUS
  <2>7. {t[i] : i \in N} = F[v]
    OBVIOUS
  <2>8. SumOf(h, N) = SumOf(f, {t[i] : i \in N})
    <3> HIDE DEF f, h, t, N
    <3> QED
      BY <2>4, <2>5, <2>6, SumThrough
  <2>9. SumOf(h, N) = 0
    BY <2>1, TotalIsSum
  <2> QED
    BY <2>3, <2>7, <2>8, <2>9
<1>3. IsFiniteSet(V)
  <2>1. DOMAIN voucher = 1..Len(voucher) /\ Len(voucher) \in Nat
    BY DEF BooksTypeOK
  <2>2. IsFiniteSet(DOMAIN voucher)
    BY <2>1, FS_Interval
  <2> QED
    BY <2>2, FS_Subset
<1>4. \A v, w \in V : v # w => F[v] \cap F[w] = {}
  OBVIOUS
<1>5. UNION {F[v] : v \in V} = S
  <2>1. \A v \in V : F[v] \subseteq S
    BY <1>1 DEF EntriesTyped
  <2>2. \A e \in S : e \in F[e[1]] /\ e[1] \in V
    BY <1>1 DEF EntriesTyped
  <2> QED
    BY <2>1, <2>2
<1>6. SumOf(g, V) = SumOf(f, UNION {F[v] : v \in V})
  <2>1. \A v \in V : g[v] = SumOf(f, F[v])
    OBVIOUS
  <2> HIDE DEF f, g, F
  <2> QED
    BY <1>2, <1>3, <1>4, <2>1, SumByParts
<1>7. SumOf(g, V) = 0
  <2>1. \A v \in V : g[v] = 0
    BY <1>2
  <2> HIDE DEF g
  <2> QED
    BY <1>3, <2>1, SumOfZeros
<1>8. Net(S) = SumOf(f, S)
  BY NetTyped
<1> QED
  BY <1>5, <1>6, <1>7, <1>8

\* The entries of a voucher are all of one day, and on accounts one may post to.
LEMMA VouchersHaveOneDay ==
  ASSUME BooksTypeOK, EntriesBalance
  PROVE  /\ \A e, o \in Entries : e[1] = o[1] => EntryAt(e).day = EntryAt(o).day
         /\ \A e \in Entries : EntryAt(e).account \notin Header /\ EntryAt(e).account \in Accounts
                                  /\ EntryAt(e).day \in Days
<1>1. EntriesTyped
  BY EntryTypes
<1>2. ASSUME NEW e \in Entries
      PROVE  \E d \in Days : \A o \in Entries : e[1] = o[1] =>
                EntryAt(o).day = d /\ EntryAt(o).account \notin Header
  <2>1. e[1] \in DOMAIN voucher
    BY <1>1 DEF EntriesTyped
  <2>2. PICK d \in Days : BalancedOn(voucher[e[1]].entries, d)
    BY <2>1 DEF EntriesBalance
  <2>3. \A o \in Entries : o[2] \in DOMAIN voucher[o[1]].entries
    BY <1>1 DEF EntriesTyped
  <2> QED
    BY <2>2, <2>3 DEF BalancedOn, EntryAt
<1>3. \A e \in Entries : EntryAt(e) \in BookEntries
  BY <1>1 DEF EntriesTyped
<1> QED
  BY <1>2, <1>3 DEF BookEntries

LEMMA PeriodBalances ==
  ASSUME BooksTypeOK, EntriesBalance, NEW s, NEW t
  PROVE  Net(Within(s, t)) = 0
<1> PICK V : V = {e[1] : e \in Within(s, t)}
  OBVIOUS
<1>1. EntriesTyped
  BY EntryTypes
<1>2. V \in SUBSET DOMAIN voucher
  BY <1>1 DEF EntriesTyped, Within
<1>3. Within(s, t) = {e \in Entries : e[1] \in V}
  BY VouchersHaveOneDay DEF Within
<1> QED
  BY <1>2, <1>3, VouchersBalance

\* Accounts that balance may be left out.
LEMMA NetOfUnbalanced ==
  ASSUME BooksTypeOK, NEW S \in SUBSET Entries, NEW A \in SUBSET Accounts,
         NEW X, X = {a \in A : Net(On(S, {a})) # 0}
  PROVE  NetOfAccounts(S, X) = Net(On(S, A))
<1> PICK g : g = NetsOf(S)
  OBVIOUS
<1>1. IsFiniteSet(A) /\ X \in SUBSET A
  BY BooksAssumption, FS_Subset
<1>2. \A a \in A : g[a] = Net(On(S, {a})) /\ g[a] \in Int
  <2> TAKE a \in A
  <2>1. On(S, {a}) \in SUBSET Entries
    BY DEF On
  <2> QED
    BY <2>1, NetTyped DEF NetsOf
<1>3. /\ \A a \in X : g[a] \in Int /\ g[a] = g[a]
      /\ \A a \in A \ X : g[a] = 0
  BY <1>1, <1>2
<1>4. SumOf(g, X) = SumOf(g, A)
  BY ONLY <1>1, <1>3, SumOfPart
<1> QED
  BY <1>1, <1>4, NetByAccount

-----------------------------------------------------------------------------
(* The statements.                                                           *)

LEMMA TrialBalanceTies ==
  ASSUME BooksTypeOK, EntriesBalance, NEW t \in Days
  PROVE  TrialBalance(t).debit = TrialBalance(t).credit
<1> DEFINE S == Within(1, t)
           D == {a \in Accounts : Net(On(S, {a})) > 0}
           C == {a \in Accounts : Net(On(S, {a})) < 0}
<1>1. TrialBalance(t).debit = NetOfAccounts(S, D) /\ TrialBalance(t).credit = - NetOfAccounts(S, C)
  BY DEF TrialBalance, NetOfAccounts, TotalOver, MapThenSumSet, MapThenFoldSet
<1>2. S \in SUBSET Entries /\ D \in SUBSET Accounts /\ C \in SUBSET Accounts
  BY DEF Within
<1> PICK X : X = {a \in Accounts : Net(On(S, {a})) # 0}
  OBVIOUS
<1>3. X = D \cup C /\ D \cap C = {}
  <2>1. \A a \in Accounts : Net(On(S, {a})) \in Int
    <3> TAKE a \in Accounts
    <3>1. On(S, {a}) \in SUBSET Entries
      BY <1>2 DEF On
    <3> QED
      BY <3>1, NetTyped
  <2> QED
    BY <2>1
<1>4. NetOfAccounts(S, X) = Net(On(S, Accounts))
  <2>1. Accounts \in SUBSET Accounts
    OBVIOUS
  <2> HIDE DEF S, D, C
  <2> QED
    BY <1>2, <2>1, NetOfUnbalanced
<1>5. On(S, Accounts) = S /\ Net(S) = 0
  BY <1>2, VouchersHaveOneDay, PeriodBalances DEF On
<1> HIDE DEF S, D, C
<1>6. Net(On(S, X)) = Net(On(S, D)) + Net(On(S, C))
  <2>1. /\ On(S, D) \in SUBSET Entries /\ On(S, C) \in SUBSET Entries
        /\ On(S, D) \cap On(S, C) = {} /\ On(S, X) = On(S, D) \cup On(S, C)
    BY <1>2, <1>3 DEF On
  <2> QED
    BY <2>1, NetOfBoth
<1>7. /\ NetOfAccounts(S, D) = Net(On(S, D)) /\ NetOfAccounts(S, C) = Net(On(S, C))
      /\ NetOfAccounts(S, X) = Net(On(S, X))
  BY <1>2, <1>3, NetByAccount
<1>8. Net(On(S, D)) \in Int /\ Net(On(S, C)) \in Int
  <2>1. On(S, D) \in SUBSET Entries /\ On(S, C) \in SUBSET Entries
    BY <1>2 DEF On
  <2> QED
    BY <2>1, NetTyped
<1> QED
  BY ONLY <1>1, <1>4, <1>5, <1>6, <1>7, <1>8

\* Entries on some accounts and on others.
LEMMA NetOnBoth ==
  ASSUME BooksTypeOK, NEW S \in SUBSET Entries, NEW A, NEW B, A \cap B = {}, NEW U, U = A \cup B
  PROVE  /\ Net(On(S, U)) = Net(On(S, A)) + Net(On(S, B))
         /\ Net(On(S, A)) \in Int /\ Net(On(S, B)) \in Int /\ Net(On(S, U)) \in Int
<1>1. /\ On(S, A) \in SUBSET Entries /\ On(S, B) \in SUBSET Entries /\ On(S, U) \in SUBSET Entries
      /\ On(S, A) \cap On(S, B) = {} /\ On(S, U) = On(S, A) \cup On(S, B)
  BY DEF On
<1> QED
  BY <1>1, NetOfBoth, NetTyped

LEMMA BalanceSheetTies ==
  ASSUME BooksTypeOK, EntriesBalance, NEW t \in Days
  PROVE  BalanceSheet(t).assets = BalanceSheet(t).liabilities + BalanceSheet(t).equity
<1> PICK S : S = Within(1, t)
  OBVIOUS
<1> PICK a, l, q, r : /\ a = OfType({"asset"}) /\ l = OfType({"liability"})
                      /\ q = OfType({"equity"}) /\ r = OfType({"income", "expense"})
  OBVIOUS
<1>1. S \in SUBSET Entries
  BY DEF Within
<1> PICK lq, rest : lq = l \cup q /\ rest = lq \cup r
  OBVIOUS
<1>2. l \cap q = {} /\ lq \cap r = {} /\ a \cap rest = {} /\ a \cup rest = Accounts
  <2>1. \A x \in Accounts : AccountType[x] \in {"asset", "liability", "equity", "income", "expense"}
    BY BooksAssumption
  <2> QED
    BY <2>1 DEF OfType
<1>3. /\ Net(On(S, lq)) = Net(On(S, l)) + Net(On(S, q))
      /\ Net(On(S, rest)) = Net(On(S, lq)) + Net(On(S, r))
      /\ Net(On(S, Accounts)) = Net(On(S, a)) + Net(On(S, rest))
      /\ Net(On(S, a)) \in Int /\ Net(On(S, l)) \in Int
      /\ Net(On(S, q)) \in Int /\ Net(On(S, r)) \in Int
  <2>1. /\ Net(On(S, lq)) = Net(On(S, l)) + Net(On(S, q))
        /\ Net(On(S, l)) \in Int /\ Net(On(S, q)) \in Int
    BY ONLY BooksTypeOK, <1>1, <1>2, lq = l \cup q, NetOnBoth
  <2>2. /\ Net(On(S, rest)) = Net(On(S, lq)) + Net(On(S, r))
        /\ Net(On(S, r)) \in Int
    BY ONLY BooksTypeOK, <1>1, <1>2, rest = lq \cup r, NetOnBoth
  <2>3. /\ Net(On(S, Accounts)) = Net(On(S, a)) + Net(On(S, rest))
        /\ Net(On(S, a)) \in Int
    BY ONLY BooksTypeOK, <1>1, <1>2, NetOnBoth
  <2> QED
    BY <2>1, <2>2, <2>3
<1>4. On(S, Accounts) = S /\ Net(S) = 0
  BY <1>1, VouchersHaveOneDay, PeriodBalances DEF On
<1>5. /\ BalanceSheet(t).assets = Net(On(S, a)) /\ BalanceSheet(t).liabilities = - Net(On(S, l))
      /\ BalanceSheet(t).equity = - Net(On(S, r)) - Net(On(S, q))
  BY DEF BalanceSheet
<1>6. PICK assets, debts, equity, earned, both, others, all :
        /\ assets = Net(On(S, a)) /\ debts = Net(On(S, l)) /\ equity = Net(On(S, q))
        /\ earned = Net(On(S, r)) /\ both = Net(On(S, lq)) /\ others = Net(On(S, rest))
        /\ all = Net(On(S, Accounts))
  OBVIOUS
<1>7. /\ both = debts + equity /\ others = both + earned /\ all = assets + others
      /\ assets \in Int /\ debts \in Int /\ equity \in Int /\ earned \in Int
      /\ all = 0
  BY <1>3, <1>4, <1>6
<1>8. assets = - debts + (- earned - equity)
  BY ONLY <1>7
<1> QED
  BY <1>5, <1>6, <1>8

\* The profit, and what the income and the expenses of all time leave.
LEMMA ProfitTies ==
  ASSUME BooksTypeOK, NEW s, NEW t
  PROVE  /\ NetProfit(s, t) = - Net(On(Within(s, t), OfType({"income"})))
                                - Net(On(Within(s, t), OfType({"expense"})))
         /\ NetProfit(1, t) = BalanceSheet(t).earnings
         /\ Net(On(Within(s, t), OfType({"income"}))) \in Int
         /\ Net(On(Within(s, t), OfType({"expense"}))) \in Int
<1> PICK i, x, c : i = OfType({"income"}) /\ x = OfType({"expense"}) /\ c = Subtree({Role.cogs})
  OBVIOUS
<1> PICK sold, run, both : sold = x \cap c /\ run = x \ c /\ both = OfType({"income", "expense"})
  OBVIOUS
<1>1. sold \cap run = {} /\ x = sold \cup run /\ i \cap x = {} /\ both = i \cup x
  BY DEF OfType
<1>2. ASSUME NEW f
      PROVE  /\ NetProfit(f, t) = - Net(On(Within(f, t), i)) - Net(On(Within(f, t), x))
             /\ Net(On(Within(f, t), both)) = Net(On(Within(f, t), i)) + Net(On(Within(f, t), x))
             /\ Net(On(Within(f, t), i)) \in Int /\ Net(On(Within(f, t), x)) \in Int
  <2> PICK S : S = Within(f, t)
    OBVIOUS
  <2>1. S \in SUBSET Entries
    BY DEF Within
  <2>2. /\ Net(On(S, x)) = Net(On(S, sold)) + Net(On(S, run))
        /\ Net(On(S, both)) = Net(On(S, i)) + Net(On(S, x))
        /\ Net(On(S, sold)) \in Int /\ Net(On(S, run)) \in Int
        /\ Net(On(S, i)) \in Int /\ Net(On(S, x)) \in Int
    <3>1. /\ Net(On(S, x)) = Net(On(S, sold)) + Net(On(S, run))
          /\ Net(On(S, sold)) \in Int /\ Net(On(S, run)) \in Int
      BY ONLY BooksTypeOK, <1>1, <2>1, NetOnBoth
    <3>2. /\ Net(On(S, both)) = Net(On(S, i)) + Net(On(S, x))
          /\ Net(On(S, i)) \in Int /\ Net(On(S, x)) \in Int
      BY ONLY BooksTypeOK, <1>1, <2>1, NetOnBoth
    <3> QED
      BY <3>1, <3>2
  <2>3. NetProfit(f, t) = - Net(On(S, i)) - Net(On(S, sold)) - Net(On(S, run))
    BY DEF NetProfit
  <2>4. PICK cost, running, spent, earned :
          /\ cost = Net(On(S, sold)) /\ running = Net(On(S, run)) /\ spent = Net(On(S, x))
          /\ earned = Net(On(S, i))
    OBVIOUS
  <2>5. /\ spent = cost + running /\ cost \in Int /\ running \in Int /\ earned \in Int
        /\ NetProfit(f, t) = - earned - cost - running
    BY <2>2, <2>3, <2>4
  <2>6. NetProfit(f, t) = - earned - spent
    BY ONLY <2>5
  <2> QED
    BY <2>2, <2>4, <2>6
<1>3. BalanceSheet(t).earnings = - Net(On(Within(1, t), both))
  BY DEF BalanceSheet
<1>4. NetProfit(1, t) = BalanceSheet(t).earnings
  <2> PICK a, b, d : /\ a = Net(On(Within(1, t), i)) /\ b = Net(On(Within(1, t), x))
                     /\ d = Net(On(Within(1, t), both))
    OBVIOUS
  <2>1. NetProfit(1, t) = - a - b /\ d = a + b /\ a \in Int /\ b \in Int
    BY <1>2
  <2>2. BalanceSheet(t).earnings = - d
    BY <1>3
  <2> QED
    BY ONLY <2>1, <2>2
<1> QED
  BY <1>2, <1>4

LEMMA ExpensesTie ==
  ASSUME BooksTypeOK, NEW s, NEW t
  PROVE  ExpensesByCategory(s, t) = Net(On(Within(s, t), OfType({"expense"})))
<1> DEFINE S == Within(s, t)
           A == OfType({"expense"})
           X == {a \in A : Net(On(S, {a})) # 0}
<1>1. ExpensesByCategory(s, t) = NetOfAccounts(S, X)
  BY DEF ExpensesByCategory, NetOfAccounts, TotalOver, MapThenSumSet, MapThenFoldSet
<1>2. S \in SUBSET Entries /\ A \in SUBSET Accounts
  BY DEF Within, OfType
<1> HIDE DEF S, A
<1>3. NetOfAccounts(S, X) = Net(On(S, A))
  BY <1>2, NetOfUnbalanced
<1> QED
  BY <1>1, <1>3 DEF S, A

LEMMA GeneralLedgerTies ==
  ASSUME BooksTypeOK, EntriesBalance, NEW s, NEW t
  PROVE  GeneralLedger(s, t).debit = GeneralLedger(s, t).credit
<1> DEFINE S == Within(s, t)
           P == {e \in S : AmountOf(e) > 0}
           N == {e \in S : AmountOf(e) < 0}
<1>1. GeneralLedger(s, t).debit = Net(P) /\ GeneralLedger(s, t).credit = - Net(N)
  BY DEF GeneralLedger, Net, TotalOver, MapThenSumSet, MapThenFoldSet
<1>2. S \in SUBSET Entries /\ P \in SUBSET Entries /\ N \in SUBSET Entries
  BY DEF Within
<1>3. Net(S) = Net(P) + Net(N) /\ Net(S) = 0 /\ Net(P) \in Int /\ Net(N) \in Int
  BY <1>2, NetBySign, NetTyped, PeriodBalances
<1> QED
  BY ONLY <1>1, <1>3

\* A statement opens with what the one before it closed with.
LEMMA StatementContinues ==
  ASSUME BooksTypeOK, EntriesBalance, NEW S \in SUBSET Entries, NEW sign \in {-1, 1},
         NEW s \in Days, NEW t \in Days, s <= t
  PROVE  Statement(S, sign, t + 1, t + 1).opening = Statement(S, sign, s, t).closing
<1> PICK A, B, U : /\ A = {e \in S : EntryAt(e).day < s} /\ B = {e \in S : EntryAt(e).day \in s..t}
                   /\ U = {e \in S : EntryAt(e).day < t + 1}
  OBVIOUS
<1>1. \A e \in S : EntryAt(e).day \in Nat /\ s \in Nat /\ t \in Nat
  BY VouchersHaveOneDay, BooksAssumption
<1>2. A \in SUBSET Entries /\ B \in SUBSET Entries /\ A \cap B = {} /\ U = A \cup B
  BY <1>1
<1>3. Net(U) = Net(A) + Net(B) /\ Net(A) \in Int /\ Net(B) \in Int
  BY <1>2, NetOfBoth, NetTyped
<1>4. /\ Statement(S, sign, t + 1, t + 1).opening = sign * Net(U)
      /\ Statement(S, sign, s, t).closing = sign * Net(A) + sign * Net(B)
  BY DEF Statement
<1> QED
  BY <1>3, <1>4

\* Nothing is booked on a header, so the cash book, which leaves headers out, shows all cash.
LEMMA CashBookShowsCash ==
  ASSUME BooksTypeOK, EntriesBalance, NEW s, NEW t
  PROVE  /\ On(Within(s, t), CashBookAccounts(s, t)) = On(Within(s, t), CashAccounts)
         /\ On(Before(s), CashBookAccounts(s, t)) = On(Before(s), CashAccounts)
<1> PICK C, shown : C = CashAccounts /\ shown = CashBookAccounts(s, t)
  OBVIOUS
<1>1. shown \subseteq C /\ \A a \in C : a \notin Header => a \in shown
  BY DEF CashBookAccounts
<1>2. ASSUME NEW S \in SUBSET Entries PROVE On(S, shown) = On(S, C)
  <2>1. \A e \in S : EntryAt(e).account \notin Header
    BY VouchersHaveOneDay
  <2> QED
    BY ONLY <1>1, <2>1 DEF On
<1>3. Within(s, t) \in SUBSET Entries /\ Before(s) \in SUBSET Entries
  BY DEF Within, Before
<1> QED
  BY <1>2, <1>3

\* What faces the cash in the vouchers that moved cash is what the cash moved by: those
\* vouchers balance, and all their cash is of the period.
FacingIn(V, b) == {e \in Entries : e[1] \in V /\ AccountBucket[EntryAt(e).account] = b}
FacingNet(V, b) == FacingCash(FacingIn(V, b))

LEMMA FacingBalances ==
  ASSUME BooksTypeOK, EntriesBalance, NEW s, NEW t, NEW V, V = MovedCash(s, t)
  PROVE  /\ Net(On(Within(s, t), CashAccounts)) =
               - FacingNet(V, "operating") - FacingNet(V, "investing") - FacingNet(V, "financing")
         /\ \A b : FacingNet(V, b) \in Int
<1> PICK C, S, All : /\ C = CashAccounts /\ S = Within(s, t)
                     /\ All = {e \in Entries : e[1] \in V}
  OBVIOUS
<1>1. EntriesTyped
  BY EntryTypes
<1>2. S \in SUBSET Entries /\ All \in SUBSET Entries /\ V \in SUBSET DOMAIN voucher
  BY <1>1 DEF Within, MovedCash, On, EntriesTyped
<1>3. V = {e[1] : e \in On(S, C)}
  BY DEF MovedCash
<1>4. On(S, C) = On(All, C)
  <2>1. S = {e \in Entries : EntryAt(e).day \in s..t}
    BY DEF Within
  <2>2. \A e, o \in Entries : e[1] = o[1] => EntryAt(e).day = EntryAt(o).day
    BY VouchersHaveOneDay
  <2>3. All = {e \in Entries : e[1] \in V}
    OBVIOUS
  <2> QED
    BY ONLY <1>3, <2>1, <2>2, <2>3 DEF On
<1> PICK F : F = [b \in {"operating", "investing", "financing"} |->
                    FacingIn(V, b) \ On(FacingIn(V, b), C)]
  OBVIOUS
<1> PICK K, op, inv, fin, rest : /\ K = On(All, C) /\ op = F["operating"] /\ inv = F["investing"]
                                 /\ fin = F["financing"] /\ rest = inv \cup fin
  OBVIOUS
<1>5. \A b \in DOMAIN F : F[b] = {e \in All : /\ EntryAt(e).account \notin C
                                             /\ AccountBucket[EntryAt(e).account] = b}
  BY DEF FacingIn, On
<1>6. \A e \in All : AccountBucket[EntryAt(e).account] \in DOMAIN F
  <2>1. \A e \in All : EntryAt(e).account \in Accounts
    BY <1>2, VouchersHaveOneDay
  <2> QED
    BY <2>1, BooksAssumption
<1>7. /\ op \in SUBSET All /\ inv \in SUBSET All /\ fin \in SUBSET All /\ rest \in SUBSET All
      /\ K \in SUBSET All /\ All \ K \in SUBSET All
      /\ inv \cap fin = {} /\ op \cap rest = {} /\ All \ K = op \cup rest
  <2>1. K = {e \in All : EntryAt(e).account \in C}
    BY DEF On
  <2>2. DOMAIN F = {"operating", "investing", "financing"}
    OBVIOUS
  <2> QED
    BY <1>5, <1>6, <2>1, <2>2
<1>8. /\ Net(All) = Net(K) + Net(All \ K)
      /\ Net(All \ K) = Net(op) + Net(rest)
      /\ Net(rest) = Net(inv) + Net(fin)
  <2>1. Net(All) = Net(K) + Net(All \ K)
    <3>1. K \cap (All \ K) = {} /\ All = K \cup (All \ K)
      BY <1>7
    <3>2. K \in SUBSET Entries /\ All \ K \in SUBSET Entries
      BY <1>2, <1>7
    <3> QED
      BY ONLY BooksTypeOK, <3>1, <3>2, NetOfBoth
  <2>2. op \in SUBSET Entries /\ rest \in SUBSET Entries /\ inv \in SUBSET Entries
        /\ fin \in SUBSET Entries
    BY <1>2, <1>7
  <2>3. Net(All \ K) = Net(op) + Net(rest)
    BY ONLY BooksTypeOK, <1>7, <2>2, NetOfBoth
  <2>4. Net(rest) = Net(inv) + Net(fin)
    BY ONLY BooksTypeOK, <2>2, <1>7, rest = inv \cup fin, NetOfBoth
  <2> QED
    BY <2>1, <2>3, <2>4
<1>9. Net(All) = 0
  BY <1>2, VouchersBalance
<1>10. \A b : FacingNet(V, b) \in Int
  <2> TAKE b
  <2>1. FacingIn(V, b) \ On(FacingIn(V, b), C) \in SUBSET Entries
    BY DEF FacingIn
  <2> QED
    BY <2>1, NetTyped DEF FacingNet, FacingCash
<1>11. /\ FacingNet(V, "operating") = Net(op) /\ FacingNet(V, "investing") = Net(inv)
       /\ FacingNet(V, "financing") = Net(fin) /\ Net(On(S, C)) = Net(K)
  BY <1>4 DEF FacingNet, FacingCash
<1>12. Net(K) \in Int
  BY <1>2, <1>7, NetTyped
<1>13. PICK x, y, z, k : x = Net(op) /\ y = Net(inv) /\ z = Net(fin) /\ k = Net(K)
  OBVIOUS
<1>14. x \in Int /\ y \in Int /\ z \in Int /\ k \in Int /\ 0 = k + (x + (y + z))
  BY <1>8, <1>9, <1>10, <1>11, <1>12, <1>13
<1>15. k = - x - y - z
  BY ONLY <1>14
<1> QED
  BY <1>10, <1>11, <1>13, <1>15

\* The cash flow, the cash book and the dashboard.
LEMMA CashTies ==
  ASSUME BooksTypeOK, EntriesBalance, NEW s \in Days, NEW t \in Days, s <= t
  PROVE  /\ CashFlow(s, t).closing = CashBook(s, t).closing
         /\ CashInOut(s, t) = [inflow |-> CashBook(s, t).received, outflow |-> CashBook(s, t).paid]
         /\ CashFlow(s, t).net = CashInOut(s, t).inflow - CashInOut(s, t).outflow
         /\ (\A d \in Days : d <= t) => CashBook(s, t).closing = CashOnHand
<1> PICK C, S, B, shown : /\ C = CashAccounts /\ S = Within(s, t) /\ B = Before(s)
                          /\ shown = CashBookAccounts(s, t)
  OBVIOUS
<1> PICK moved, held : moved = On(S, C) /\ held = On(B, C)
  OBVIOUS
<1> PICK gained, spent : /\ gained = {e \in moved : AmountOf(e) > 0}
                         /\ spent = {e \in moved : AmountOf(e) < 0}
  OBVIOUS
<1>1. On(S, shown) = moved /\ On(B, shown) = held
  BY CashBookShowsCash
<1>2. /\ moved \in SUBSET Entries /\ held \in SUBSET Entries
      /\ gained \in SUBSET Entries /\ spent \in SUBSET Entries
  BY DEF Within, Before, On
<1>3. Net(moved) \in Int /\ Net(held) \in Int /\ Net(gained) \in Int /\ Net(spent) \in Int
  BY <1>2, NetTyped
<1>4. CashBook(s, t) = [received |-> Net(gained), paid |-> - Net(spent),
                        closing |-> Net(held) + Net(moved)]
  BY <1>1 DEF CashBook, Net
<1>5. CashInOut(s, t) = [inflow |-> Net(gained), outflow |-> - Net(spent)]
  BY DEF CashInOut, Net
<1>6. CashFlow(s, t).net = Net(moved) /\ CashFlow(s, t).closing = Net(held) + Net(moved)
  <2> PICK V : V = MovedCash(s, t)
    OBVIOUS
  <2>1. PICK x, y, z : /\ x = FacingNet(V, "operating") /\ y = FacingNet(V, "investing")
                       /\ z = FacingNet(V, "financing")
    OBVIOUS
  <2>2. Net(moved) = - x - y - z /\ x \in Int /\ y \in Int /\ z \in Int
    BY <2>1, FacingBalances
  <2>3. /\ CashFlow(s, t).net = (- x) + (- y) + (- z)
        /\ CashFlow(s, t).closing = Net(held) + ((- x) + (- y) + (- z))
    BY <2>1 DEF CashFlow, FacingNet, FacingIn
  <2>4. (- x) + (- y) + (- z) = - x - y - z
    BY ONLY <2>2
  <2> QED
    BY <2>2, <2>3, <2>4
<1>7. Net(moved) = Net(gained) + Net(spent)
  BY <1>2, NetBySign
<1>8. ASSUME \A d \in Days : d <= t PROVE CashOnHand = Net(held) + Net(moved)
  <2>1. \A e \in Entries : EntryAt(e).day \in Days
    BY VouchersHaveOneDay
  <2>2. Days \subseteq Nat
    BY BooksAssumption
  <2>3. /\ S = {e \in Entries : EntryAt(e).day \in s..t}
        /\ B = {e \in Entries : EntryAt(e).day < s}
    BY DEF Within, Before
  <2>4. Entries = B \cup S /\ B \cap S = {}
    <3>1. \A d \in Days : (d \in s..t) = ~(d < s)
      <4> TAKE d \in Days
      <4>1. d \in Nat /\ s \in Nat /\ t \in Nat /\ d <= t
        BY <1>8, <2>2
      <4> QED
        BY ONLY <4>1
    <3>2. \A e \in Entries : (EntryAt(e).day \in s..t) = ~(EntryAt(e).day < s)
      BY <2>1, <3>1
    <3> QED
      BY ONLY <2>3, <3>2
  <2>5. On(Entries, C) = held \cup moved /\ held \cap moved = {}
    BY <2>4 DEF On
  <2> QED
    BY <1>2, <2>5, NetOfBoth DEF CashOnHand
<1>9. Net(moved) = Net(gained) - (- Net(spent))
  BY ONLY <1>3, <1>7
<1> QED
  BY <1>4, <1>5, <1>6, <1>8, <1>9

-----------------------------------------------------------------------------
(* The theorems.                                                             *)

LEMMA BooksStart == BooksInit => BooksIInv
<1> SUFFICES ASSUME BooksInit PROVE BooksIInv
  OBVIOUS
<1>1. voucher = <<>> /\ raced = {} /\ entered = [p \in Parties |-> 0]
      /\ job = [c \in Clerks |-> Resting] /\ DOMAIN voucher = {}
  BY DEF BooksInit
<1>2. BooksTypeOK
  <2>1. Role.bank \in Accounts
    BY BooksAssumption
  <2>2. account \in [Accounts -> [kept : BOOLEAN, active : BOOLEAN, parent : Accounts \cup {NoOne}]]
    BY <2>1 DEF BooksInit
  <2>3. year \in [Days -> BOOLEAN]
    <3>1. PICK latest \in Days : year = [d \in Days |-> d <= latest]
      BY DEF BooksInit
    <3>2. \A d \in Days : (d <= latest) \in BOOLEAN
      BY BooksAssumption
    <3> QED
      BY <3>1, <3>2
  <2> QED
    BY <1>1, <2>2, <2>3 DEF BooksInit, BooksTypeOK
<1>3. VouchersAreFounded /\ EntriesFollow /\ EntriesBalance
  BY <1>1 DEF VouchersAreFounded, EntriesFollow, EntriesBalance
<1>4. JobsAreAsRead /\ PostersShareDay
  BY <1>1, JobKinds DEF JobsAreAsRead, PostersShareDay
<1>5. OpeningsStand
  BY <1>1 DEF OpeningsStand, OpeningStandsFor, OpeningOf
<1>6. PartyOwesOpening
  <2>1. Entries = {}
    BY <1>1 DEF Entries
  <2>2. Net({}) = 0
    BY <2>1, NetAsSum, SumOfNone DEF NetIsSum
  <2> QED
    BY <1>1, <2>1, <2>2 DEF PartyOwesOpening
<1> QED
  BY <1>2, <1>3, <1>4, <1>5, <1>6 DEF BooksIInv

LEMMA BooksStep == BooksIInv /\ [BooksNext]_bookVars => BooksIInv'
<1> SUFFICES ASSUME BooksIInv, [BooksNext]_bookVars PROVE BooksIInv'
  OBVIOUS
<1>1. ASSUME NEW lines \in Journals, NEW d \in Days, WriteJournal(lines, d) PROVE BooksIInv'
  BY <1>1, WritingJournalKeepsBooks
<1>2. ASSUME NEW c \in Clerks, NEW kind \in {"update", "post", "cancel", "reverse"},
             NEW v \in DOMAIN voucher, ReadVoucher(c, kind, v)
      PROVE  BooksIInv'
  BY <1>2, ReadingVoucherKeepsBooks
<1>3. ASSUME NEW c \in Clerks, NEW lines \in Journals, NEW d \in Days, UpdateVoucher(c, lines, d)
      PROVE  BooksIInv'
  BY <1>3, UpdatingKeepsBooks
<1>4. ASSUME NEW c \in Clerks, PostVoucher(c) PROVE BooksIInv'
  BY <1>4, PostingKeepsBooks
<1>5. ASSUME NEW c \in Clerks, CancelVoucher(c) PROVE BooksIInv'
  BY <1>5, CancellingKeepsBooks
<1>6. ASSUME NEW c \in Clerks, ReverseVoucher(c) PROVE BooksIInv'
  BY <1>6, ReversingKeepsBooks
<1>7. ASSUME NEW c \in Clerks, Abandon(c) PROVE BooksIInv'
  <2>1. /\ job' = [job EXCEPT ![c] = Resting]
        /\ UNCHANGED <<account, year, open, voucher, entered, vendor, turns, raced>>
    BY <1>7 DEF Abandon
  <2>2. \A o \in Clerks : job'[o] = job[o] \/ job'[o] = Resting
    BY <2>1 DEF BooksIInv, BooksTypeOK
  <2>3. BooksTypeOK'
    BY <2>1 DEF BooksIInv, BooksTypeOK
  <2> QED
    BY <2>1, <2>2, <2>3, UnwrittenKeepsBooks
<1>8. ASSUME NEW c \in Clerks, NEW p \in Parties, ReadPartyOpening(c, p) PROVE BooksIInv'
  BY <1>8, ReadingOpeningKeepsBooks
<1>9. ASSUME NEW c \in Clerks, NEW x \in Amounts, NEW d \in Days, SetPartyOpening(c, x, d)
      PROVE  BooksIInv'
  BY <1>9, SettingOpeningKeepsBooks
<1>10. ASSUME NEW a \in Movable, NEW x \in Amounts, NEW d \in Days, EnterOpening(a, x, d)
       PROVE  BooksIInv'
  BY <1>10, EnteringOpeningKeepsBooks
<1>11. CASE \/ \E p \in Parties : ChangePartyRole(p)
            \/ CreateNextYear \/ AddBank \/ DeleteBank
            \/ \E d \in Days : DeleteYear(d) \/ \E s \in BOOLEAN : SetPeriod(d, s)
            \/ \E a \in Accounts : \/ \E b \in BOOLEAN : SetAccountActive(a, b)
                                   \/ \E q \in Folders : MoveAccount(a, q)
  BY <1>11, SettingUpKeepsBooks
<1>12. CASE UNCHANGED bookVars
  <2>1. BooksTypeOK'
    BY <1>12 DEF bookVars, BooksIInv, BooksTypeOK
  <2>2. UNCHANGED <<voucher, entered, raced, job>>
    BY <1>12 DEF bookVars
  <2> QED
    BY <2>1, <2>2, UnwrittenKeepsBooks
<1> QED
  BY <1>1, <1>2, <1>3, <1>4, <1>5, <1>6, <1>7, <1>8, <1>9, <1>10, <1>11, <1>12 DEF BooksNext

\* The ledger and its requests keep the inductive invariant (PostingService,
\* JournalVoucherService, OpeningBalanceService, FiscalService, accounts).
THEOREM BooksInductive == BooksSpec => []BooksIInv
<1>1. BooksInit => BooksIInv
  BY BooksStart
<1>2. BooksIInv /\ [BooksNext]_bookVars => BooksIInv'
  BY BooksStep
<1> QED
  BY <1>1, <1>2, PTL DEF BooksSpec

\* Whatever the clerks do at the same time, a voucher no two of them wrote is in the
\* ledger once while it is posted, not at all before, and is undone by exactly one mirror
\* when it is reversed (post_draft, reverse_voucher, update and cancel of journals).
THEOREM LedgerFollowsVouchers == BooksSpec => []BooksFollowVouchers
<1>1. BooksIInv => BooksFollowVouchers
  <2> SUFFICES ASSUME BooksIInv, NEW v \in DOMAIN voucher \ raced
               PROVE  /\ voucher[v].entries = IF voucher[v].status \in {"posted", "reversed"}
                            THEN EntriesOf(voucher[v].lines, voucher[v].day) ELSE <<>>
                      /\ Cardinality(ReversalsOf(v)) = IF voucher[v].status = "reversed" THEN 1 ELSE 0
                      /\ \A r \in ReversalsOf(v) :
                            voucher[r].entries = EntriesOf(Mirror(voucher[v].lines), voucher[r].day)
    BY DEF BooksFollowVouchers, ReversalsOf
  <2>1. FollowsVoucher(v)
    BY DEF BooksIInv, EntriesFollow
  <2>2. Cardinality(ReversalsOf(v)) = IF voucher[v].status = "reversed" THEN 1 ELSE 0
    BY <2>1, FS_Singleton, FS_EmptySet DEF FollowsVoucher
  <2> QED
    BY <2>1, <2>2 DEF FollowsVoucher
<1> QED
  BY <1>1, BooksInductive, PTL

\* A party owes what was last entered as its opening balance, through every correction
\* and change of its role (set_party_opening_balance).
THEOREM PartiesOweTheirOpening == BooksSpec => []PartyOwesOpening
<1>1. BooksIInv => PartyOwesOpening
  BY DEF BooksIInv
<1> QED
  BY <1>1, BooksInductive, PTL

\* However the accounts are filed and whatever else is being written, raced or not, every
\* statement is read from entries that balance voucher by voucher, each on one day; so
\* they tie (ReportsService, DashboardService).
THEOREM StatementsAlwaysTie == BooksSpec => []StatementsTie
<1>1. BooksIInv => StatementsTie
  <2> SUFFICES ASSUME BooksIInv, NEW s \in Days, NEW t \in Days, s <= t
               PROVE  /\ TrialBalance(t).debit = TrialBalance(t).credit
                      /\ BalanceSheet(t).assets = BalanceSheet(t).liabilities + BalanceSheet(t).equity
                      /\ NetProfit(1, t) = BalanceSheet(t).earnings
                      /\ GeneralLedger(s, t).debit = GeneralLedger(s, t).credit
                      /\ CashFlow(s, t).closing = CashBook(s, t).closing
                      /\ CashInOut(s, t) = [inflow |-> CashBook(s, t).received,
                                            outflow |-> CashBook(s, t).paid]
                      /\ CashFlow(s, t).net = CashInOut(s, t).inflow - CashInOut(s, t).outflow
                      /\ (\A d \in Days : d <= t) => CashBook(s, t).closing = CashOnHand
                      /\ NetProfit(s, t) + ExpensesByCategory(s, t) =
                            - Net(On(Within(s, t), OfType({"income"})))
                      /\ \A a \in {EntryAt(e).account : e \in Entries} :
                          AccountStatement(a, t + 1, t + 1).opening = AccountStatement(a, s, t).closing
                      /\ \A p \in Parties :
                          PartyStatement(p, t + 1, t + 1).opening = PartyStatement(p, s, t).closing
    BY DEF StatementsTie
  <2>1. BooksTypeOK /\ EntriesBalance
    BY DEF BooksIInv
  <2>2. NetProfit(s, t) + ExpensesByCategory(s, t) = - Net(On(Within(s, t), OfType({"income"})))
    <3> PICK i, x : /\ i = Net(On(Within(s, t), OfType({"income"})))
                    /\ x = Net(On(Within(s, t), OfType({"expense"})))
      OBVIOUS
    <3>1. i \in Int /\ x \in Int /\ NetProfit(s, t) = - i - x /\ ExpensesByCategory(s, t) = x
      BY <2>1, ProfitTies, ExpensesTie
    <3>2. (- i - x) + x = - i
      BY ONLY <3>1
    <3> QED
      BY <3>1, <3>2
  <2>3. ASSUME NEW a
        PROVE  AccountStatement(a, t + 1, t + 1).opening = AccountStatement(a, s, t).closing
    <3>1. On(Entries, {a}) \in SUBSET Entries /\ SignOf(a) \in {-1, 1}
      BY DEF On, SignOf
    <3> QED
      BY <2>1, <3>1, StatementContinues DEF AccountStatement
  <2>4. ASSUME NEW p \in Parties
        PROVE  PartyStatement(p, t + 1, t + 1).opening = PartyStatement(p, s, t).closing
    <3> PICK S, sign : S = {e \in Entries : EntryAt(e).party = p} /\ sign = IF vendor[p] THEN -1 ELSE 1
      OBVIOUS
    <3>1. S \in SUBSET Entries /\ sign \in {-1, 1}
      OBVIOUS
    <3> QED
      BY <2>1, <3>1, StatementContinues DEF PartyStatement
  <2>5. NetProfit(1, t) = BalanceSheet(t).earnings
    BY <2>1, ProfitTies
  <2>6. GeneralLedger(s, t).debit = GeneralLedger(s, t).credit
    BY <2>1, GeneralLedgerTies
  <2> QED
    BY <2>1, <2>2, <2>3, <2>4, <2>5, <2>6, TrialBalanceTies, BalanceSheetTies, CashTies
<1> QED
  BY <1>1, BooksInductive, PTL

=============================================================================
