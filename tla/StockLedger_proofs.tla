------------------------- MODULE StockLedger_proofs -------------------------
(***************************************************************************)
(* Proofs about StockLedger, for any items, places, serial numbers and        *)
(* documents and any number of requests at a time, with every interleaving,    *)
(* deadlock and roll back among them.                                         *)
(***************************************************************************)
EXTENDS StockLedger, Sums_proofs

USE NoOneAssumption, FinitenessAssumption

-----------------------------------------------------------------------------
(* The invariant.                                                           *)

TypeOK ==
    /\ rows    \in SUBSET Keys
    /\ level   \in [Keys -> Int]
    /\ moved   \in [Keys -> Int]
    /\ opening \in [Keys -> Int]
    /\ entered \in [Keys -> Int]
    /\ used    \in SUBSET Items
    /\ unit    \in [Serials -> Units]
    /\ bin     \in [Places -> {"active", "inactive", "absent"}]
    /\ tracking  \in [Items -> {"none", "serial"}]
    /\ price     \in [Items -> Costs]
    /\ docStatus \in [Docs -> {"draft", "sent", "void"}]
    /\ posted    \in [Docs -> Seq(Moves)]
    /\ rowLock    \in [Keys -> Workers \cup {NoOne}]
    /\ itemLock   \in [Items -> Workers \cup {NoOne}]
    /\ itemShares \in [Items -> SUBSET Workers]
    /\ req        \in [Workers -> Requests]

\* Only a transfer takes out of one place before it puts into another.
TransferIsWhole(todo) ==
    \A n \in DOMAIN todo :
        todo[n].type = "transfer_out" =>
            /\ n = 1 /\ Len(todo) = 2
            /\ todo[1].delta < 0
            /\ todo[2].type = "transfer_in"
            /\ todo[2].key[1] = todo[1].key[1]

\* A request that works has a movement to work on.
RequestIsSound(w) ==
    LET r == req[w] IN
    /\ r.step = "idle" => r = Idle
    /\ r.step = "commit" => r.todo = <<>>
    /\ r.step \in {"lock", "insert", "flush"} => r.todo # <<>>
    /\ r.step = "insert" => rowLock[Current(w).key] # w
    /\ r.step = "flush" => Current(w).type # "transfer_out"
    /\ TransferIsWhole(r.todo)

RequestsAreSound == \A w \in Workers : RequestIsSound(w)

\* Who holds a level row works on it or is about to commit, and has referred to the
\* item or is about to.
RowHolder(k, w) ==
    /\ req[w].step # "idle"
    /\ w \in itemShares[k[1]] \/ (req[w].todo # <<>> /\ Current(w).key[1] = k[1])
    /\ req[w].level[k] = level[k] + req[w].delta[k]
    /\ req[w].level[k] >= 0

\* What a request computes from a level row is worth what the row says when it
\* commits: nobody else moves the stock of a row it holds, and it moves no other.
LevelsIInv ==
    /\ \A k \in Keys : level[k] = moved[k] /\ level[k] >= 0
    /\ \A k \in Keys \ rows : level[k] = 0
    /\ \A k \in Keys, w \in Workers :
          IF rowLock[k] = w THEN RowHolder(k, w) ELSE req[w].delta[k] = 0

\* No row in a deleted bin; one being inserted there is not flushed yet.
BinsIInv ==
    \A k \in Keys :
        bin[k[2]] = "absent" =>
            /\ k \notin rows
            /\ rowLock[k] # NoOne =>
                  req[rowLock[k]].step = "flush" /\ Current(rowLock[k]).key = k

\* Opening stock is set by one request at a time, beside no other movement of the
\* item.
ItemsAreLocked ==
    \A i \in Items :
        /\ \A w \in Workers : itemLock[i] = w <=> req[w].item = i
        /\ itemLock[i] # NoOne => i \notin used /\ itemShares[i] \subseteq {itemLock[i]}

\* The movements of opening stock that a request has not added to its level rows.
Pending(w) == {n \in DOMAIN req[w].todo : n > 1 \/ req[w].step # "flush"}

\* They make up the difference between what was entered before and what is now.
OpeningIsUnderWay(w) ==
    LET r == req[w] IN
    /\ \A n \in DOMAIN r.todo : r.todo[n].key[1] = r.item /\ r.todo[n].type = "opening"
    /\ \A n, m \in Pending(w) : r.todo[n].key = r.todo[m].key => n = m
    /\ \A k \in Keys : rowLock[k] = w => k[1] = r.item
    /\ \A n \in Pending(w) :
          LET k == r.todo[n].key IN
          /\ r.delta[k] = 0
          /\ opening[k] + r.todo[n].delta = r.entry[k[2]]
    /\ \A p \in Places :
          LET k == <<r.item, p>> IN
          \/ \E n \in Pending(w) : r.todo[n].key = k
          \/ opening[k] + r.delta[k] = r.entry[p]

OpeningsIInv ==
    /\ opening = entered
    /\ ItemsAreLocked
    /\ \A w \in Workers : req[w].item # NoOne => OpeningIsUnderWay(w)

StockIInv ==
    /\ TypeOK
    /\ RequestsAreSound
    /\ LevelsIInv
    /\ BinsIInv
    /\ OpeningsIInv

-----------------------------------------------------------------------------
(* Numbers and sequences.                                                   *)

\* A finite set of numbers has a greatest one.
LEMMA GreatestNumber ==
  ASSUME NEW S \in SUBSET Nat, IsFiniteSet(S), S # {}
  PROVE  Max(S) \in S /\ \A n \in S : n <= Max(S)
<1> DEFINE Q == {A \in SUBSET S : A # {} => \E m \in A : \A n \in A : n <= m}
<1>1. {} \in Q
  OBVIOUS
<1>2. ASSUME NEW A \in SUBSET S, A # {}, \A x \in A : A \ {x} \in Q PROVE A \in Q
  <2>1. PICK x \in A : TRUE
    BY <1>2
  <2>2. CASE A \ {x} = {}
    <3>1. \A n \in A : n = x
      BY <2>2
    <3> QED
      BY <2>1, <3>1
  <2>3. CASE A \ {x} # {}
    <3>1. PICK m \in A \ {x} : \A n \in A \ {x} : n <= m
      BY <1>2, <2>1, <2>3
    <3>2. x \in Nat /\ m \in Nat
      BY <2>1, <3>1
    <3>3. CASE x <= m
      BY <3>1, <3>3
    <3>4. CASE m <= x
      <4>1. \A n \in A : n \in Nat /\ (n = x \/ n <= m)
        BY <3>1
      <4>2. \A n \in A : n <= x
        BY <3>2, <3>4, <4>1
      <4> QED
        BY <2>1, <4>2
    <3> QED
      BY <3>2, <3>3, <3>4
  <2> QED
    BY <2>2, <2>3
<1> HIDE DEF Q
<1>3. S \in Q
  BY <1>1, <1>2, SetInduction
<1>4. \E m \in S : \A n \in S : m >= n
  BY <1>3 DEF Q
<1> QED
  BY <1>4 DEF Max

\* The numbers of a finite set can be put in order.
LEMMA OrderExists ==
  ASSUME NEW S \in SUBSET Nat, IsFiniteSet(S)
  PROVE  \E f \in [1..Cardinality(S) -> S] :
            /\ \A a, b \in 1..Cardinality(S) : a < b => f[a] < f[b]
            /\ \A n \in S : \E a \in 1..Cardinality(S) : f[a] = n
<1> DEFINE Ordered(A) ==
             \E f \in [1..Cardinality(A) -> A] :
                /\ \A a, b \in 1..Cardinality(A) : a < b => f[a] < f[b]
                /\ \A n \in A : \E a \in 1..Cardinality(A) : f[a] = n
           Q == {A \in SUBSET S : Ordered(A)}
<1>1. {} \in Q
  <2>1. Cardinality({}) = 0 /\ 1..0 = {}
    BY FS_EmptySet
  <2>2. [x \in {} |-> x] \in [{} -> {}]
    OBVIOUS
  <2> QED
    BY <2>1, <2>2
<1>2. ASSUME NEW A \in SUBSET S, A # {}, \A x \in A : A \ {x} \in Q PROVE A \in Q
  <2> DEFINE x == Max(A)
             B == A \ {x}
             c == Cardinality(B)
  <2>1. IsFiniteSet(A) /\ A \in SUBSET Nat
    BY FS_Subset
  <2>2. x \in A /\ \A n \in A : n <= x
    BY <1>2, <2>1, GreatestNumber
  <2>3. IsFiniteSet(B) /\ c \in Nat /\ Cardinality(A) = c + 1
    <3>1. Cardinality(A) \in Nat /\ Cardinality(B) = Cardinality(A) - 1 /\ IsFiniteSet(B)
      BY <2>1, <2>2, FS_RemoveElement, FS_CardinalityType
    <3>2. Cardinality(B) \in Nat
      BY <3>1, FS_CardinalityType
    <3> QED
      BY <3>1, <3>2
  <2>4. PICK f \in [1..c -> B] : /\ \A a, b \in 1..c : a < b => f[a] < f[b]
                                 /\ \A n \in B : \E a \in 1..c : f[a] = n
    <3>1. Ordered(B)
      BY <1>2, <2>2
    <3> QED
      BY <3>1
  <2> DEFINE g == [a \in 1..(c + 1) |-> IF a = c + 1 THEN x ELSE f[a]]
  <2> HIDE DEF x, c
  <2>5. g \in [1..(c + 1) -> A]
    BY <2>2, <2>3, <2>4
  <2>6. \A n \in B : n \in Nat /\ n < x
    BY <2>1, <2>2
  <2>7. \A a, b \in 1..(c + 1) : a < b => g[a] < g[b]
    <3>1. ASSUME NEW a \in 1..(c + 1), NEW b \in 1..(c + 1), a < b PROVE g[a] < g[b]
      <4>1. a \in 1..c /\ g[a] = f[a] /\ f[a] \in B
        BY <2>3, <2>4, <3>1
      <4>2. CASE b = c + 1
        BY <2>6, <4>1, <4>2
      <4>3. CASE b # c + 1
        BY <2>3, <2>4, <3>1, <4>1, <4>3
      <4> QED
        BY <4>2, <4>3
    <3> QED
      BY <3>1
  <2>8. \A n \in A : \E a \in 1..(c + 1) : g[a] = n
    <3>1. ASSUME NEW n \in A PROVE \E a \in 1..(c + 1) : g[a] = n
      <4>1. CASE n = x
        BY <2>3, <4>1
      <4>2. CASE n # x
        <5>1. PICK a \in 1..c : f[a] = n
          BY <2>4, <4>2
        <5>2. a \in 1..(c + 1) /\ g[a] = n
          BY <2>3, <5>1
        <5> QED
          BY <5>2
      <4> QED
        BY <4>1, <4>2
    <3> QED
      BY <3>1
  <2> HIDE DEF g
  <2>9. Ordered(A)
    BY <2>3, <2>5, <2>7, <2>8
  <2> QED
    BY <2>9
<1> HIDE DEF Q
<1>3. S \in Q
  BY <1>1, <1>2, SetInduction
<1> QED
  BY <1>3 DEF Q

LEMMA InOrderIsOrder ==
  ASSUME NEW S \in SUBSET Nat, IsFiniteSet(S)
  PROVE  /\ Cardinality(S) \in Nat
         /\ InOrder(S) \in [1..Cardinality(S) -> S]
         /\ \A a, b \in 1..Cardinality(S) : a < b => InOrder(S)[a] < InOrder(S)[b]
         /\ \A n \in S : \E a \in 1..Cardinality(S) : InOrder(S)[a] = n
  BY OrderExists, FS_CardinalityType DEF InOrder

\* A sequence of movements, its first and the others.
LEMMA Sequences ==
  ASSUME NEW T, NEW s \in Seq(T), s # <<>>
  PROVE  /\ DOMAIN s = 1..Len(s) /\ Len(s) \in Nat \ {0}
         /\ Head(s) = s[1] /\ Head(s) \in T
         /\ Tail(s) \in Seq(T)
         /\ DOMAIN Tail(s) = 1..(Len(s) - 1) /\ Len(Tail(s)) = Len(s) - 1
         /\ \A n \in 1..(Len(s) - 1) : Tail(s)[n] = s[n + 1]
         /\ (Tail(s) = <<>> <=> Len(s) = 1)
<1>1. DOMAIN s = 1..Len(s) /\ Len(s) \in Nat \ {0} /\ Head(s) = s[1] /\ Head(s) \in T
  OBVIOUS
<1>2. /\ Tail(s) \in Seq(T)
      /\ DOMAIN Tail(s) = 1..(Len(s) - 1) /\ Len(Tail(s)) = Len(s) - 1
      /\ \A n \in 1..(Len(s) - 1) : Tail(s)[n] = s[n + 1]
  OBVIOUS
<1>3. Tail(s) = <<>> <=> Len(Tail(s)) = 0
  <2> DEFINE t == Tail(s)
  <2>1. t \in Seq(T)
    BY <1>2
  <2> HIDE DEF t
  <2>2. t = <<>> <=> Len(t) = 0
    BY <2>1
  <2> QED
    BY <2>2 DEF t
<1> QED
  BY <1>1, <1>2, <1>3

-----------------------------------------------------------------------------
(* Movements and requests have their types.                                  *)

LEMMA LeastCost == Min(Costs) \in Costs
<1>1. \E c \in Costs : \A m \in Costs : c <= m
  BY CostsAssumption, LeastNatural
<1> QED
  BY <1>1 DEF Min

LEMMA KeysArePairs ==
  /\ \A k \in Keys : k[1] \in Items /\ k[2] \in Places /\ k = <<k[1], k[2]>>
  /\ \A i \in Items, p \in Places : <<i, p>> \in Keys
  /\ IsFiniteSet(Keys)
<1>1. IsFiniteSet(Keys)
  BY FS_Product DEF Keys
<1> QED
  BY <1>1 DEF Keys

LEMMA IdleIsRequest ==
  /\ Idle \in Requests
  /\ Idle.step = "idle" /\ Idle.doc = NoOne /\ Idle.todo = <<>> /\ Idle.item = NoOne
  /\ Idle.delta = [k \in Keys |-> 0] /\ Idle.level = [k \in Keys |-> 0]
  /\ Idle.posted = <<>> /\ Idle.touched = {} /\ Idle.entry = [p \in Places |-> 0]
<1>1. NoUnit \in Units
  BY DEF NoUnit, Units, UnitStates
<1>2. <<>> \in Seq(Moves)
  OBVIOUS
<1>3. /\ [k \in Keys |-> 0] \in [Keys -> Int]
      /\ [s \in Serials |-> NoUnit] \in [Serials -> Units]
      /\ [p \in Places |-> 0] \in [Places -> Nat]
  BY <1>1
<1> QED
  BY <1>2, <1>3 DEF Idle, Requests

LEMMA MoveIsMove ==
  ASSUME NEW k \in Keys, NEW delta \in Int, NEW type \in MoveTypes, NEW S \in SUBSET Serials
  PROVE  /\ Move(k, delta, type, S) \in Moves
         /\ Move(k, delta, type, S).key = k /\ Move(k, delta, type, S).delta = delta
         /\ Move(k, delta, type, S).type = type /\ Move(k, delta, type, S).serials = S
  BY DEF Move, Moves

LEMMA PostedCostIsCost ==
  ASSUME TypeOK, NEW d \in Docs, NEW k \in Keys, NEW c \in Costs
  PROVE  PostedCost(d, k, c) \in Costs \cup {0}
<1> DEFINE ns == {n \in DOMAIN posted[d] : posted[d][n].key = k}
<1>1. posted[d] \in Seq(Moves)
  BY DEF TypeOK
<1>2. DOMAIN posted[d] = 1..Len(posted[d]) /\ Len(posted[d]) \in Nat
  BY <1>1
<1>3. ns \in SUBSET Nat /\ IsFiniteSet(ns)
  <2>1. IsFiniteSet(DOMAIN posted[d])
    BY <1>2, FS_Interval
  <2>2. ns \subseteq DOMAIN posted[d] /\ DOMAIN posted[d] \subseteq Nat
    BY <1>2
  <2> HIDE DEF ns
  <2> QED
    BY <2>1, <2>2, FS_Subset
<1>4. ns # {} => Max(ns) \in ns
  <2> HIDE DEF ns
  <2> QED BY <1>3, GreatestNumber
<1>5. \A n \in DOMAIN posted[d] : posted[d][n] \in Moves
  BY <1>1, <1>2
<1>6. \A n \in ns : posted[d][n].cost \in Costs \cup {0}
  BY <1>5 DEF Moves
<1>7. PostedCost(d, k, c) = IF ns = {} THEN c ELSE posted[d][Max(ns)].cost
  BY DEF PostedCost
<1> HIDE DEF ns
<1> QED
  BY <1>4, <1>6, <1>7

LEMMA LinesAreLines ==
  ASSUME NEW d \in Docs
  PROVE  /\ Lines[d] \in Seq(LineRecords)
         /\ DOMAIN Lines[d] = 1..Len(Lines[d]) /\ Len(Lines[d]) \in Nat
         /\ \A n \in DOMAIN Lines[d] :
               /\ Lines[d][n].key \in Keys /\ Lines[d][n].quantity \in Nat
               /\ Lines[d][n].price \in Costs /\ Lines[d][n].serials \in SUBSET Serials
<1>1. Lines[d] \in Seq(LineRecords)
  BY LinesAssumption
<1>2. DOMAIN Lines[d] = 1..Len(Lines[d]) /\ Len(Lines[d]) \in Nat
  BY <1>1
<1>3. \A n \in DOMAIN Lines[d] : Lines[d][n] \in LineRecords
  BY <1>1, <1>2
<1> QED
  BY <1>1, <1>2, <1>3 DEF LineRecords

LEMMA DocMovesAreMoves ==
  ASSUME TypeOK, NEW d \in Docs, NEW undo \in BOOLEAN
  PROVE  /\ DocMoves(d, undo) \in Seq(Moves)
         /\ \A n \in DOMAIN DocMoves(d, undo) :
               DocMoves(d, undo)[n].type \in {"sale", "purchase", "sales_return"}
<1>1. ASSUME NEW n \in DOMAIN Lines[d] PROVE LineMove(d, Lines[d][n], undo) \in Moves
  <2> DEFINE line == Lines[d][n]
             cost == IF DocType[d] = "purchase" THEN line.price ELSE price[line.key[1]]
  <2>1. /\ line.key \in Keys /\ line.quantity \in Nat /\ line.price \in Costs
        /\ line.serials \in SUBSET Serials /\ line.key[1] \in Items
    BY LinesAreLines, KeysArePairs
  <2>2. cost \in Costs
    BY <2>1 DEF TypeOK
  <2>3. PostedCost(d, line.key, cost) \in Costs \cup {0}
    BY <2>1, <2>2, PostedCostIsCost
  <2>4. Direction(d) \in Int
    BY DEF Direction
  <2>5. (IF undo THEN 0 - Direction(d) ELSE Direction(d)) * line.quantity \in Int
    <3> HIDE DEF line
    <3> QED BY <2>1, <2>4
  <2>6. DocType[d] \in MoveTypes
    BY DocTypeAssumption DEF MoveTypes
  <2> DEFINE c2 == IF undo THEN PostedCost(d, line.key, cost) ELSE cost
             delta == (IF undo THEN 0 - Direction(d) ELSE Direction(d)) * line.quantity
  <2>7. LineMove(d, line, undo) =
          [key |-> line.key, delta |-> delta, type |-> DocType[d], cost |-> c2,
           serials |-> line.serials, origin |-> NoOne, reverse |-> undo]
    BY DEF LineMove
  <2>8. c2 \in Costs \cup {0} /\ delta \in Int
    BY <2>2, <2>3, <2>5
  <2>9. NoOne \in Places \cup {NoOne}
    OBVIOUS
  <2> HIDE DEF line, c2, delta, cost
  <2>10. [key |-> line.key, delta |-> delta, type |-> DocType[d], cost |-> c2,
          serials |-> line.serials, origin |-> NoOne, reverse |-> undo] \in Moves
    BY <2>1, <2>6, <2>8, <2>9 DEF Moves
  <2> QED
    BY <2>7, <2>10 DEF line
<1>2. DocMoves(d, undo) \in Seq(Moves) /\ DOMAIN DocMoves(d, undo) = DOMAIN Lines[d]
  <2>1. DocMoves(d, undo) \in [1..Len(Lines[d]) -> Moves]
    BY <1>1, LinesAreLines DEF DocMoves
  <2> QED
    BY <2>1, LinesAreLines DEF DocMoves
<1>3. \A n \in DOMAIN Lines[d] : DocMoves(d, undo)[n].type = DocType[d]
  BY DEF DocMoves, LineMove
<1> QED
  BY <1>2, <1>3, DocTypeAssumption

\* One movement of opening stock for each place whose quantity changes.
IsOpening(om, i, e) ==
    /\ om \in Seq(Moves)
    /\ \A n \in DOMAIN om :
          /\ om[n].key[1] = i /\ om[n].type = "opening"
          /\ om[n].delta = e[om[n].key[2]].quantity - opening[om[n].key]
          /\ om[n].serials = e[om[n].key[2]].serials
    /\ \A n, m \in DOMAIN om : om[n].key = om[m].key => n = m
    /\ \A p \in Places :
          opening[<<i, p>>] = e[p].quantity \/ \E n \in DOMAIN om : om[n].key = <<i, p>>

LEMMA OpeningMovesAreMoves ==
  ASSUME TypeOK, NEW i \in Items, NEW e \in Openings[i]
  PROVE  IsOpening(OpeningMoves(i, e), i, e) /\ \A p \in Places : e[p].quantity \in Nat
<1> DEFINE moving == {n \in DOMAIN PlaceOrder : OpeningMove(i, e, PlaceOrder[n]).delta # 0}
           c == Cardinality(moving)
           f == InOrder(moving)
           om == OpeningMoves(i, e)
<1>1. /\ DOMAIN PlaceOrder = 1..Len(PlaceOrder) /\ Len(PlaceOrder) \in Nat
      /\ \A n \in DOMAIN PlaceOrder : PlaceOrder[n] \in Places
  BY PlaceOrderAssumption
<1>2. moving \in SUBSET Nat /\ IsFiniteSet(moving)
  <2>1. IsFiniteSet(DOMAIN PlaceOrder)
    BY <1>1, FS_Interval
  <2>2. moving \subseteq DOMAIN PlaceOrder /\ DOMAIN PlaceOrder \subseteq Nat
    BY <1>1
  <2> HIDE DEF moving
  <2> QED
    BY <2>1, <2>2, FS_Subset
<1>3. /\ c \in Nat /\ f \in [1..c -> moving]
      /\ \A a, b \in 1..c : a < b => f[a] < f[b]
      /\ \A n \in moving : \E a \in 1..c : f[a] = n
  <2> HIDE DEF moving
  <2> QED BY <1>2, InOrderIsOrder
<1>4. ASSUME NEW p \in Places
      PROVE  /\ e[p].quantity \in Nat /\ e[p].serials \in SUBSET Serials
             /\ opening[<<i, p>>] \in Int
             /\ OpeningMove(i, e, p) \in Moves
             /\ OpeningMove(i, e, p).key = <<i, p>> /\ OpeningMove(i, e, p).type = "opening"
             /\ OpeningMove(i, e, p).delta = e[p].quantity - opening[<<i, p>>]
             /\ OpeningMove(i, e, p).serials = e[p].serials
  <2>1. e[p].quantity \in Nat /\ e[p].serials \in SUBSET Serials
    BY OpeningsAssumption
  <2>2. <<i, p>> \in Keys /\ opening[<<i, p>>] \in Int
    BY KeysArePairs DEF TypeOK
  <2>3. e[p].quantity - opening[<<i, p>>] \in Int /\ "opening" \in MoveTypes
    BY <2>1, <2>2 DEF MoveTypes
  <2> QED
    BY <2>1, <2>2, <2>3, MoveIsMove DEF OpeningMove
<1>5. om = [a \in 1..c |-> OpeningMove(i, e, PlaceOrder[f[a]])]
  BY DEF OpeningMoves
<1>6. \A n \in moving : n \in DOMAIN PlaceOrder
  OBVIOUS
<1>7. \A p \in Places : opening[<<i, p>>] = e[p].quantity
                          \/ \E n \in moving : PlaceOrder[n] = p
  <2> SUFFICES ASSUME NEW p \in Places, opening[<<i, p>>] # e[p].quantity
               PROVE  \E n \in moving : PlaceOrder[n] = p
    OBVIOUS
  <2>1. PICK n \in DOMAIN PlaceOrder : PlaceOrder[n] = p
    BY PlaceOrderAssumption
  <2>2. OpeningMove(i, e, p).delta # 0
    BY <1>4
  <2> QED
    BY <2>1, <2>2
<1> HIDE DEF moving, c, f, om
<1>8. \A a \in 1..c : /\ f[a] \in DOMAIN PlaceOrder /\ PlaceOrder[f[a]] \in Places
                      /\ om[a] = OpeningMove(i, e, PlaceOrder[f[a]])
  BY <1>1, <1>3, <1>5, <1>6
<1>9. om \in Seq(Moves) /\ DOMAIN om = 1..c
  <2>1. om \in [1..c -> Moves]
    BY <1>4, <1>5, <1>8
  <2> QED
    BY <1>3, <2>1
<1>10. ASSUME NEW n \in 1..c
       PROVE  /\ om[n].key = <<i, PlaceOrder[f[n]]>> /\ om[n].type = "opening"
              /\ om[n].delta = e[PlaceOrder[f[n]]].quantity - opening[om[n].key]
              /\ om[n].serials = e[PlaceOrder[f[n]]].serials
  <2> DEFINE p == PlaceOrder[f[n]]
  <2>1. p \in Places /\ om[n] = OpeningMove(i, e, p)
    BY <1>8
  <2> HIDE DEF p
  <2>2. /\ om[n].key = <<i, p>> /\ om[n].type = "opening"
        /\ om[n].delta = e[p].quantity - opening[<<i, p>>] /\ om[n].serials = e[p].serials
    BY <1>4, <2>1
  <2> QED
    BY <2>2 DEF p
<1>11. ASSUME NEW n \in 1..c, NEW m \in 1..c, om[n].key = om[m].key PROVE n = m
  <2>1. PlaceOrder[f[n]] = PlaceOrder[f[m]]
    BY <1>10, <1>11
  <2>2. f[n] = f[m]
    BY <1>8, <2>1, PlaceOrderAssumption
  <2>3. n \in Int /\ m \in Int
    BY <1>3
  <2>4. f[n] \in Nat /\ f[m] \in Nat
    BY <1>2, <1>3
  <2>5. ~ (n < m) /\ ~ (m < n)
    BY <1>3, <2>2, <2>4
  <2> QED
    BY <2>3, <2>5
<1>12. ASSUME NEW p \in Places, opening[<<i, p>>] # e[p].quantity
       PROVE  \E n \in 1..c : om[n].key = <<i, p>>
  <2>1. PICK n \in moving : PlaceOrder[n] = p
    BY <1>7, <1>12
  <2>2. PICK a \in 1..c : f[a] = n
    BY <1>3
  <2> QED
    BY <1>10, <2>1, <2>2
<1>13. \A n \in 1..c : /\ om[n].key[1] = i
                       /\ om[n].delta = e[om[n].key[2]].quantity - opening[om[n].key]
                       /\ om[n].serials = e[om[n].key[2]].serials
  BY <1>10
<1>14. IsOpening(om, i, e)
  BY <1>9, <1>10, <1>11, <1>12, <1>13 DEF IsOpening
<1> QED
  BY <1>4, <1>14 DEF om

-----------------------------------------------------------------------------
(* What a step leaves alone.                                                *)

\* A request that neither moved nor lost a lock is as sound as before.
LEMMA OthersStaySound ==
  ASSUME NEW u \in Workers, RequestIsSound(u), req'[u] = req[u],
         \A k \in Keys : rowLock'[k] = u => rowLock[k] = u,
         Current(u).key \in Keys \/ req[u].step # "insert"
  PROVE  RequestIsSound(u)'
  BY DEF RequestIsSound, TransferIsWhole, Current

LEMMA OthersKeepRows ==
  ASSUME NEW u \in Workers, NEW k \in Keys, RowHolder(k, u), req'[u] = req[u],
         level'[k] = level[k], u \in itemShares[k[1]] => u \in itemShares'[k[1]]
  PROVE  RowHolder(k, u)'
  BY DEF RowHolder, Current

LEMMA OthersGoOnOpening ==
  ASSUME NEW u \in Workers, OpeningIsUnderWay(u), req'[u] = req[u], req[u].item \in Items,
         \A k \in Keys : rowLock'[k] = u => rowLock[k] = u,
         \A k \in Keys : k[1] = req[u].item => opening'[k] = opening[k],
         \A n \in DOMAIN req[u].todo : req[u].todo[n].key \in Keys
  PROVE  OpeningIsUnderWay(u)'
<1> DEFINE r == req[u]
<1>1. Pending(u)' = Pending(u)
  BY DEF Pending
<1>2. \A n \in Pending(u) : r.todo[n].key[1] = r.item /\ r.todo[n].key \in Keys
  BY DEF OpeningIsUnderWay, Pending
<1>3. \A p \in Places : <<r.item, p>> \in Keys /\ <<r.item, p>>[1] = r.item
  BY KeysArePairs
<1>4. /\ \A n \in DOMAIN r.todo : r.todo[n].key[1] = r.item /\ r.todo[n].type = "opening"
      /\ \A n, m \in Pending(u) : r.todo[n].key = r.todo[m].key => n = m
      /\ \A k \in Keys : rowLock'[k] = u => k[1] = r.item
  BY DEF OpeningIsUnderWay
<1>5. \A n \in Pending(u) :
         /\ r.delta[r.todo[n].key] = 0
         /\ opening'[r.todo[n].key] + r.todo[n].delta = r.entry[r.todo[n].key[2]]
  BY <1>2 DEF OpeningIsUnderWay
<1>6. \A p \in Places :
         \/ \E n \in Pending(u) : r.todo[n].key = <<r.item, p>>
         \/ opening'[<<r.item, p>>] + r.delta[<<r.item, p>>] = r.entry[p]
  BY <1>3 DEF OpeningIsUnderWay
<1>7. req'[u] = r
  OBVIOUS
<1> HIDE DEF r
<1> QED
  BY <1>1, <1>4, <1>5, <1>6, <1>7 DEF OpeningIsUnderWay

LEMMA RequestTypes ==
  ASSUME TypeOK, NEW w \in Workers
  PROVE  /\ req[w].todo \in Seq(Moves) /\ DOMAIN req[w].todo = 1..Len(req[w].todo)
         /\ Len(req[w].todo) \in Nat
         /\ \A n \in DOMAIN req[w].todo :
               /\ req[w].todo[n] \in Moves /\ req[w].todo[n].key \in Keys
               /\ req[w].todo[n].delta \in Int /\ req[w].todo[n].key[1] \in Items
         /\ \A k \in Keys : req[w].level[k] \in Int /\ req[w].delta[k] \in Int
         /\ \A p \in Places : req[w].entry[p] \in Nat
         /\ req[w].level \in [Keys -> Int] /\ req[w].delta \in [Keys -> Int]
         /\ req[w].item \in Items \cup {NoOne} /\ req[w].posted \in Seq(Moves)
<1>1. req[w] \in Requests
  BY DEF TypeOK
<1>2. /\ req[w].todo \in Seq(Moves) /\ req[w].level \in [Keys -> Int]
      /\ req[w].delta \in [Keys -> Int] /\ req[w].entry \in [Places -> Nat]
      /\ req[w].item \in Items \cup {NoOne} /\ req[w].posted \in Seq(Moves)
  BY <1>1 DEF Requests
<1>3. DOMAIN req[w].todo = 1..Len(req[w].todo) /\ Len(req[w].todo) \in Nat
  BY <1>2
<1>4. \A n \in DOMAIN req[w].todo : req[w].todo[n] \in Moves
  BY <1>2, <1>3
<1>5. \A m \in Moves : m.key \in Keys /\ m.delta \in Int /\ m.key[1] \in Items
  BY KeysArePairs DEF Moves
<1> QED
  BY <1>2, <1>3, <1>4, <1>5

LEMMA CurrentTypes ==
  ASSUME TypeOK, NEW w \in Workers, req[w].todo # <<>>
  PROVE  /\ Current(w) = req[w].todo[1] /\ Current(w) \in Moves
         /\ Current(w).key \in Keys /\ Current(w).delta \in Int
         /\ Current(w).key[1] \in Items /\ Current(w).key[2] \in Places
         /\ 1 \in DOMAIN req[w].todo
<1>1. req[w].todo \in Seq(Moves)
  BY RequestTypes
<1>2. Current(w) = req[w].todo[1] /\ Current(w) \in Moves /\ 1 \in DOMAIN req[w].todo
  BY <1>1, Sequences DEF Current
<1> QED
  BY <1>2, KeysArePairs DEF Moves

\* A step that changes locks and requests only, and those of w alone.
OthersLockedAsBefore(w) ==
    /\ \A u \in Workers : u # w => req'[u] = req[u]
    /\ \A u \in Workers, k \in Keys : u # w => (rowLock'[k] = u <=> rowLock[k] = u)
    /\ \A u \in Workers, i \in Items :
          u # w => /\ itemLock'[i] = u <=> itemLock[i] = u
                   /\ u \in itemShares'[i] <=> u \in itemShares[i]

LEMMA OthersStand ==
  ASSUME TypeOK, RequestsAreSound, OpeningsIInv, NEW w \in Workers, OthersLockedAsBefore(w),
         NEW u \in Workers, u # w
  PROVE  /\ RequestIsSound(u)'
         /\ \A k \in Keys : level'[k] = level[k] /\ RowHolder(k, u) => RowHolder(k, u)'
         /\ req[u].item # NoOne
               /\ (\A k \in Keys : k[1] = req[u].item => opening'[k] = opening[k])
               => OpeningIsUnderWay(u)'
<1>1. /\ req'[u] = req[u]
      /\ \A k \in Keys : rowLock'[k] = u => rowLock[k] = u
      /\ \A i \in Items : u \in itemShares[i] => u \in itemShares'[i]
  BY DEF OthersLockedAsBefore
<1>2. RequestIsSound(u) /\ (req[u].item # NoOne => OpeningIsUnderWay(u))
  BY DEF RequestsAreSound, OpeningsIInv
<1>3. Current(u).key \in Keys \/ req[u].step # "insert"
  BY <1>2, CurrentTypes DEF RequestIsSound
<1>4. RequestIsSound(u)'
  BY <1>1, <1>2, <1>3, OthersStaySound
<1>5. \A k \in Keys : level'[k] = level[k] /\ RowHolder(k, u) => RowHolder(k, u)'
  BY <1>1, KeysArePairs, OthersKeepRows
<1>6. /\ \A n \in DOMAIN req[u].todo : req[u].todo[n].key \in Keys
      /\ req[u].item \in Items \cup {NoOne}
  BY RequestTypes
<1>7. req[u].item # NoOne /\ (\A k \in Keys : k[1] = req[u].item => opening'[k] = opening[k])
        => OpeningIsUnderWay(u)'
  BY <1>1, <1>2, <1>6, OthersGoOnOpening
<1> QED
  BY <1>4, <1>5, <1>7

-----------------------------------------------------------------------------
(* The end of a request.                                                    *)

LEMMA EndFacts ==
  ASSUME TypeOK, NEW w \in Workers, EndOf(w)
  PROVE  /\ OthersLockedAsBefore(w)
         /\ req'[w] = Idle
         /\ \A k \in Keys : rowLock'[k] # w
                            /\ (rowLock'[k] # NoOne => rowLock'[k] = rowLock[k])
         /\ \A i \in Items : /\ itemLock'[i] # w
                             /\ itemLock'[i] # NoOne => itemLock'[i] = itemLock[i]
                             /\ itemShares'[i] = itemShares[i] \ {w}
         /\ rowLock' \in [Keys -> Workers \cup {NoOne}]
         /\ itemLock' \in [Items -> Workers \cup {NoOne}]
         /\ itemShares' \in [Items -> SUBSET Workers]
         /\ req' \in [Workers -> Requests]
<1>1. /\ rowLock' = [k \in Keys |-> IF rowLock[k] = w THEN NoOne ELSE rowLock[k]]
      /\ itemLock' = [i \in Items |-> IF itemLock[i] = w THEN NoOne ELSE itemLock[i]]
      /\ itemShares' = [i \in Items |-> itemShares[i] \ {w}]
      /\ req' = [req EXCEPT ![w] = Idle]
  BY DEF EndOf, RowsReleasedBy, ItemsReleasedBy, SharesReleasedBy
<1>2. /\ rowLock \in [Keys -> Workers \cup {NoOne}] /\ itemLock \in [Items -> Workers \cup {NoOne}]
      /\ itemShares \in [Items -> SUBSET Workers] /\ req \in [Workers -> Requests]
      /\ NoOne \notin Workers
  BY DEF TypeOK
<1>3. req'[w] = Idle /\ req' \in [Workers -> Requests] /\ \A u \in Workers : u # w => req'[u] = req[u]
  BY <1>1, <1>2, IdleIsRequest
<1>4. /\ \A u \in Workers, k \in Keys : u # w => (rowLock'[k] = u <=> rowLock[k] = u)
      /\ rowLock' \in [Keys -> Workers \cup {NoOne}]
      /\ \A k \in Keys : rowLock'[k] # w /\ (rowLock'[k] # NoOne => rowLock'[k] = rowLock[k])
  BY <1>1, <1>2
<1>5. /\ \A u \in Workers, i \in Items : u # w => (itemLock'[i] = u <=> itemLock[i] = u)
      /\ itemLock' \in [Items -> Workers \cup {NoOne}]
      /\ \A i \in Items : itemLock'[i] # w /\ (itemLock'[i] # NoOne => itemLock'[i] = itemLock[i])
  BY <1>1, <1>2
<1>6. /\ \A u \in Workers, i \in Items : u # w => (u \in itemShares'[i] <=> u \in itemShares[i])
      /\ itemShares' \in [Items -> SUBSET Workers]
      /\ \A i \in Items : itemShares'[i] = itemShares[i] \ {w}
  BY <1>1, <1>2
<1> QED
  BY <1>3, <1>4, <1>5, <1>6 DEF OthersLockedAsBefore

LEMMA EndKeepsRequests ==
  ASSUME TypeOK, RequestsAreSound, OpeningsIInv, NEW w \in Workers, EndOf(w)
  PROVE  RequestsAreSound'
<1>1. \A u \in Workers : u # w => RequestIsSound(u)'
  BY EndFacts, OthersStand
<1>2. RequestIsSound(w)'
  <2>1. req'[w] = Idle /\ Idle.todo = <<>> /\ Idle.step = "idle" /\ DOMAIN <<>> = {}
    BY EndFacts, IdleIsRequest
  <2> QED
    BY <2>1 DEF RequestIsSound, TransferIsWhole
<1> QED
  BY <1>1, <1>2 DEF RequestsAreSound

\* The locks on items, when the items with movements stay or grow beside them.
LEMMA EndKeepsItems ==
  ASSUME TypeOK, RequestsAreSound, OpeningsIInv, NEW w \in Workers, EndOf(w),
         \A i \in Items : itemLock'[i] # NoOne /\ i \in used' => i \in used
  PROVE  ItemsAreLocked'
<1>1. ASSUME NEW i \in Items, NEW u \in Workers PROVE itemLock'[i] = u <=> req'[u].item = i
  <2>1. CASE u = w
    BY <2>1, EndFacts, IdleIsRequest
  <2>2. CASE u # w
    BY <2>2, EndFacts DEF OthersLockedAsBefore, OpeningsIInv, ItemsAreLocked
  <2> QED
    BY <2>1, <2>2
<1>2. ASSUME NEW i \in Items, itemLock'[i] # NoOne
      PROVE  i \notin used' /\ itemShares'[i] \subseteq {itemLock'[i]}
  <2>1. itemLock'[i] = itemLock[i] /\ itemShares'[i] = itemShares[i] \ {w}
    BY <1>2, EndFacts
  <2> QED
    BY <1>2, <2>1 DEF OpeningsIInv, ItemsAreLocked
<1> QED
  BY <1>1, <1>2 DEF ItemsAreLocked

LEMMA RollbackKeepsStock ==
  ASSUME StockIInv, NEW w \in Workers, Rollback(w)
  PROVE  StockIInv'
<1>1. /\ EndOf(w) /\ UNCHANGED <<rows, level, moved, opening, entered, used>>
      /\ UNCHANGED <<unit, bin, tracking, price, docStatus, posted>>
  BY DEF Rollback, stockVars, itemVars, docVars
<1> USE DEF StockIInv
<1>2. TypeOK'
  BY <1>1, EndFacts DEF TypeOK
<1>3. RequestsAreSound'
  BY <1>1, EndKeepsRequests
<1>4. LevelsIInv'
  <2>1. ASSUME NEW k \in Keys, NEW u \in Workers
        PROVE  IF rowLock'[k] = u THEN RowHolder(k, u)' ELSE req'[u].delta[k] = 0
    <3>1. CASE u = w
      BY <1>1, <3>1, EndFacts, IdleIsRequest
    <3>2. CASE u # w
      <4>1. req'[u] = req[u] /\ (rowLock'[k] = u <=> rowLock[k] = u) /\ OthersLockedAsBefore(w)
        BY <1>1, <3>2, EndFacts DEF OthersLockedAsBefore
      <4>2. IF rowLock[k] = u THEN RowHolder(k, u) ELSE req[u].delta[k] = 0
        BY DEF LevelsIInv
      <4>3. RowHolder(k, u) => RowHolder(k, u)'
        BY <1>1, <3>2, <4>1, OthersStand
      <4> QED
        BY <4>1, <4>2, <4>3
    <3> QED
      BY <3>1, <3>2
  <2> QED
    BY <1>1, <2>1 DEF LevelsIInv
<1>5. BinsIInv'
  <2>1. ASSUME NEW k \in Keys, bin'[k[2]] = "absent"
        PROVE  k \notin rows' /\ (rowLock'[k] # NoOne =>
                  req'[rowLock'[k]].step = "flush" /\ Current(rowLock[k])'.key = k
                  /\ rowLock'[k] = rowLock[k])
    <3>1. k \notin rows /\ (rowLock[k] # NoOne =>
             req[rowLock[k]].step = "flush" /\ Current(rowLock[k]).key = k)
      BY <1>1, <2>1 DEF BinsIInv
    <3>2. rowLock'[k] # NoOne =>
             rowLock'[k] = rowLock[k] /\ rowLock[k] \in Workers /\ rowLock[k] # w
      BY <1>1, EndFacts DEF TypeOK
    <3>3. \A u \in Workers : u # w => req'[u] = req[u]
      BY <1>1, EndFacts DEF OthersLockedAsBefore
    <3> QED
      BY <1>1, <3>1, <3>2, <3>3 DEF Current
  <2> QED
    BY <2>1 DEF BinsIInv, Current
<1>6. OpeningsIInv'
  <2>1. ItemsAreLocked'
    BY <1>1, EndKeepsItems
  <2>2. ASSUME NEW u \in Workers, req'[u].item # NoOne PROVE OpeningIsUnderWay(u)'
    <3>1. u # w /\ req'[u] = req[u]
      BY <1>1, <2>2, EndFacts, IdleIsRequest DEF OthersLockedAsBefore
    <3> QED
      BY <1>1, <2>2, <3>1, EndFacts, OthersStand
  <2> QED
    BY <1>1, <2>1, <2>2 DEF OpeningsIInv
<1> QED
  BY <1>2, <1>3, <1>4, <1>5, <1>6

-----------------------------------------------------------------------------
(* A request that begins or goes on.                                        *)

\* A step of w that commits nothing keeps the invariant if it keeps what the
\* invariant says of w.
LEMMA OwnStepKeepsStock ==
  ASSUME StockIInv, NEW w \in Workers, OthersLockedAsBefore(w), TypeOK',
         UNCHANGED <<rows, level, moved, opening, entered, used, bin>>,
         RequestIsSound(w)',
         \A k \in Keys : IF rowLock'[k] = w THEN RowHolder(k, w)' ELSE req'[w].delta[k] = 0,
         \A k \in Keys : bin[k[2]] = "absent" /\ rowLock'[k] = w =>
                            req'[w].step = "flush" /\ Current(w)'.key = k,
         \A i \in Items : itemLock'[i] = w <=> req'[w].item = i,
         \A i \in Items : itemLock'[i] # NoOne =>
                            i \notin used /\ itemShares'[i] \subseteq {itemLock'[i]},
         req'[w].item # NoOne => OpeningIsUnderWay(w)'
  PROVE  StockIInv'
<1> USE DEF StockIInv
<1>1. RequestsAreSound'
  BY OthersStand DEF RequestsAreSound
<1>2. LevelsIInv'
  <2>1. ASSUME NEW k \in Keys, NEW u \in Workers
        PROVE  IF rowLock'[k] = u THEN RowHolder(k, u)' ELSE req'[u].delta[k] = 0
    <3>1. CASE u # w
      <4>1. req'[u] = req[u] /\ (rowLock'[k] = u <=> rowLock[k] = u)
        BY <3>1 DEF OthersLockedAsBefore
      <4>2. IF rowLock[k] = u THEN RowHolder(k, u) ELSE req[u].delta[k] = 0
        BY DEF LevelsIInv
      <4>3. RowHolder(k, u) => RowHolder(k, u)'
        BY <3>1, OthersStand
      <4> QED
        BY <4>1, <4>2, <4>3
    <3> QED
      BY <3>1
  <2> QED
    BY <2>1 DEF LevelsIInv
<1>3. BinsIInv'
  <2>1. ASSUME NEW k \in Keys, bin'[k[2]] = "absent"
        PROVE  k \notin rows' /\ (rowLock'[k] # NoOne =>
                  req'[rowLock'[k]].step = "flush" /\ Head(req'[rowLock'[k]].todo).key = k)
    <3>1. k \notin rows /\ (rowLock[k] # NoOne =>
             req[rowLock[k]].step = "flush" /\ Current(rowLock[k]).key = k)
      BY <2>1 DEF BinsIInv
    <3>2. CASE rowLock'[k] = w
      BY <2>1, <3>1, <3>2 DEF Current
    <3>3. CASE rowLock'[k] # w /\ rowLock'[k] # NoOne
      <4>1. rowLock'[k] \in Workers
        BY <3>3 DEF TypeOK
      <4>2. rowLock[k] = rowLock'[k] /\ req'[rowLock'[k]] = req[rowLock'[k]]
        BY <3>3, <4>1 DEF OthersLockedAsBefore
      <4> QED
        BY <3>1, <3>3, <4>2 DEF Current
    <3> QED
      BY <3>1, <3>2, <3>3
  <2> QED
    BY <2>1 DEF BinsIInv, Current
<1>4. ItemsAreLocked'
  <2>1. ASSUME NEW i \in Items, NEW u \in Workers PROVE itemLock'[i] = u <=> req'[u].item = i
    BY DEF OthersLockedAsBefore, OpeningsIInv, ItemsAreLocked
  <2> QED
    BY <2>1 DEF ItemsAreLocked
<1>5. ASSUME NEW u \in Workers, req'[u].item # NoOne PROVE OpeningIsUnderWay(u)'
  <2>1. CASE u # w
    BY <1>5, <2>1, OthersStand DEF OthersLockedAsBefore
  <2> QED
    BY <1>5, <2>1
<1> QED
  BY <1>1, <1>2, <1>3, <1>4, <1>5 DEF OpeningsIInv

\* It does so too where it changes no lock on an item and nothing but w's request
\* and row locks, when w sets no opening stock.
LEMMA ItemsStayLocked ==
  ASSUME StockIInv, NEW w \in Workers, UNCHANGED <<itemLock, itemShares>>,
         req'[w].item = req[w].item
  PROVE  /\ \A i \in Items : itemLock'[i] = w <=> req'[w].item = i
         /\ \A i \in Items : itemLock'[i] # NoOne =>
                            i \notin used /\ itemShares'[i] \subseteq {itemLock'[i]}
  BY DEF StockIInv, OpeningsIInv, ItemsAreLocked

LEMMA StartFacts ==
  ASSUME TypeOK, NEW w \in Workers, NEW moves \in Seq(Moves), NEW r \in Requests,
         Start(w, moves, r)
  PROVE  /\ req[w].step = "idle" /\ req' \in [Workers -> Requests]
         /\ \A u \in Workers : u # w => req'[u] = req[u]
         /\ req'[w].step = (IF moves = <<>> THEN "commit" ELSE "lock")
         /\ req'[w].todo = moves
         /\ req'[w].delta = r.delta /\ req'[w].item = r.item /\ req'[w].entry = r.entry
         /\ req'[w].doc = r.doc /\ req'[w].posted = r.posted /\ req'[w].touched = r.touched
         /\ UNCHANGED <<rows, level, moved, opening, entered, used, unit>>
         /\ UNCHANGED <<bin, tracking, price, docStatus, posted, rowLock, itemShares>>
<1> DEFINE s == IF moves = <<>> THEN "commit" ELSE "lock"
           q == [r EXCEPT !.step = s, !.todo = moves]
<1>1. req' = [req EXCEPT ![w] = q] /\ req[w].step = "idle"
  BY DEF Start
<1>2. s \in {"idle", "lock", "insert", "flush", "commit"}
  OBVIOUS
<1>3. /\ q \in Requests /\ q.step = s /\ q.todo = moves
      /\ q.delta = r.delta /\ q.item = r.item /\ q.entry = r.entry
      /\ q.doc = r.doc /\ q.posted = r.posted /\ q.touched = r.touched
  <2> HIDE DEF s
  <2> QED BY <1>2 DEF Requests
<1> HIDE DEF q, s
<1>4. req \in [Workers -> Requests]
  BY DEF TypeOK
<1>5. req'[w] = q /\ req' \in [Workers -> Requests] /\ \A u \in Workers : u # w => req'[u] = req[u]
  BY <1>1, <1>3, <1>4
<1> QED
  BY <1>1, <1>3, <1>5 DEF Start, stockVars, itemVars, docVars, s

\* A request that begins holds nothing and has moved nothing.
LEMMA StartKeepsStock ==
  ASSUME StockIInv, NEW w \in Workers, NEW moves \in Seq(Moves), NEW r \in Requests,
         Start(w, moves, r), TransferIsWhole(moves), r.delta = Idle.delta,
         itemLock' \in [Items -> Workers \cup {NoOne}],
         \A u \in Workers, i \in Items : u # w => (itemLock'[i] = u <=> itemLock[i] = u),
         \A i \in Items : itemLock'[i] = w <=> r.item = i,
         \A i \in Items : itemLock'[i] # NoOne =>
                            i \notin used /\ itemShares[i] \subseteq {itemLock'[i]},
         r.item # NoOne => OpeningIsUnderWay(w)'
  PROVE  StockIInv'
<1> USE DEF StockIInv
<1>1. /\ req[w].step = "idle" /\ req' \in [Workers -> Requests]
      /\ \A u \in Workers : u # w => req'[u] = req[u]
      /\ req'[w].step = (IF moves = <<>> THEN "commit" ELSE "lock")
      /\ req'[w].todo = moves
      /\ req'[w].delta = r.delta /\ req'[w].item = r.item /\ req'[w].entry = r.entry
      /\ UNCHANGED <<rows, level, moved, opening, entered, used, unit>>
      /\ UNCHANGED <<bin, tracking, price, docStatus, posted, rowLock, itemShares>>
  BY StartFacts
<1>2. OthersLockedAsBefore(w)
  BY <1>1 DEF OthersLockedAsBefore
<1>3. TypeOK'
  BY <1>1 DEF TypeOK
<1>4. \A k \in Keys : rowLock'[k] # w
  BY <1>1 DEF LevelsIInv, RowHolder
<1>5. RequestIsSound(w)'
  BY <1>1 DEF RequestIsSound
<1>6. \A k \in Keys : IF rowLock'[k] = w THEN RowHolder(k, w)' ELSE req'[w].delta[k] = 0
  BY <1>1, <1>4, IdleIsRequest
<1>7. \A i \in Items : itemLock'[i] # NoOne =>
                            i \notin used /\ itemShares'[i] \subseteq {itemLock'[i]}
  BY <1>1
<1> QED
  BY <1>1, <1>2, <1>3, <1>4, <1>5, <1>6, <1>7, OwnStepKeepsStock

LEMMA PlainStartKeepsStock ==
  ASSUME StockIInv, NEW w \in Workers, NEW moves \in Seq(Moves), NEW r \in Requests,
         Start(w, moves, r), TransferIsWhole(moves), r.delta = Idle.delta, r.item = NoOne,
         UNCHANGED itemLock
  PROVE  StockIInv'
<1>1. req[w].item = NoOne
  BY IdleIsRequest, StartFacts DEF StockIInv, RequestsAreSound, RequestIsSound
<1>2. \A i \in Items : i # NoOne /\ itemLock[i] # w
  BY <1>1 DEF StockIInv, OpeningsIInv, ItemsAreLocked
<1>3. \A i \in Items : itemLock'[i] # NoOne =>
                            i \notin used /\ itemShares[i] \subseteq {itemLock'[i]}
  BY DEF StockIInv, OpeningsIInv, ItemsAreLocked
<1>4. itemLock' \in [Items -> Workers \cup {NoOne}]
  BY DEF StockIInv, TypeOK
<1> QED
  BY <1>2, <1>3, <1>4, StartKeepsStock

LEMMA OneMoveKeepsStock ==
  ASSUME StockIInv, NEW w \in Workers, NEW m \in Moves, m.type # "transfer_out",
         Start(w, <<m>>, Idle), UNCHANGED itemLock
  PROVE  StockIInv'
<1>1. <<m>> \in Seq(Moves) /\ TransferIsWhole(<<m>>)
  BY DEF TransferIsWhole
<1> QED
  BY <1>1, IdleIsRequest, PlainStartKeepsStock

\* A transfer takes out of one place what it puts into the other.
StartsTransfer(w, moves, i, p, q, n, S) ==
    /\ Start(w, moves, Idle) /\ UNCHANGED itemLock
    /\ DOMAIN moves = 1..2 /\ Len(moves) = 2
    /\ moves[1].type = "transfer_out" /\ moves[1].key = <<i, p>>
    /\ moves[1].delta = 0 - n /\ moves[1].serials = {}
    /\ moves[2].type = "transfer_in" /\ moves[2].key = <<i, q>>
    /\ moves[2].delta = n /\ moves[2].serials = S /\ moves[2].origin = p

LEMMA TransferMoves ==
  ASSUME NEW w \in Workers, NEW i \in Items, NEW p \in Places, NEW q \in Places,
         NEW n \in Quantities, NEW S \in SUBSET Serials, Transfer(w, i, p, q, n, S)
  PROVE  \E moves \in Seq(Moves) : StartsTransfer(w, moves, i, p, q, n, S)
<1> DEFINE out == Move(<<i, p>>, 0 - n, "transfer_out", {})
           in1 == Move(<<i, q>>, n, "transfer_in", S)
           in2 == [in1 EXCEPT !.origin = p]
<1>1. n \in Int /\ 0 - n \in Int
  BY QuantitiesAssumption
<1>2. /\ <<i, p>> \in Keys /\ <<i, q>> \in Keys /\ {} \in SUBSET Serials
      /\ "transfer_out" \in MoveTypes /\ "transfer_in" \in MoveTypes
  BY KeysArePairs DEF MoveTypes
<1>3. /\ out \in Moves /\ out.key = <<i, p>> /\ out.delta = 0 - n /\ out.type = "transfer_out"
      /\ out.serials = {}
  BY <1>1, <1>2, MoveIsMove DEF Move
<1>4. /\ in1 \in Moves /\ in1.key = <<i, q>> /\ in1.type = "transfer_in" /\ in1.delta = n
      /\ in1.serials = S
  BY <1>1, <1>2, MoveIsMove DEF Move
<1>5. Start(w, <<out, in2>>, Idle) /\ UNCHANGED itemLock
  BY DEF Transfer
<1> HIDE DEF out, in1
<1>6. /\ in2 \in Moves /\ in2.key = <<i, q>> /\ in2.type = "transfer_in" /\ in2.delta = n
      /\ in2.serials = S /\ in2.origin = p
  BY <1>4 DEF Moves
<1> HIDE DEF in2
<1> DEFINE moves == <<out, in2>>
<1>7. /\ moves \in Seq(Moves) /\ Len(moves) = 2 /\ DOMAIN moves = 1..2
      /\ moves[1] = out /\ moves[2] = in2
  BY <1>3, <1>6
<1>8. Start(w, moves, Idle)
  BY <1>5
<1> HIDE DEF moves
<1> QED
  BY <1>3, <1>5, <1>6, <1>7, <1>8 DEF StartsTransfer

LEMMA TransferKeepsStock ==
  ASSUME StockIInv, NEW w \in Workers, NEW i \in Items, NEW p \in Places, NEW q \in Places,
         NEW n \in Quantities, NEW S \in SUBSET Serials, Transfer(w, i, p, q, n, S)
  PROVE  StockIInv'
<1>0. PICK moves \in Seq(Moves) : StartsTransfer(w, moves, i, p, q, n, S)
  BY TransferMoves
<1>1. /\ Start(w, moves, Idle) /\ UNCHANGED itemLock /\ DOMAIN moves = 1..2
      /\ Len(moves) = 2
      /\ moves[1].type = "transfer_out" /\ moves[1].key = <<i, p>>
      /\ moves[1].delta = 0 - n /\ moves[1].serials = {}
      /\ moves[2].type = "transfer_in" /\ moves[2].key = <<i, q>>
      /\ moves[2].delta = n /\ moves[2].serials = S /\ moves[2].origin = p
  BY <1>0 DEF StartsTransfer
<1>2. moves[1].delta < 0
  BY <1>1, QuantitiesAssumption
<1>3. TransferIsWhole(moves)
  BY <1>1, <1>2 DEF TransferIsWhole
<1> QED
  BY <1>1, <1>3, IdleIsRequest, PlainStartKeepsStock

LEMMA DocumentKeepsStock ==
  ASSUME StockIInv, NEW w \in Workers, NEW d \in Docs, Finalize(w, d) \/ Void(w, d)
  PROVE  StockIInv'
<1>1. PICK undo \in BOOLEAN : Start(w, DocMoves(d, undo), [Idle EXCEPT !.doc = d])
  BY DEF Finalize, Void
<1>2. UNCHANGED itemLock
  BY DEF Finalize, Void
<1> DEFINE r == [Idle EXCEPT !.doc = d]
           moves == DocMoves(d, undo)
<1>3. r \in Requests /\ r.delta = Idle.delta /\ r.item = NoOne
  <2> USE IdleIsRequest
  <2> QED BY DEF Requests
<1>4. moves \in Seq(Moves) /\ \A n \in DOMAIN moves : moves[n].type # "transfer_out"
  BY DocMovesAreMoves DEF StockIInv
<1>5. TransferIsWhole(moves)
  BY <1>4 DEF TransferIsWhole
<1>6. Start(w, moves, r)
  BY <1>1
<1> HIDE DEF r, moves
<1> QED
  BY <1>2, <1>3, <1>4, <1>5, <1>6, PlainStartKeepsStock

\* Setting opening stock takes the item, which nobody has moved or is moving.
LEMMA SetOpeningKeepsStock ==
  ASSUME StockIInv, NEW w \in Workers, NEW i \in Items, NEW e \in Openings[i],
         SetOpening(w, i, e)
  PROVE  StockIInv'
<1> DEFINE moves == OpeningMoves(i, e)
           r == [Idle EXCEPT !.item = i, !.entry = [p \in Places |-> e[p].quantity]]
<1>1. /\ itemLock[i] = NoOne /\ itemShares[i] = {} /\ i \notin used
      /\ Start(w, moves, r) /\ itemLock' = [itemLock EXCEPT ![i] = w]
  BY DEF SetOpening, ItemFree
<1>2. /\ moves \in Seq(Moves)
      /\ \A n \in DOMAIN moves :
               /\ moves[n].key[1] = i /\ moves[n].type = "opening"
               /\ moves[n].delta = e[moves[n].key[2]].quantity - opening[moves[n].key]
      /\ \A n, m \in DOMAIN moves : moves[n].key = moves[m].key => n = m
      /\ \A p \in Places : \/ opening[<<i, p>>] = e[p].quantity
                           \/ \E n \in DOMAIN moves : moves[n].key = <<i, p>>
      /\ \A p \in Places : e[p].quantity \in Nat
  <2>1. IsOpening(moves, i, e) /\ \A p \in Places : e[p].quantity \in Nat
    BY OpeningMovesAreMoves DEF StockIInv
  <2> HIDE DEF moves
  <2> QED
    BY <2>1 DEF IsOpening
<1>3. [p \in Places |-> e[p].quantity] \in [Places -> Nat]
  BY <1>2
<1>4. /\ r \in Requests /\ r.delta = Idle.delta /\ r.item = i
      /\ r.entry = [p \in Places |-> e[p].quantity]
  <2> USE IdleIsRequest
  <2> QED BY <1>3 DEF Requests
<1> HIDE DEF moves, r
<1>5. TransferIsWhole(moves)
  BY <1>2 DEF TransferIsWhole
<1>6. /\ itemLock \in [Items -> Workers \cup {NoOne}] /\ opening \in [Keys -> Int]
      /\ itemLock' \in [Items -> Workers \cup {NoOne}]
  BY <1>1 DEF StockIInv, TypeOK
<1>7. req[w].step = "idle" /\ req[w].item = NoOne
  BY <1>1, <1>2, <1>4, IdleIsRequest, StartFacts
  DEF StockIInv, RequestsAreSound, RequestIsSound
<1>8. \A j \in Items : itemLock[j] # w
  BY <1>7 DEF StockIInv, OpeningsIInv, ItemsAreLocked
<1>9. /\ \A u \in Workers, j \in Items : u # w => (itemLock'[j] = u <=> itemLock[j] = u)
      /\ \A j \in Items : itemLock'[j] = w <=> r.item = j
  BY <1>1, <1>4, <1>6, <1>8
<1>10. \A j \in Items : itemLock'[j] # NoOne =>
                            j \notin used /\ itemShares[j] \subseteq {itemLock'[j]}
  BY <1>1, <1>6 DEF StockIInv, OpeningsIInv, ItemsAreLocked
<1>11. OpeningIsUnderWay(w)'
  <2>1. /\ req'[w].step = (IF moves = <<>> THEN "commit" ELSE "lock")
        /\ req'[w].todo = moves /\ req'[w].item = i
        /\ req'[w].delta = [k \in Keys |-> 0]
        /\ req'[w].entry = [p \in Places |-> e[p].quantity]
        /\ UNCHANGED <<opening, rowLock>>
    BY <1>1, <1>2, <1>4, StartFacts, IdleIsRequest DEF StockIInv
  <2>2. Pending(w)' = DOMAIN moves
    BY <2>1 DEF Pending
  <2>3. \A k \in Keys : rowLock'[k] # w
    BY <1>7, <2>1 DEF StockIInv, LevelsIInv, RowHolder
  <2>4. \A n \in DOMAIN moves : moves[n] \in Moves
    BY <1>2
  <2>5. ASSUME NEW n \in DOMAIN moves
        PROVE  /\ req'[w].delta[moves[n].key] = 0
               /\ opening'[moves[n].key] + moves[n].delta = req'[w].entry[moves[n].key[2]]
    <3>1. moves[n].key \in Keys /\ moves[n].key[2] \in Places
      <4>1. moves[n] \in Moves
        BY <2>4
      <4>2. moves[n].key \in Keys
        BY <4>1 DEF Moves
      <4> QED
        BY <4>2, KeysArePairs
    <3> DEFINE x == opening[moves[n].key]
               y == e[moves[n].key[2]].quantity
    <3>2. x \in Int /\ y \in Int /\ moves[n].delta = y - x
      BY <1>2, <1>6, <3>1
    <3>3. req'[w].entry[moves[n].key[2]] = y /\ opening'[moves[n].key] = x
      BY <2>1, <3>1
    <3>4. req'[w].delta[moves[n].key] = 0
      BY <2>1, <3>1
    <3> HIDE DEF x, y
    <3>5. x + (y - x) = y
      BY <3>2
    <3>6. opening'[moves[n].key] + moves[n].delta = x + (y - x)
      BY <3>2, <3>3
    <3> QED
      BY <3>3, <3>4, <3>5, <3>6
  <2>6. ASSUME NEW p \in Places
        PROVE  \/ \E n \in DOMAIN moves : moves[n].key = <<i, p>>
               \/ opening'[<<i, p>>] + req'[w].delta[<<i, p>>] = req'[w].entry[p]
    <3>1. <<i, p>> \in Keys
      BY KeysArePairs
    <3>2. opening[<<i, p>>] \in Int /\ req'[w].delta[<<i, p>>] = 0
      BY <1>6, <2>1, <3>1
    <3>3. opening'[<<i, p>>] = opening[<<i, p>>] /\ req'[w].entry[p] = e[p].quantity
      BY <2>1
    <3>4. \/ opening[<<i, p>>] = e[p].quantity
          \/ \E n \in DOMAIN moves : moves[n].key = <<i, p>>
      BY <1>2
    <3>5. opening[<<i, p>>] + 0 = opening[<<i, p>>]
      BY <3>2
    <3> QED
      BY <3>2, <3>3, <3>4, <3>5
  <2> QED
    BY <1>2, <2>1, <2>2, <2>3, <2>5, <2>6 DEF OpeningIsUnderWay
<1> QED
  BY <1>1, <1>2, <1>4, <1>5, <1>6, <1>9, <1>10, <1>11, StartKeepsStock

LEMMA BeginKeepsStock ==
  ASSUME StockIInv, NEW w \in Workers, Begin(w)
  PROVE  StockIInv'
<1>1. ASSUME NEW k \in Keys, Revalue(w, k) PROVE StockIInv'
  <2>1. Start(w, <<Move(k, 0, "revaluation", {})>>, Idle) /\ UNCHANGED itemLock
    BY <1>1 DEF Revalue
  <2>3. k \in Keys /\ 0 \in Int /\ "revaluation" \in MoveTypes /\ {} \in SUBSET Serials
    BY <1>1 DEF MoveTypes
  <2>2. /\ Move(k, 0, "revaluation", {}) \in Moves
        /\ Move(k, 0, "revaluation", {}).type # "transfer_out"
    BY <2>3, MoveIsMove
  <2> QED
    BY <2>1, <2>2, OneMoveKeepsStock
<1>2. ASSUME NEW k \in Keys, NEW n \in Quantities, NEW S \in SUBSET Serials,
             Receive(w, k, n, S) \/ Remove(w, k, n, S)
      PROVE  StockIInv'
  <2>1. PICK delta \in Int : Start(w, <<Move(k, delta, "adjustment", S)>>, Idle)
    <3>1. n \in Int /\ 0 - n \in Int
      BY <1>2, QuantitiesAssumption
    <3>2. \/ Start(w, <<Move(k, n, "adjustment", S)>>, Idle)
          \/ Start(w, <<Move(k, 0 - n, "adjustment", S)>>, Idle)
      BY <1>2 DEF Receive, Remove
    <3> QED
      BY <3>1, <3>2
  <2>2. UNCHANGED itemLock
    BY <1>2 DEF Receive, Remove
  <2>3. /\ Move(k, delta, "adjustment", S) \in Moves
        /\ Move(k, delta, "adjustment", S).type # "transfer_out"
    BY MoveIsMove DEF MoveTypes
  <2> QED
    BY <2>1, <2>2, <2>3, OneMoveKeepsStock
<1> QED
  BY <1>1, <1>2, TransferKeepsStock, SetOpeningKeepsStock, DocumentKeepsStock DEF Begin

-----------------------------------------------------------------------------
(* Level rows are locked or inserted.                                       *)

LEMMA HoldFacts ==
  ASSUME TypeOK, NEW w \in Workers, req[w].todo # <<>>, NEW q \in Int, Hold(w, q)
  PROVE  /\ req' \in [Workers -> Requests]
         /\ rowLock[Current(w).key] \in {NoOne, w} => OthersLockedAsBefore(w)
         /\ rowLock' = [rowLock EXCEPT ![Current(w).key] = w]
         /\ req'[w].level = [req[w].level EXCEPT ![Current(w).key] = q]
         /\ req'[w].delta = [req[w].delta EXCEPT ![Current(w).key] = @ + Current(w).delta]
         /\ req'[w].step = (IF Current(w).type = "transfer_out" THEN "lock" ELSE "flush")
         /\ req'[w].todo = (IF Current(w).type = "transfer_out" THEN Tail(req[w].todo)
                                                                 ELSE req[w].todo)
         /\ req'[w].item = req[w].item /\ req'[w].entry = req[w].entry
         /\ req'[w].doc = req[w].doc /\ req'[w].posted = req[w].posted
         /\ req'[w].touched = req[w].touched /\ req'[w].unit = req[w].unit
         /\ UNCHANGED <<rows, level, moved, opening, entered, used, unit>>
         /\ UNCHANGED <<bin, tracking, price, docStatus, posted, itemLock, itemShares>>
<1> DEFINE m == Current(w)
           k == m.key
           r == req[w]
           out == m.type = "transfer_out"
           lv == [r.level EXCEPT ![k] = q]
           dl == [r.delta EXCEPT ![k] = r.delta[k] + m.delta]
           st == IF out THEN "lock" ELSE "flush"
           td == IF out THEN Tail(r.todo) ELSE r.todo
           r2 == [r EXCEPT !.level = lv, !.delta = dl, !.step = st, !.todo = td]
<1>2. /\ r \in Requests /\ k \in Keys /\ m.delta \in Int /\ r.delta[k] \in Int
      /\ r.level \in [Keys -> Int] /\ r.delta \in [Keys -> Int] /\ r.todo \in Seq(Moves)
      /\ Tail(r.todo) \in Seq(Moves) /\ req \in [Workers -> Requests]
      /\ rowLock \in [Keys -> Workers \cup {NoOne}]
  BY CurrentTypes, RequestTypes, Sequences DEF TypeOK
<1>1. /\ rowLock' = [rowLock EXCEPT ![k] = w]
      /\ req' = [req EXCEPT ![w] = r2]
      /\ UNCHANGED <<rows, level, moved, opening, entered, used, unit>>
      /\ UNCHANGED <<bin, tracking, price, docStatus, posted, itemLock, itemShares>>
  <2> DEFINE r3 == [r EXCEPT !.level[k] = q, !.delta[k] = r.delta[k] + m.delta,
                             !.step = IF out THEN "lock" ELSE "flush",
                             !.todo = IF out THEN Tail(r.todo) ELSE r.todo]
  <2>1. r3 = r2
    <3> HIDE DEF m, k, r
    <3> QED BY <1>2 DEF Requests
  <2>2. /\ rowLock' = [rowLock EXCEPT ![k] = w]
        /\ req' = [req EXCEPT ![w] = r3]
    BY <1>2 DEF Hold
  <2>3. /\ UNCHANGED <<rows, level, moved, opening, entered, used, unit>>
        /\ UNCHANGED <<bin, tracking, price, docStatus, posted, itemLock, itemShares>>
    BY DEF Hold, stockVars, itemVars, docVars
  <2> HIDE DEF r2, r3
  <2> QED
    BY <2>1, <2>2, <2>3
<1> HIDE DEF m, k, r
<1>3. lv \in [Keys -> Int] /\ td \in Seq(Moves) /\ st \in {"idle", "lock", "insert", "flush", "commit"}
  BY <1>2
<1>4. dl \in [Keys -> Int]
  <2>1. r.delta[k] + m.delta \in Int
    BY <1>2
  <2> QED
    BY <1>2, <2>1
<1> HIDE DEF lv, dl, st, td
<1>5. /\ r2 \in Requests /\ r2.level = lv /\ r2.delta = dl /\ r2.step = st /\ r2.todo = td
      /\ r2.item = r.item /\ r2.entry = r.entry /\ r2.doc = r.doc /\ r2.posted = r.posted
      /\ r2.touched = r.touched /\ r2.unit = r.unit
  BY <1>2, <1>3, <1>4 DEF Requests
<1> HIDE DEF r2
<1>6. req' \in [Workers -> Requests] /\ req'[w] = r2 /\ \A u \in Workers : u # w => req'[u] = req[u]
  BY <1>1, <1>2, <1>5
<1>7. rowLock[k] \in {NoOne, w} =>
         \A u \in Workers, j \in Keys : u # w => (rowLock'[j] = u <=> rowLock[j] = u)
  BY <1>1, <1>2
<1>8. rowLock[k] \in {NoOne, w} => OthersLockedAsBefore(w)
  BY <1>1, <1>6, <1>7 DEF OthersLockedAsBefore
<1> QED
  BY <1>1, <1>5, <1>6, <1>8 DEF m, k, r, lv, dl, st, td

\* A request that locks a level row, or inserts it, adds its movement to what the row
\* says, or to what the request itself has made of it.
LEMMA HoldKeepsStock ==
  ASSUME StockIInv, NEW w \in Workers, req[w].step \in {"lock", "insert"},
         NEW q \in Int, Hold(w, q), rowLock[Current(w).key] \in {NoOne, w},
         q = level[Current(w).key] + req[w].delta[Current(w).key] + Current(w).delta, q >= 0,
         bin[Current(w).key[2]] = "absent" => Current(w).type # "transfer_out"
  PROVE  StockIInv'
<1> DEFINE m == Current(w)
           k == m.key
           todo == req[w].todo
<1>1. /\ req[w].todo # <<>> /\ TypeOK
      /\ RequestIsSound(w) /\ TransferIsWhole(req[w].todo)
  BY DEF StockIInv, RequestsAreSound, RequestIsSound
<1>2. /\ m = todo[1] /\ k \in Keys /\ m.delta \in Int /\ k[1] \in Items /\ k[2] \in Places
      /\ todo \in Seq(Moves) /\ DOMAIN todo = 1..Len(todo) /\ Len(todo) \in Nat \ {0}
      /\ 1 \in DOMAIN todo /\ Head(todo) = todo[1]
      /\ \A j \in Keys : req[w].level[j] \in Int /\ req[w].delta[j] \in Int /\ level[j] \in Int
      /\ req[w].level \in [Keys -> Int] /\ req[w].delta \in [Keys -> Int]
      /\ rowLock \in [Keys -> Workers \cup {NoOne}]
  BY <1>1, CurrentTypes, RequestTypes, Sequences DEF TypeOK
<1>3. /\ req' \in [Workers -> Requests] /\ OthersLockedAsBefore(w)
      /\ rowLock' = [rowLock EXCEPT ![k] = w]
      /\ req'[w].level = [req[w].level EXCEPT ![k] = q]
      /\ req'[w].delta = [req[w].delta EXCEPT ![k] = @ + m.delta]
      /\ req'[w].step = (IF m.type = "transfer_out" THEN "lock" ELSE "flush")
      /\ req'[w].todo = (IF m.type = "transfer_out" THEN Tail(todo) ELSE todo)
      /\ req'[w].item = req[w].item /\ req'[w].entry = req[w].entry
      /\ UNCHANGED <<rows, level, moved, opening, entered, used, unit>>
      /\ UNCHANGED <<bin, tracking, price, docStatus, posted, itemLock, itemShares>>
  BY <1>1, HoldFacts
\* A transfer goes on with the movement into the other place, of the same item.
<1>4. /\ m.type = "transfer_out" =>
            /\ Len(todo) = 2 /\ todo[2].type = "transfer_in" /\ todo[2].key[1] = k[1]
            /\ Tail(todo) # <<>> /\ Tail(todo)[1] = todo[2] /\ DOMAIN Tail(todo) = {1}
            /\ Head(Tail(todo)) = todo[2]
  <2> SUFFICES ASSUME m.type = "transfer_out"
               PROVE  /\ Len(todo) = 2 /\ todo[2].type = "transfer_in" /\ todo[2].key[1] = k[1]
                      /\ Tail(todo) # <<>> /\ Tail(todo)[1] = todo[2] /\ DOMAIN Tail(todo) = {1}
                      /\ Head(Tail(todo)) = todo[2]
    OBVIOUS
  <2>1. Len(todo) = 2 /\ todo[2].type = "transfer_in" /\ todo[2].key[1] = k[1]
    BY <1>1, <1>2 DEF TransferIsWhole
  <2>2. /\ Tail(todo) \in Seq(Moves) /\ Tail(todo) # <<>>
        /\ DOMAIN Tail(todo) = 1..1 /\ Tail(todo)[1] = todo[1 + 1]
    <3>1. todo \in Seq(Moves) /\ todo # <<>> /\ Len(todo) = 2
      BY <1>1, <1>2, <2>1
    <3> HIDE DEF todo
    <3>2. /\ Tail(todo) \in Seq(Moves) /\ (Tail(todo) = <<>> <=> Len(todo) = 1)
          /\ DOMAIN Tail(todo) = 1..(Len(todo) - 1)
          /\ \A n \in 1..(Len(todo) - 1) : Tail(todo)[n] = todo[n + 1]
      BY <3>1, Sequences
    <3>3. Len(todo) - 1 = 1 /\ Len(todo) # 1 /\ 1 \in 1..(Len(todo) - 1)
      BY <3>1
    <3> QED
      BY <3>2, <3>3
  <2>3. Head(Tail(todo)) = Tail(todo)[1]
    BY <2>2, Sequences
  <2> QED
    BY <2>1, <2>2, <2>3
<1> HIDE DEF m, k, todo
<1>5. /\ req'[w].todo # <<>> /\ Head(req'[w].todo).key[1] = k[1]
      /\ m.type # "transfer_out" => Head(req'[w].todo) = m
  BY <1>1, <1>2, <1>3, <1>4 DEF k, todo
<1>6. TypeOK'
  <2>1. rowLock' \in [Keys -> Workers \cup {NoOne}]
    BY <1>2, <1>3
  <2> QED
    BY <1>1, <1>3, <2>1 DEF TypeOK
<1>7. RequestIsSound(w)'
  <2>1. CASE m.type = "transfer_out"
    <3>1. TransferIsWhole(Tail(todo))
      BY <1>4, <2>1 DEF TransferIsWhole
    <3>2. req'[w].step = "lock" /\ req'[w].todo = Tail(todo) /\ Tail(todo) # <<>>
      BY <1>3, <1>4, <2>1
    <3> QED
      BY <3>1, <3>2 DEF RequestIsSound, TransferIsWhole
  <2>2. CASE m.type # "transfer_out"
    <3>1. req'[w].step = "flush" /\ req'[w].todo = todo /\ todo # <<>> /\ Head(todo) = m
      BY <1>1, <1>2, <1>3, <2>2 DEF todo
    <3> QED
      BY <1>1, <2>2, <3>1 DEF RequestIsSound, TransferIsWhole, Current, todo
  <2> QED
    BY <2>1, <2>2
<1>8. ASSUME NEW j \in Keys
      PROVE  IF rowLock'[j] = w THEN RowHolder(j, w)' ELSE req'[w].delta[j] = 0
  <2>1. req'[w].step # "idle"
    BY <1>3
  <2>2. CASE j = k
    <3>1. req'[w].level[k] = q /\ req'[w].delta[k] = req[w].delta[k] + m.delta
      BY <1>2, <1>3
    <3>2. q = level[k] + (req[w].delta[k] + m.delta)
      BY <1>2 DEF m, k
    <3>3. level'[k] = level[k] /\ rowLock'[k] = w
      BY <1>2, <1>3
    <3> QED
      BY <1>5, <2>1, <2>2, <3>1, <3>2, <3>3 DEF RowHolder, Current
  <2>3. CASE j # k
    <3>1. /\ req'[w].level[j] = req[w].level[j] /\ req'[w].delta[j] = req[w].delta[j]
          /\ rowLock'[j] = rowLock[j] /\ level'[j] = level[j] /\ itemShares' = itemShares
      BY <1>2, <1>3, <2>3
    <3>2. IF rowLock[j] = w THEN RowHolder(j, w) ELSE req[w].delta[j] = 0
      BY DEF StockIInv, LevelsIInv
    <3>3. rowLock[j] = w =>
            w \in itemShares[j[1]] \/ (req'[w].todo # <<>> /\ Head(req'[w].todo).key[1] = j[1])
      BY <1>5, <3>2 DEF RowHolder, k, m
    <3> QED
      BY <2>1, <3>1, <3>2, <3>3 DEF RowHolder, Current
  <2> QED
    BY <2>2, <2>3
<1>9. ASSUME NEW j \in Keys, bin[j[2]] = "absent", rowLock'[j] = w
      PROVE  req'[w].step = "flush" /\ Current(w)'.key = j
  <2>1. CASE j = k
    <3>1. m.type # "transfer_out"
      BY <1>9, <2>1 DEF k, m
    <3> QED
      BY <1>3, <1>5, <2>1, <3>1 DEF Current, k
  <2>2. CASE j # k
    <3>1. rowLock[j] = w
      BY <1>2, <1>3, <1>9, <2>2
    <3>2. req[w].step = "flush"
      BY <1>9, <3>1 DEF StockIInv, BinsIInv
    <3> QED
      BY <3>2
  <2> QED
    BY <2>1, <2>2
<1>10. /\ \A i \in Items : itemLock'[i] = w <=> req'[w].item = i
       /\ \A i \in Items : itemLock'[i] # NoOne =>
                            i \notin used /\ itemShares'[i] \subseteq {itemLock'[i]}
  BY <1>3, ItemsStayLocked
<1>11. ASSUME req'[w].item # NoOne PROVE OpeningIsUnderWay(w)'
  <2> DEFINE i == req[w].item
  <2>1. OpeningIsUnderWay(w) /\ req'[w].item = i
    BY <1>3, <1>11 DEF StockIInv, OpeningsIInv
  <2>2. /\ \A n \in DOMAIN todo : todo[n].key[1] = i /\ todo[n].type = "opening"
        /\ \A n, a \in Pending(w) : todo[n].key = todo[a].key => n = a
        /\ \A j \in Keys : rowLock[j] = w => j[1] = i
        /\ \A n \in Pending(w) : /\ req[w].delta[todo[n].key] = 0
                                 /\ opening[todo[n].key] + todo[n].delta
                                      = req[w].entry[todo[n].key[2]]
        /\ \A p \in Places :
              \/ \E n \in Pending(w) : todo[n].key = <<i, p>>
              \/ opening[<<i, p>>] + req[w].delta[<<i, p>>] = req[w].entry[p]
    BY <2>1 DEF OpeningIsUnderWay, todo
  <2>3. Pending(w) = DOMAIN todo
    BY DEF Pending, todo
  <2>4. m.type = "opening" /\ k[1] = i
    BY <1>2, <2>2 DEF k
  <2>5. req'[w].step = "flush" /\ req'[w].todo = todo
    BY <1>3, <2>4
  <2>6. Pending(w)' = {n \in DOMAIN todo : n > 1}
    BY <2>5 DEF Pending
  <2>7. ASSUME NEW n \in DOMAIN todo, n > 1 PROVE todo[n].key # k
    <3>1. n # 1 /\ n \in Pending(w) /\ 1 \in Pending(w)
      BY <1>2, <2>3, <2>7
    <3>2. todo[n].key # todo[1].key
      BY <2>2, <3>1
    <3> QED
      BY <1>2, <3>2 DEF k
  <2>8. \A j \in Keys : j # k => req'[w].delta[j] = req[w].delta[j]
    BY <1>2, <1>3
  <2>9. /\ req[w].delta[k] = 0 /\ opening[k] + m.delta = req[w].entry[k[2]]
        /\ req'[w].delta[k] = m.delta
    BY <1>2, <1>3, <2>2, <2>3 DEF k
  <2>10. \A j \in Keys : rowLock'[j] = w => j[1] = i
    BY <1>2, <1>3, <2>2, <2>4
  <2>11. \A n \in DOMAIN todo : todo[n].key \in Keys
    BY <1>1, RequestTypes DEF todo
  <2>12. \A n \in Pending(w)' : /\ req'[w].delta[todo[n].key] = 0
                                /\ opening[todo[n].key] + todo[n].delta
                                     = req[w].entry[todo[n].key[2]]
    BY <2>2, <2>3, <2>6, <2>7, <2>8, <2>11
  <2>13. ASSUME NEW p \in Places
         PROVE  \/ \E n \in Pending(w)' : todo[n].key = <<i, p>>
                \/ opening[<<i, p>>] + req'[w].delta[<<i, p>>] = req[w].entry[p]
    <3>1. CASE <<i, p>> = k
      <4>1. k[2] = p
        BY <3>1
      <4> QED
        BY <2>9, <3>1, <4>1
    <3>2. CASE <<i, p>> # k
      <4>1. i \in Items /\ <<i, p>> \in Keys
        BY <1>2, <2>4, KeysArePairs
      <4>2. req'[w].delta[<<i, p>>] = req[w].delta[<<i, p>>]
        BY <2>8, <3>2, <4>1
      <4>3. \A n \in Pending(w) : todo[n].key = <<i, p>> => n \in Pending(w)'
        BY <1>2, <2>3, <2>6, <3>2 DEF k
      <4> QED
        BY <2>2, <4>2, <4>3
    <3> QED
      BY <3>1, <3>2
  <2>14. \A n, a \in Pending(w)' : todo[n].key = todo[a].key => n = a
    BY <2>2, <2>3, <2>6
  <2>15. req'[w].item = i /\ req'[w].entry = req[w].entry /\ opening' = opening
    BY <1>3
  <2>16. \A n \in DOMAIN todo : todo[n].key[1] = i /\ todo[n].type = "opening"
    BY <2>2
  <2> HIDE DEF i
  <2> QED
    BY <2>5, <2>10, <2>12, <2>13, <2>14, <2>15, <2>16 DEF OpeningIsUnderWay
<1> QED
  BY <1>3, <1>6, <1>7, <1>8, <1>9, <1>10, <1>11, OwnStepKeepsStock

LEMMA LockLevelKeepsStock ==
  ASSUME StockIInv, NEW w \in Workers, LockLevel(w)
  PROVE  StockIInv'
<1> DEFINE k == Current(w).key
           q == Quantity(w, k) + Current(w).delta
<1>1. /\ req[w].step = "lock" /\ rowLock[k] \in {NoOne, w} /\ q >= 0 /\ Hold(w, q)
      /\ k \in rows \/ rowLock[k] = w
  BY DEF LockLevel, RowFree
<1>2. req[w].todo # <<>> /\ TypeOK
  BY <1>1 DEF StockIInv, RequestsAreSound, RequestIsSound
<1>3. /\ k \in Keys /\ Current(w).delta \in Int /\ level[k] \in Int
      /\ req[w].level[k] \in Int /\ req[w].delta[k] \in Int
  BY <1>2, CurrentTypes, RequestTypes DEF TypeOK
<1>4. Quantity(w, k) = level[k] + req[w].delta[k]
  <2>1. IF rowLock[k] = w THEN RowHolder(k, w) ELSE req[w].delta[k] = 0
    BY <1>3 DEF StockIInv, LevelsIInv
  <2> HIDE DEF k
  <2> QED
    BY <1>3, <2>1 DEF Quantity, RowHolder
<1>5. bin[k[2]] # "absent"
  BY <1>1, <1>3 DEF StockIInv, BinsIInv
<1> HIDE DEF k
<1>6. q \in Int /\ q = level[k] + req[w].delta[k] + Current(w).delta
  BY <1>3, <1>4
<1> HIDE DEF q
<1> QED
  BY <1>1, <1>5, <1>6, HoldKeepsStock DEF k

LEMMA InsertLevelKeepsStock ==
  ASSUME StockIInv, NEW w \in Workers, InsertLevel(w)
  PROVE  StockIInv'
<1> DEFINE k == Current(w).key
           q == Current(w).delta
<1>1. /\ req[w].step = "insert" /\ rowLock[k] \in {NoOne, w} /\ q >= 0 /\ Hold(w, q)
      /\ k \notin rows
  BY DEF InsertLevel, RowFree
<1>2. /\ req[w].todo # <<>> /\ TypeOK /\ rowLock[k] # w /\ TransferIsWhole(req[w].todo)
  BY <1>1 DEF StockIInv, RequestsAreSound, RequestIsSound
<1>3. k \in Keys /\ q \in Int /\ Current(w) = req[w].todo[1] /\ 1 \in DOMAIN req[w].todo
  BY <1>2, CurrentTypes
<1>4. level[k] = 0 /\ req[w].delta[k] = 0
  BY <1>1, <1>2, <1>3 DEF StockIInv, LevelsIInv
<1>5. Current(w).type # "transfer_out"
  BY <1>1, <1>2, <1>3 DEF TransferIsWhole
<1>6. q = level[k] + req[w].delta[k] + Current(w).delta
  <2> HIDE DEF k
  <2> QED
    BY <1>3, <1>4
<1> QED
  BY <1>1, <1>3, <1>5, <1>6, HoldKeepsStock

\* The SELECT finds no row: nothing is locked.
LEMMA MissFacts ==
  ASSUME TypeOK, NEW w \in Workers, MissLevel(w)
  PROVE  /\ req[w].step = "lock" /\ rowLock[Current(w).key] # w
         /\ req' \in [Workers -> Requests]
         /\ \A u \in Workers : u # w => req'[u] = req[u]
         /\ req'[w].step = "insert" /\ req'[w].todo = req[w].todo
         /\ req'[w].level = req[w].level /\ req'[w].delta = req[w].delta
         /\ req'[w].item = req[w].item /\ req'[w].entry = req[w].entry
         /\ req'[w].doc = req[w].doc /\ req'[w].posted = req[w].posted
         /\ req'[w].touched = req[w].touched /\ req'[w].unit = req[w].unit
         /\ UNCHANGED <<rows, level, moved, opening, entered, used, unit>>
         /\ UNCHANGED <<bin, tracking, price, docStatus, posted, rowLock, itemLock, itemShares>>
<1> DEFINE r2 == [req[w] EXCEPT !.step = "insert"]
<1>1. /\ req[w].step = "lock" /\ rowLock[Current(w).key] # w
      /\ req' = [req EXCEPT ![w] = r2]
      /\ UNCHANGED <<rows, level, moved, opening, entered, used, unit>>
      /\ UNCHANGED <<bin, tracking, price, docStatus, posted, rowLock, itemLock, itemShares>>
  BY DEF MissLevel, stockVars, itemVars, docVars, lockVars
<1>2. req[w] \in Requests /\ req \in [Workers -> Requests]
  BY DEF TypeOK
<1>3. /\ r2 \in Requests /\ r2.step = "insert" /\ r2.todo = req[w].todo
      /\ r2.level = req[w].level /\ r2.delta = req[w].delta
      /\ r2.item = req[w].item /\ r2.entry = req[w].entry
      /\ r2.doc = req[w].doc /\ r2.posted = req[w].posted
      /\ r2.touched = req[w].touched /\ r2.unit = req[w].unit
  BY <1>2 DEF Requests
<1> HIDE DEF r2
<1>4. /\ req' \in [Workers -> Requests] /\ req'[w] = r2
      /\ \A u \in Workers : u # w => req'[u] = req[u]
  BY <1>1, <1>2, <1>3
<1> QED
  BY <1>1, <1>3, <1>4

LEMMA MissLevelKeepsStock ==
  ASSUME StockIInv, NEW w \in Workers, MissLevel(w)
  PROVE  StockIInv'
<1>1. /\ req[w].step = "lock" /\ rowLock[Current(w).key] # w
      /\ UNCHANGED <<rows, level, moved, opening, entered, used, unit>>
      /\ UNCHANGED <<bin, tracking, price, docStatus, posted, rowLock, itemLock, itemShares>>
  BY MissFacts DEF StockIInv
<1>2. RequestIsSound(w) /\ req[w].todo # <<>> /\ req \in [Workers -> Requests]
  BY <1>1 DEF StockIInv, TypeOK, RequestsAreSound, RequestIsSound
<1>3. /\ req'[w].step = "insert" /\ req'[w].todo = req[w].todo
      /\ req'[w].level = req[w].level /\ req'[w].delta = req[w].delta
      /\ req'[w].item = req[w].item /\ req'[w].entry = req[w].entry
  BY MissFacts DEF StockIInv
<1>4. /\ req' \in [Workers -> Requests] /\ \A u \in Workers : u # w => req'[u] = req[u]
  BY MissFacts DEF StockIInv
<1>5. OthersLockedAsBefore(w) /\ TypeOK'
  BY <1>1, <1>4 DEF OthersLockedAsBefore, StockIInv, TypeOK
<1>6. RequestIsSound(w)'
  <2>1. Current(w)' = Current(w)
    BY <1>3, <1>4 DEF Current
  <2> QED
    BY <1>1, <1>2, <1>3, <1>4, <2>1 DEF RequestIsSound
<1>7. ASSUME NEW j \in Keys
      PROVE  IF rowLock'[j] = w THEN RowHolder(j, w)' ELSE req'[w].delta[j] = 0
  <2>1. IF rowLock[j] = w THEN RowHolder(j, w) ELSE req[w].delta[j] = 0
    BY DEF StockIInv, LevelsIInv
  <2> QED
    BY <1>1, <1>3, <1>4, <2>1 DEF RowHolder, Current
<1>8. \A j \in Keys : bin[j[2]] = "absent" => rowLock'[j] # w
  BY <1>1 DEF StockIInv, BinsIInv
<1>9. /\ \A i \in Items : itemLock'[i] = w <=> req'[w].item = i
      /\ \A i \in Items : itemLock'[i] # NoOne =>
                            i \notin used /\ itemShares'[i] \subseteq {itemLock'[i]}
  BY <1>1, <1>3, <1>4, ItemsStayLocked
<1>10. ASSUME req'[w].item # NoOne PROVE OpeningIsUnderWay(w)'
  <2>1. OpeningIsUnderWay(w)
    BY <1>3, <1>4, <1>10 DEF StockIInv, OpeningsIInv
  <2>2. Pending(w)' = Pending(w)
    BY <1>1, <1>3, <1>4 DEF Pending
  <2>3. /\ req'[w].todo = req[w].todo /\ req'[w].delta = req[w].delta
        /\ req'[w].entry = req[w].entry /\ req'[w].item = req[w].item
        /\ rowLock' = rowLock /\ opening' = opening
    BY <1>1, <1>3, <1>4
  <2> QED
    BY <2>1, <2>2, <2>3 DEF OpeningIsUnderWay
<1> QED
  BY <1>1, <1>5, <1>6, <1>7, <1>8, <1>9, <1>10, OwnStepKeepsStock

-----------------------------------------------------------------------------
(* Movements are flushed and requests commit.                               *)

LEMMA FlushFacts ==
  ASSUME TypeOK, NEW w \in Workers, req[w].todo # <<>>, Flush(w)
  PROVE  LET m == Current(w) IN
         /\ req[w].step = "flush" /\ bin[m.key[2]] # "absent"
         /\ itemLock[m.key[1]] \in {NoOne, w}
         /\ itemShares' = [itemShares EXCEPT ![m.key[1]] = @ \cup {w}]
         /\ req' \in [Workers -> Requests]
         /\ \A u \in Workers : u # w => req'[u] = req[u]
         /\ req'[w].step = (IF Tail(req[w].todo) = <<>> THEN "commit" ELSE "lock")
         /\ req'[w].todo = Tail(req[w].todo)
         /\ req'[w].level = req[w].level /\ req'[w].delta = req[w].delta
         /\ req'[w].item = req[w].item /\ req'[w].entry = req[w].entry
         /\ req'[w].doc = req[w].doc
         /\ req'[w].posted = (IF req[w].doc = NoOne THEN req[w].posted
                                                    ELSE Append(req[w].posted, m))
         /\ req'[w].touched = req[w].touched \cup m.serials
         /\ req'[w].unit = [s \in Serials |->
                              IF s \in m.serials THEN MovedUnit(m) ELSE req[w].unit[s]]
         /\ UNCHANGED <<rows, level, moved, opening, entered, used, unit>>
         /\ UNCHANGED <<bin, tracking, price, docStatus, posted, rowLock, itemLock>>
<1> DEFINE r == req[w]
           m == Current(w)
           st == IF Tail(r.todo) = <<>> THEN "commit" ELSE "lock"
           td == Tail(r.todo)
           ts == r.touched \cup m.serials
           un == [s \in Serials |-> IF s \in m.serials THEN MovedUnit(m) ELSE r.unit[s]]
           ps == IF r.doc = NoOne THEN r.posted ELSE Append(r.posted, m)
           r2 == [r EXCEPT !.step = st, !.todo = td, !.touched = ts, !.unit = un,
                           !.posted = ps]
<1>1. /\ r.step = "flush" /\ bin[m.key[2]] # "absent"
      /\ itemLock[m.key[1]] \in {NoOne, w}
      /\ itemShares' = [itemShares EXCEPT ![m.key[1]] = @ \cup {w}]
      /\ req' = [req EXCEPT ![w] = r2]
      /\ UNCHANGED <<rows, level, moved, opening, entered, used, unit>>
      /\ UNCHANGED <<bin, tracking, price, docStatus, posted, rowLock, itemLock>>
  BY DEF Flush, ItemOpen, stockVars, itemVars, docVars
<1>2. /\ r \in Requests /\ m \in Moves /\ r.todo \in Seq(Moves) /\ td \in Seq(Moves)
      /\ m.key[2] \in Places /\ req \in [Workers -> Requests]
  BY CurrentTypes, RequestTypes, Sequences DEF TypeOK
<1>3. /\ m.serials \in SUBSET Serials /\ r.touched \in SUBSET Serials
      /\ r.unit \in [Serials -> Units] /\ r.posted \in Seq(Moves)
  <2> HIDE DEF r, m
  <2> QED
    BY <1>2 DEF Requests, Moves
<1>4. MovedUnit(m) \in Units
  BY <1>2 DEF MovedUnit, StatusOut, Units, UnitStates
<1>5. ts \in SUBSET Serials /\ un \in [Serials -> Units]
  <2> HIDE DEF r, m
  <2> QED
    BY <1>3, <1>4
<1>6. ps \in Seq(Moves) /\ st \in {"idle", "lock", "insert", "flush", "commit"}
  <2> HIDE DEF r, m
  <2> QED
    BY <1>2, <1>3
<1> HIDE DEF st, td, ts, un, ps, m
<1>7. /\ r2 \in Requests /\ r2.step = st /\ r2.todo = td /\ r2.level = r.level
      /\ r2.delta = r.delta /\ r2.item = r.item /\ r2.entry = r.entry
      /\ r2.doc = r.doc /\ r2.posted = ps /\ r2.touched = ts /\ r2.unit = un
  BY <1>2, <1>5, <1>6 DEF Requests
<1> HIDE DEF r2
<1>8. /\ req' \in [Workers -> Requests] /\ req'[w] = r2
      /\ \A u \in Workers : u # w => req'[u] = req[u]
  BY <1>1, <1>2, <1>7
<1> QED
  BY <1>1, <1>7, <1>8 DEF m, st, td, ps, ts, un

\* The movement is in; it was the first of those to come.
LEMMA FlushKeepsStock ==
  ASSUME StockIInv, NEW w \in Workers, Flush(w)
  PROVE  StockIInv'
<1> DEFINE m == Current(w)
           todo == req[w].todo
           i == m.key[1]
<1>1. /\ req[w].step = "flush" /\ TypeOK
  BY DEF Flush, StockIInv
<1>2. RequestIsSound(w) /\ req[w].todo # <<>> /\ TransferIsWhole(todo) /\ m.type # "transfer_out"
  BY <1>1 DEF StockIInv, RequestsAreSound, RequestIsSound
<1>3. /\ todo \in Seq(Moves) /\ m = todo[1] /\ m.key \in Keys /\ i \in Items
      /\ 1 \in DOMAIN todo /\ DOMAIN todo = 1..Len(todo) /\ Len(todo) \in Nat \ {0}
      /\ Tail(todo) \in Seq(Moves) /\ Len(Tail(todo)) = Len(todo) - 1
      /\ DOMAIN Tail(todo) = 1..(Len(todo) - 1)
      /\ \A n \in 1..(Len(todo) - 1) : Tail(todo)[n] = todo[n + 1]
      /\ itemShares \in [Items -> SUBSET Workers]
  BY <1>1, <1>2, CurrentTypes, RequestTypes, Sequences DEF TypeOK
<1>4. /\ bin[m.key[2]] # "absent" /\ itemLock[i] \in {NoOne, w}
      /\ itemShares' = [itemShares EXCEPT ![i] = @ \cup {w}]
      /\ req' \in [Workers -> Requests] /\ \A u \in Workers : u # w => req'[u] = req[u]
      /\ req'[w].step = (IF Tail(todo) = <<>> THEN "commit" ELSE "lock")
      /\ req'[w].todo = Tail(todo)
      /\ req'[w].level = req[w].level /\ req'[w].delta = req[w].delta
      /\ req'[w].item = req[w].item /\ req'[w].entry = req[w].entry
      /\ UNCHANGED <<rows, level, moved, opening, entered, used, unit>>
      /\ UNCHANGED <<bin, tracking, price, docStatus, posted, rowLock, itemLock>>
  BY <1>1, <1>2, FlushFacts
<1> HIDE DEF todo, m, i
<1>5. OthersLockedAsBefore(w) /\ TypeOK'
  <2>1. \A u \in Workers, j \in Items : u # w => (u \in itemShares'[j] <=> u \in itemShares[j])
    BY <1>3, <1>4
  <2>2. itemShares' \in [Items -> SUBSET Workers]
    BY <1>3, <1>4
  <2>3. OthersLockedAsBefore(w)
    BY <1>4, <2>1 DEF OthersLockedAsBefore
  <2>4. TypeOK'
    BY <1>1, <1>4, <2>2 DEF TypeOK
  <2> QED
    BY <2>3, <2>4
<1>6. RequestIsSound(w)'
  <2>1. \A n \in DOMAIN Tail(todo) : Tail(todo)[n].type # "transfer_out"
    <3>1. ASSUME NEW n \in DOMAIN Tail(todo) PROVE Tail(todo)[n].type # "transfer_out"
      <4>1. Tail(todo)[n] = todo[n + 1] /\ n + 1 \in DOMAIN todo /\ n + 1 # 1
        BY <1>3
      <4> QED
        BY <1>2, <4>1 DEF TransferIsWhole
    <3> QED
      BY <3>1
  <2> QED
    BY <1>4, <2>1 DEF RequestIsSound, TransferIsWhole
<1>7. ASSUME NEW j \in Keys
      PROVE  IF rowLock'[j] = w THEN RowHolder(j, w)' ELSE req'[w].delta[j] = 0
  <2>1. IF rowLock[j] = w THEN RowHolder(j, w) ELSE req[w].delta[j] = 0
    BY DEF StockIInv, LevelsIInv
  <2>2. CASE rowLock[j] = w
    <3>1. j[1] \in Items
      BY KeysArePairs
    <3>2. w \in itemShares[j[1]] \/ j[1] = i
      BY <2>1, <2>2 DEF RowHolder, i, m
    <3>3. w \in itemShares'[j[1]]
      BY <1>3, <1>4, <3>1, <3>2
    <3>4. /\ req'[w].step # "idle" /\ req'[w].level[j] = req[w].level[j]
          /\ req'[w].delta[j] = req[w].delta[j] /\ level' = level
      BY <1>4
    <3> QED
      BY <1>4, <2>1, <2>2, <3>3, <3>4 DEF RowHolder
  <2> QED
    BY <1>4, <2>1, <2>2
<1>8. \A j \in Keys : bin[j[2]] = "absent" => rowLock'[j] # w
  BY <1>1, <1>4 DEF StockIInv, BinsIInv, m
<1>9. /\ \A j \in Items : itemLock'[j] = w <=> req'[w].item = j
      /\ \A j \in Items : itemLock'[j] # NoOne =>
                            j \notin used /\ itemShares'[j] \subseteq {itemLock'[j]}
  BY <1>3, <1>4 DEF StockIInv, OpeningsIInv, ItemsAreLocked
<1>10. ASSUME req'[w].item # NoOne PROVE OpeningIsUnderWay(w)'
  <2> DEFINE o == req[w].item
  <2>1. OpeningIsUnderWay(w) /\ req'[w].item = o
    BY <1>4, <1>10 DEF StockIInv, OpeningsIInv
  <2> HIDE DEF o
  <2>2. /\ \A n \in DOMAIN todo : todo[n].key[1] = o /\ todo[n].type = "opening"
        /\ \A n, a \in Pending(w) : todo[n].key = todo[a].key => n = a
        /\ \A j \in Keys : rowLock[j] = w => j[1] = o
        /\ \A n \in Pending(w) : /\ req[w].delta[todo[n].key] = 0
                                 /\ opening[todo[n].key] + todo[n].delta
                                      = req[w].entry[todo[n].key[2]]
        /\ \A p \in Places :
              \/ \E n \in Pending(w) : todo[n].key = <<o, p>>
              \/ opening[<<o, p>>] + req[w].delta[<<o, p>>] = req[w].entry[p]
    BY <2>1 DEF OpeningIsUnderWay, todo, o
  <2>3. Pending(w) = {n \in DOMAIN todo : n > 1}
    BY <1>1 DEF Pending, todo
  <2>4. Pending(w)' = DOMAIN Tail(todo)
    BY <1>4 DEF Pending
  <2>5. \A n \in DOMAIN Tail(todo) : n \in Int /\ n + 1 \in Pending(w) /\ Tail(todo)[n] = todo[n + 1]
    BY <1>3, <2>3
  <2>6. \A a \in Pending(w) : a - 1 \in DOMAIN Tail(todo) /\ Tail(todo)[a - 1] = todo[a]
    BY <1>3, <2>3
  <2>7. \A n \in DOMAIN Tail(todo) : Tail(todo)[n].key[1] = o /\ Tail(todo)[n].type = "opening"
    BY <2>2, <2>3, <2>5
  <2>8. \A n, a \in DOMAIN Tail(todo) : Tail(todo)[n].key = Tail(todo)[a].key => n = a
    <3>1. ASSUME NEW n \in DOMAIN Tail(todo), NEW a \in DOMAIN Tail(todo),
                 Tail(todo)[n].key = Tail(todo)[a].key
          PROVE  n = a
      <4>1. n + 1 = a + 1
        BY <2>2, <2>5, <3>1
      <4>2. n \in Int /\ a \in Int
        BY <2>5
      <4> QED
        BY <4>1, <4>2
    <3> QED
      BY <3>1
  <2>9. \A n \in DOMAIN Tail(todo) :
           /\ req[w].delta[Tail(todo)[n].key] = 0
           /\ opening[Tail(todo)[n].key] + Tail(todo)[n].delta
                = req[w].entry[Tail(todo)[n].key[2]]
    BY <2>2, <2>5
  <2>10. \A p \in Places :
              \/ \E n \in DOMAIN Tail(todo) : Tail(todo)[n].key = <<o, p>>
              \/ opening[<<o, p>>] + req[w].delta[<<o, p>>] = req[w].entry[p]
    <3>1. ASSUME NEW p \in Places, NEW a \in Pending(w), todo[a].key = <<o, p>>
          PROVE  \E n \in DOMAIN Tail(todo) : Tail(todo)[n].key = <<o, p>>
      BY <2>6, <3>1
    <3> QED
      BY <2>2, <3>1
  <2>11. /\ req'[w].todo = Tail(todo) /\ req'[w].delta = req[w].delta
         /\ req'[w].entry = req[w].entry /\ rowLock' = rowLock /\ opening' = opening
         /\ req'[w].item = o
    BY <1>4, <2>1
  <2>12. \A j \in Keys : rowLock[j] = w => j[1] = o
    BY <2>2
  <2>13. \A n \in DOMAIN req'[w].todo :
            req'[w].todo[n].key[1] = req'[w].item /\ req'[w].todo[n].type = "opening"
    BY <2>7, <2>11
  <2>14. \A n, a \in Pending(w)' : req'[w].todo[n].key = req'[w].todo[a].key => n = a
    BY <2>4, <2>8, <2>11
  <2>15. \A n \in Pending(w)' :
            /\ req'[w].delta[req'[w].todo[n].key] = 0
            /\ opening'[req'[w].todo[n].key] + req'[w].todo[n].delta
                 = req'[w].entry[req'[w].todo[n].key[2]]
    BY <2>4, <2>9, <2>11
  <2>16. \A p \in Places :
            \/ \E n \in Pending(w)' : req'[w].todo[n].key = <<req'[w].item, p>>
            \/ opening'[<<req'[w].item, p>>] + req'[w].delta[<<req'[w].item, p>>]
                 = req'[w].entry[p]
    BY <2>4, <2>10, <2>11
  <2>17. \A j \in Keys : rowLock'[j] = w => j[1] = req'[w].item
    BY <2>11, <2>12
  <2> QED
    BY <2>13, <2>14, <2>15, <2>16, <2>17 DEF OpeningIsUnderWay
<1> QED
  BY <1>4, <1>5, <1>6, <1>7, <1>8, <1>9, <1>10, OwnStepKeepsStock

LEMMA CommitFacts ==
  ASSUME StockIInv, NEW w \in Workers, Commit(w)
  PROVE  /\ EndOf(w) /\ req[w].step = "commit" /\ req[w].todo = <<>>
         /\ rows' = rows \cup {k \in Keys : rowLock[k] = w}
         /\ level' = [k \in Keys |-> IF rowLock[k] = w THEN req[w].level[k] ELSE level[k]]
         /\ moved' = [k \in Keys |-> moved[k] + req[w].delta[k]]
         /\ UNCHANGED <<bin, tracking, price>>
         /\ \/ /\ req[w].item = NoOne /\ opening' = opening /\ entered' = entered
               /\ used' = used \cup {k[1] : k \in {j \in Keys : rowLock[j] = w}}
            \/ /\ req[w].item # NoOne /\ used' = used
               /\ opening' = [k \in Keys |-> opening[k] + req[w].delta[k]]
               /\ entered' = [k \in Keys |-> IF k[1] = req[w].item
                                             THEN req[w].entry[k[2]] ELSE entered[k]]
<1>1. req[w].step = "commit"
  BY DEF Commit
<1>2. req[w].todo = <<>>
  BY <1>1 DEF StockIInv, RequestsAreSound, RequestIsSound
<1> QED
  BY <1>1, <1>2 DEF Commit, Held, itemVars

LEMMA CommitKeepsTypes ==
  ASSUME StockIInv, NEW w \in Workers, Commit(w)
  PROVE  TypeOK'
<1>1. TypeOK /\ EndOf(w)
  BY CommitFacts DEF StockIInv
<1>2. /\ rowLock' \in [Keys -> Workers \cup {NoOne}] /\ itemLock' \in [Items -> Workers \cup {NoOne}]
      /\ itemShares' \in [Items -> SUBSET Workers] /\ req' \in [Workers -> Requests]
  BY <1>1, EndFacts
<1>3. /\ \A k \in Keys : req[w].level[k] \in Int /\ req[w].delta[k] \in Int
      /\ \A p \in Places : req[w].entry[p] \in Nat
      /\ req[w].posted \in Seq(Moves)
  BY <1>1, RequestTypes
<1>4. /\ \A k \in Keys : level[k] \in Int /\ moved[k] \in Int
                         /\ opening[k] \in Int /\ entered[k] \in Int
      /\ rows \in SUBSET Keys /\ used \in SUBSET Items
  BY <1>1 DEF TypeOK
<1>5. rows' \in SUBSET Keys /\ level' \in [Keys -> Int]
  BY <1>3, <1>4, CommitFacts
<1>6. moved' \in [Keys -> Int]
  <2>1. \A k \in Keys : moved[k] + req[w].delta[k] \in Int
    BY <1>3, <1>4
  <2> QED
    BY <2>1, CommitFacts
<1>7. opening' \in [Keys -> Int] /\ entered' \in [Keys -> Int] /\ used' \in SUBSET Items
  <2>1. \A k \in Keys : opening[k] + req[w].delta[k] \in Int
    BY <1>3, <1>4
  <2>2. \A k \in Keys : (IF k[1] = req[w].item THEN req[w].entry[k[2]] ELSE entered[k]) \in Int
    BY <1>3, <1>4, KeysArePairs
  <2>3. used \cup {k[1] : k \in {j \in Keys : rowLock[j] = w}} \in SUBSET Items
    BY <1>4, KeysArePairs
  <2>4. opening \in [Keys -> Int] /\ entered \in [Keys -> Int]
    BY <1>1 DEF TypeOK
  <2>5. CASE opening' = opening /\ entered' = entered
               /\ used' = used \cup {k[1] : k \in {j \in Keys : rowLock[j] = w}}
    BY <2>3, <2>4, <2>5
  <2>6. CASE /\ used' = used
             /\ opening' = [k \in Keys |-> opening[k] + req[w].delta[k]]
             /\ entered' = [k \in Keys |-> IF k[1] = req[w].item
                                           THEN req[w].entry[k[2]] ELSE entered[k]]
    BY <1>4, <2>1, <2>2, <2>6
  <2> QED
    BY <2>5, <2>6, CommitFacts
<1>8. unit' \in [Serials -> Units]
  <2>1. req[w].unit \in [Serials -> Units] /\ unit \in [Serials -> Units]
    <3>1. req[w] \in Requests
      BY <1>1 DEF TypeOK
    <3> QED
      BY <1>1, <3>1 DEF Requests, TypeOK
  <2>2. unit' = [s \in Serials |-> IF s \in req[w].touched THEN req[w].unit[s] ELSE unit[s]]
    BY DEF Commit
  <2> QED
    BY <2>1, <2>2
<1>9. docStatus' \in [Docs -> {"draft", "sent", "void"}] /\ posted' \in [Docs -> Seq(Moves)]
  <2>1. /\ docStatus \in [Docs -> {"draft", "sent", "void"}] /\ posted \in [Docs -> Seq(Moves)]
        /\ req[w].doc \in Docs \cup {NoOne}
    <3>1. req[w] \in Requests
      BY <1>1 DEF TypeOK
    <3> QED
      BY <1>1, <3>1 DEF Requests, TypeOK
  <2>2. CASE req[w].doc = NoOne
    BY <2>1, <2>2 DEF Commit, docVars
  <2>3. CASE req[w].doc # NoOne
    <3>1. /\ docStatus' = [docStatus EXCEPT ![req[w].doc] = DocDone(req[w].doc)]
          /\ posted' = [posted EXCEPT ![req[w].doc] = posted[req[w].doc] \o req[w].posted]
          /\ req[w].doc \in Docs
      BY <2>1, <2>3 DEF Commit
    <3>2. DocDone(req[w].doc) \in {"draft", "sent", "void"}
      BY DEF DocDone
    <3>3. posted[req[w].doc] \o req[w].posted \in Seq(Moves)
      BY <1>3, <2>1, <3>1
    <3> QED
      BY <2>1, <3>1, <3>2, <3>3
  <2> QED
    BY <2>2, <2>3
<1>10. UNCHANGED <<bin, tracking, price>>
  BY CommitFacts
<1> QED
  BY <1>1, <1>2, <1>5, <1>6, <1>7, <1>8, <1>9, <1>10 DEF TypeOK

\* What w read and added under the locks of its level rows becomes the level.
LEMMA CommitKeepsLevels ==
  ASSUME StockIInv, NEW w \in Workers, Commit(w)
  PROVE  LevelsIInv' /\ BinsIInv'
<1>1. TypeOK /\ EndOf(w) /\ OthersLockedAsBefore(w)
  BY CommitFacts, EndFacts DEF StockIInv
<1>2. /\ \A k \in Keys : /\ req[w].level[k] \in Int /\ req[w].delta[k] \in Int
                         /\ level[k] \in Int /\ moved[k] \in Int
      /\ rowLock \in [Keys -> Workers \cup {NoOne}]
  BY <1>1, RequestTypes DEF TypeOK
<1>3. ASSUME NEW k \in Keys
      PROVE  /\ level'[k] = level[k] + req[w].delta[k] /\ moved'[k] = moved[k] + req[w].delta[k]
             /\ level'[k] >= 0 /\ level[k] = moved[k]
             /\ rowLock[k] # w => level'[k] = level[k]
  <2>1. /\ level'[k] = IF rowLock[k] = w THEN req[w].level[k] ELSE level[k]
        /\ moved'[k] = moved[k] + req[w].delta[k]
    BY CommitFacts
  <2>2. /\ IF rowLock[k] = w THEN RowHolder(k, w) ELSE req[w].delta[k] = 0
        /\ level[k] = moved[k] /\ level[k] >= 0
    BY DEF StockIInv, LevelsIInv
  <2>3. CASE rowLock[k] = w
    BY <2>1, <2>2, <2>3 DEF RowHolder
  <2>4. CASE rowLock[k] # w
    BY <1>2, <2>1, <2>2, <2>4
  <2> QED
    BY <2>3, <2>4
<1>4. \A k \in Keys : level'[k] = moved'[k] /\ level'[k] >= 0
  BY <1>3
<1>5. \A k \in Keys \ rows' : level'[k] = 0
  <2>1. ASSUME NEW k \in Keys, k \notin rows' PROVE level'[k] = 0
    <3>1. k \notin rows /\ rowLock[k] # w
      BY <2>1, CommitFacts
    <3> QED
      BY <1>3, <3>1 DEF StockIInv, LevelsIInv
  <2> QED
    BY <2>1
<1>6. ASSUME NEW k \in Keys, NEW u \in Workers
      PROVE  IF rowLock'[k] = u THEN RowHolder(k, u)' ELSE req'[u].delta[k] = 0
  <2>1. CASE u = w
    BY <1>1, <2>1, EndFacts, IdleIsRequest
  <2>2. CASE u # w
    <3>1. req'[u] = req[u] /\ (rowLock'[k] = u <=> rowLock[k] = u)
      BY <1>1, <2>2 DEF OthersLockedAsBefore
    <3>2. IF rowLock[k] = u THEN RowHolder(k, u) ELSE req[u].delta[k] = 0
      BY DEF StockIInv, LevelsIInv
    <3>3. rowLock[k] = u => level'[k] = level[k]
      BY <1>3, <2>2
    <3>4. rowLock[k] = u => RowHolder(k, u)'
      BY <1>1, <2>2, <3>2, <3>3, OthersStand DEF StockIInv
    <3> QED
      BY <3>1, <3>2, <3>4
  <2> QED
    BY <2>1, <2>2
<1>7. LevelsIInv'
  BY <1>4, <1>5, <1>6 DEF LevelsIInv
<1>8. ASSUME NEW k \in Keys, bin'[k[2]] = "absent"
      PROVE  k \notin rows' /\ (rowLock'[k] # NoOne =>
                req'[rowLock'[k]].step = "flush" /\ Head(req'[rowLock'[k]].todo).key = k)
  <2>1. k \notin rows /\ (rowLock[k] # NoOne =>
             req[rowLock[k]].step = "flush" /\ Current(rowLock[k]).key = k)
    BY <1>8, CommitFacts DEF StockIInv, BinsIInv
  <2>2. w # NoOne
    OBVIOUS
  <2>3. rowLock[k] # w
    BY <2>1, <2>2, CommitFacts
  <2>4. k \notin rows'
    BY <2>1, <2>3, CommitFacts
  <2>5. CASE rowLock'[k] # NoOne
    <3>1. rowLock'[k] = rowLock[k] /\ rowLock[k] \in Workers /\ rowLock[k] # w
      BY <1>1, <1>2, <2>3, <2>5, EndFacts
    <3>2. req'[rowLock[k]] = req[rowLock[k]]
      BY <1>1, <3>1 DEF OthersLockedAsBefore
    <3> QED
      BY <2>1, <2>4, <2>5, <3>1, <3>2 DEF Current
  <2> QED
    BY <2>4, <2>5
<1>9. BinsIInv'
  BY <1>8 DEF BinsIInv, Current
<1> QED
  BY <1>7, <1>9

\* The opening stock of an item is committed as it was entered; who sets that of
\* another item read it beside w, and is not disturbed.
LEMMA CommitKeepsOpenings ==
  ASSUME StockIInv, NEW w \in Workers, Commit(w)
  PROVE  OpeningsIInv'
<1>1. /\ TypeOK /\ EndOf(w) /\ OthersLockedAsBefore(w) /\ req[w].todo = <<>>
      /\ RequestsAreSound /\ OpeningsIInv /\ ItemsAreLocked /\ opening = entered
  BY CommitFacts, EndFacts DEF StockIInv, OpeningsIInv
<1>2. /\ \A k \in Keys : req[w].delta[k] \in Int /\ opening[k] \in Int
      /\ req[w].item \in Items \cup {NoOne}
  BY <1>1, RequestTypes DEF TypeOK
<1>3. \A k \in Keys : rowLock[k] # w => req[w].delta[k] = 0
  BY DEF StockIInv, LevelsIInv
<1>4. ItemsAreLocked'
  <2>1. ASSUME NEW i \in Items, itemLock'[i] # NoOne, i \in used' PROVE i \in used
    <3> SUFFICES ASSUME i \notin used PROVE FALSE
      OBVIOUS
    <3>1. used' = used \cup {k[1] : k \in {j \in Keys : rowLock[j] = w}}
      BY <2>1, CommitFacts
    <3>2. PICK k \in Keys : rowLock[k] = w /\ k[1] = i
      BY <2>1, <3>1
    <3>3. w \in itemShares[i]
      BY <1>1, <3>2 DEF StockIInv, LevelsIInv, RowHolder
    <3>4. itemLock'[i] = itemLock[i] /\ itemLock'[i] # w
      BY <1>1, <2>1, EndFacts
    <3> QED
      BY <1>1, <2>1, <3>3, <3>4 DEF ItemsAreLocked
  <2> QED
    BY <1>1, <2>1, EndKeepsItems
<1>5. CASE req[w].item = NoOne
  <2>1. opening' = opening /\ entered' = entered
    BY <1>5, CommitFacts
  <2>2. ASSUME NEW u \in Workers, req'[u].item # NoOne PROVE OpeningIsUnderWay(u)'
    <3>1. u # w /\ req'[u] = req[u]
      BY <1>1, <2>2, EndFacts, IdleIsRequest DEF OthersLockedAsBefore
    <3> QED
      BY <1>1, <2>1, <2>2, <3>1, OthersStand
  <2> QED
    BY <1>1, <1>4, <2>1, <2>2 DEF OpeningsIInv
<1>6. CASE req[w].item # NoOne
  <2> DEFINE o == req[w].item
  <2>1. /\ opening' = [k \in Keys |-> opening[k] + req[w].delta[k]]
        /\ entered' = [k \in Keys |-> IF k[1] = o THEN req[w].entry[k[2]] ELSE entered[k]]
    BY <1>6, CommitFacts
  <2>2. OpeningIsUnderWay(w) /\ Pending(w) = {} /\ o \in Items /\ itemLock[o] = w
    BY <1>1, <1>2, <1>6 DEF OpeningsIInv, Pending, ItemsAreLocked
  <2>3. \A k \in Keys : k[1] # o => req[w].delta[k] = 0
    BY <1>3, <2>2 DEF OpeningIsUnderWay
  <2>4. \A p \in Places : opening[<<o, p>>] + req[w].delta[<<o, p>>] = req[w].entry[p]
    BY <2>2 DEF OpeningIsUnderWay
  <2> HIDE DEF o
  <2>5. \A k \in Keys : k[1] # o => opening[k] + req[w].delta[k] = opening[k]
    BY <1>2, <2>3
  <2>6. ASSUME NEW k \in Keys PROVE opening'[k] = entered'[k]
    <3>1. CASE k[1] = o
      <4>1. k = <<o, k[2]>> /\ k[2] \in Places
        BY <3>1, KeysArePairs
      <4>2. opening[k] + req[w].delta[k] = req[w].entry[k[2]]
        BY <2>4, <4>1
      <4> QED
        BY <2>1, <3>1, <4>2
    <3>2. CASE k[1] # o
      BY <1>1, <2>1, <2>5, <3>2
    <3> QED
      BY <3>1, <3>2
  <2>7. opening' = entered'
    BY <2>1, <2>6
  <2>8. ASSUME NEW u \in Workers, req'[u].item # NoOne PROVE OpeningIsUnderWay(u)'
    <3>1. u # w /\ req'[u] = req[u]
      BY <1>1, <2>8, EndFacts, IdleIsRequest DEF OthersLockedAsBefore
    <3>2. req[u].item # o
      BY <1>1, <2>2, <3>1 DEF ItemsAreLocked
    <3>3. \A k \in Keys : k[1] = req[u].item => opening'[k] = opening[k]
      BY <2>1, <2>5, <3>2
    <3> QED
      BY <1>1, <2>8, <3>1, <3>3, OthersStand
  <2> QED
    BY <1>4, <2>7, <2>8 DEF OpeningsIInv
<1> QED
  BY <1>5, <1>6

LEMMA CommitKeepsStock ==
  ASSUME StockIInv, NEW w \in Workers, Commit(w)
  PROVE  StockIInv'
<1>1. RequestsAreSound'
  BY CommitFacts, EndKeepsRequests DEF StockIInv
<1> QED
  BY <1>1, CommitKeepsTypes, CommitKeepsLevels, CommitKeepsOpenings DEF StockIInv

-----------------------------------------------------------------------------
(* Bins, prices and tracking modes; the theorems.                           *)

\* What is no request's business.
LEMMA ItemStepsKeepStock ==
  ASSUME StockIInv,
         UNCHANGED <<rows, level, moved, opening, entered, used, unit, docStatus, posted,
                     rowLock, itemLock, itemShares, req>>,
         bin'      \in [Places -> {"active", "inactive", "absent"}],
         tracking' \in [Items -> {"none", "serial"}],
         price'    \in [Items -> Costs],
         \A p \in Places : bin'[p] = "absent" /\ bin[p] # "absent" =>
              \A k \in Keys : k[2] = p => k \notin rows /\ rowLock[k] = NoOne
  PROVE  StockIInv'
<1>1. TypeOK'
  BY DEF StockIInv, TypeOK
<1>2. RequestsAreSound' /\ LevelsIInv'
  <2>1. \A w \in Workers : RequestIsSound(w)' <=> RequestIsSound(w)
    BY DEF RequestIsSound, Current
  <2>2. \A k \in Keys, w \in Workers : RowHolder(k, w)' <=> RowHolder(k, w)
    BY DEF RowHolder, Current
  <2> QED
    BY <2>1, <2>2 DEF StockIInv, RequestsAreSound, LevelsIInv
<1>3. BinsIInv'
  <2>1. \A k \in Keys : k[2] \in Places
    BY KeysArePairs
  <2> QED
    BY <2>1 DEF StockIInv, BinsIInv, Current
<1>4. OpeningsIInv'
  <2>1. \A w \in Workers : OpeningIsUnderWay(w)' <=> OpeningIsUnderWay(w)
    BY DEF OpeningIsUnderWay, Pending
  <2>2. ItemsAreLocked'
    BY DEF StockIInv, OpeningsIInv, ItemsAreLocked
  <2> QED
    BY <2>1, <2>2 DEF StockIInv, OpeningsIInv
<1> QED
  BY <1>1, <1>2, <1>3, <1>4 DEF StockIInv

LEMMA BinStepsKeepStock ==
  ASSUME StockIInv, NEW p \in Bins, DeactivateBin(p) \/ ActivateBin(p) \/ DeleteBin(p)
  PROVE  StockIInv'
<1>1. bin \in [Places -> {"active", "inactive", "absent"}] /\ p \in Places
  BY BinsAssumption DEF StockIInv, TypeOK
<1>2. /\ UNCHANGED <<rows, level, moved, opening, entered, used, unit, docStatus, posted,
                     rowLock, itemLock, itemShares, req, tracking, price>>
      /\ \/ bin' = [bin EXCEPT ![p] = "inactive"] \/ bin' = [bin EXCEPT ![p] = "active"]
         \/ bin' = [bin EXCEPT ![p] = "absent"] /\ ~ BinUsed(p) /\ ~ BinShared(p)
  BY DEF DeactivateBin, ActivateBin, DeleteBin, stockVars, docVars, lockVars
<1>3. bin' \in [Places -> {"active", "inactive", "absent"}]
  BY <1>1, <1>2
<1>4. \A q \in Places : bin'[q] = "absent" /\ bin[q] # "absent" =>
              \A k \in Keys : k[2] = q => k \notin rows /\ rowLock[k] = NoOne
  BY <1>1, <1>2 DEF BinUsed, BinShared
<1>5. tracking' \in [Items -> {"none", "serial"}] /\ price' \in [Items -> Costs]
  BY <1>2 DEF StockIInv, TypeOK
<1> QED
  BY <1>2, <1>3, <1>4, <1>5, ItemStepsKeepStock

LEMMA PriceStepsKeepStock ==
  ASSUME StockIInv, NEW i \in Items,
         \/ \E c \in Costs : ChangePrice(i, c)
         \/ \E t \in {"none", "serial"} : ChangeTracking(i, t)
  PROVE  StockIInv'
<1>1. /\ UNCHANGED <<rows, level, moved, opening, entered, used, unit, docStatus, posted,
                     rowLock, itemLock, itemShares, req, bin>>
      /\ \/ tracking' = tracking /\ \E c \in Costs : price' = [price EXCEPT ![i] = c]
         \/ price' = price /\ \E t \in {"none", "serial"} :
                                 tracking' = [tracking EXCEPT ![i] = t]
  BY DEF ChangePrice, ChangeTracking, stockVars, docVars, lockVars
<1>2. tracking \in [Items -> {"none", "serial"}] /\ price \in [Items -> Costs]
  BY DEF StockIInv, TypeOK
<1>3. tracking' \in [Items -> {"none", "serial"}] /\ price' \in [Items -> Costs]
  <2>1. CASE \E c \in Costs : price' = [price EXCEPT ![i] = c] /\ tracking' = tracking
    BY <1>2, <2>1
  <2>2. CASE \E t \in {"none", "serial"} :
                tracking' = [tracking EXCEPT ![i] = t] /\ price' = price
    BY <1>2, <2>2
  <2> QED
    BY <1>1, <2>1, <2>2
<1>4. bin' \in [Places -> {"active", "inactive", "absent"}]
  BY <1>1 DEF StockIInv, TypeOK
<1> QED
  BY <1>1, <1>3, <1>4, ItemStepsKeepStock

LEMMA InitIsStock == Init => StockIInv
<1> SUFFICES ASSUME Init PROVE StockIInv
  OBVIOUS
<1>1. TypeOK
  <2>1. Min(Costs) \in Costs
    BY LeastCost
  <2>2. NoUnit \in Units
    BY DEF NoUnit, Units, UnitStates
  <2>3. \A w \in Workers : req[w] = Idle
    BY DEF Init
  <2>4. req \in [Workers -> Requests]
    BY IdleIsRequest DEF Init
  <2>5. posted \in [Docs -> Seq(Moves)] /\ unit \in [Serials -> Units]
    BY <2>2 DEF Init
  <2> QED
    BY <2>1, <2>4, <2>5 DEF Init, TypeOK
<1>2. \A w \in Workers : req[w] = Idle
  BY DEF Init
<1>3. RequestsAreSound
  BY <1>2, IdleIsRequest DEF RequestsAreSound, RequestIsSound, TransferIsWhole
<1>4. LevelsIInv /\ BinsIInv
  <2>1. \A k \in Keys : /\ level[k] = 0 /\ moved[k] = 0 /\ rowLock[k] = NoOne
                        /\ bin[k[2]] = "active"
    BY KeysArePairs DEF Init
  <2>2. \A k \in Keys, w \in Workers : rowLock[k] # w /\ req[w].delta[k] = 0
    BY <1>2, <2>1, IdleIsRequest
  <2> QED
    BY <2>1, <2>2 DEF LevelsIInv, BinsIInv
<1>5. OpeningsIInv
  <2>1. opening = entered /\ \A w \in Workers : req[w].item = NoOne
    BY <1>2, IdleIsRequest DEF Init
  <2>2. ItemsAreLocked
    BY <2>1 DEF ItemsAreLocked, Init
  <2> QED
    BY <2>1, <2>2 DEF OpeningsIInv
<1> QED
  BY <1>1, <1>3, <1>4, <1>5 DEF StockIInv

LEMMA NextKeepsStock == StockIInv /\ [Next]_vars => StockIInv'
<1> SUFFICES ASSUME StockIInv, [Next]_vars PROVE StockIInv'
  OBVIOUS
<1>1. ASSUME NEW w \in Workers,
             Begin(w) \/ Continue(w) \/ Refuse(w) \/ Abort(w) \/ BreakDeadlock(w)
      PROVE  StockIInv'
  <2>1. CASE Begin(w)
    BY <2>1, BeginKeepsStock
  <2>2. CASE Continue(w)
    BY <2>2, LockLevelKeepsStock, MissLevelKeepsStock, InsertLevelKeepsStock,
       FlushKeepsStock, CommitKeepsStock DEF Continue
  <2>3. CASE Refuse(w) \/ Abort(w) \/ BreakDeadlock(w)
    BY <2>3, RollbackKeepsStock DEF Refuse, Abort, BreakDeadlock
  <2> QED
    BY <1>1, <2>1, <2>2, <2>3
<1>2. CASE UNCHANGED vars
  <2>1. UNCHANGED <<rows, level, moved, opening, entered, used, unit, docStatus, posted,
                    rowLock, itemLock, itemShares, req, bin, tracking, price>>
    BY <1>2 DEF vars, stockVars, itemVars, docVars, lockVars
  <2>2. /\ bin' \in [Places -> {"active", "inactive", "absent"}]
        /\ tracking' \in [Items -> {"none", "serial"}] /\ price' \in [Items -> Costs]
    BY <2>1 DEF StockIInv, TypeOK
  <2> QED
    BY <2>1, <2>2, ItemStepsKeepStock
<1> QED
  BY <1>1, <1>2, BinStepsKeepStock, PriceStepsKeepStock DEF Next

\* The invariant holds on every schedule.
THEOREM StockInductive == Spec => []StockIInv
<1> QED
  BY InitIsStock, NextKeepsStock, PTL DEF Spec

-----------------------------------------------------------------------------
(* What follows for the figures.                                            *)

\* The sums of the screens and the reports, in the form the lemmas about sums have.
LEMMA RowSum ==
  ASSUME NEW F, NEW i
  PROVE  MapThenSumSet(LAMBDA p : F[<<i, p>>], Places)
           = SumOf([p \in Places |-> F[<<i, p>>]], Places)
<1> DEFINE f == [p \in Places |-> F[<<i, p>>]]
           A(g) == [s \in SUBSET Places |->
                      IF s = {} THEN 0
                      ELSE F[<<i, CHOOSE x \in s : TRUE>>] + g[s \ {CHOOSE x \in s : TRUE}]]
           B(g) == [s \in SUBSET Places |->
                      IF s = {} THEN 0
                      ELSE f[CHOOSE x \in s : TRUE] + g[s \ {CHOOSE x \in s : TRUE}]]
<1>1. \A g : A(g) = B(g)
  OBVIOUS
<1>2. MapThenSumSet(LAMBDA p : F[<<i, p>>], Places) = (CHOOSE g : g = A(g))[Places]
  BY DEF MapThenSumSet, MapThenFoldSet
<1>3. SumOf(f, Places) = (CHOOSE g : g = B(g))[Places]
  BY DEF SumOf, MapThenSumSet, MapThenFoldSet
<1>4. (CHOOSE g : g = A(g)) = (CHOOSE g : g = B(g))
  <2> HIDE DEF A, B
  <2> QED BY <1>1
<1> QED
  BY <1>2, <1>3, <1>4

LEMMA OnHandAsSum ==
  ASSUME NEW i
  PROVE  ItemStock(i).on_hand = SumOf([p \in Places |-> level[<<i, p>>]], Places)
<1>1. ItemStock(i).on_hand = MapThenSumSet(LAMBDA p : level[<<i, p>>], Places)
  BY DEF ItemStock, OnHand
<1>2. MapThenSumSet(LAMBDA p : level[<<i, p>>], Places)
        = SumOf([p \in Places |-> level[<<i, p>>]], Places)
  BY RowSum
<1> QED
  BY <1>1, <1>2

LEMMA ItemsAsSum ==
  MapThenSumSet(LAMBDA i : ItemStock(i).on_hand, Items)
    = SumOf([i \in Items |-> SumOf([p \in Places |-> level[<<i, p>>]], Places)], Items)
<1> DEFINE f == [i \in Items |-> SumOf([p \in Places |-> level[<<i, p>>]], Places)]
           A(g) == [s \in SUBSET Items |->
                      IF s = {} THEN 0
                      ELSE ItemStock(CHOOSE x \in s : TRUE).on_hand
                             + g[s \ {CHOOSE x \in s : TRUE}]]
           B(g) == [s \in SUBSET Items |->
                      IF s = {} THEN 0
                      ELSE f[CHOOSE x \in s : TRUE] + g[s \ {CHOOSE x \in s : TRUE}]]
<1>1. \A i \in Items : ItemStock(i).on_hand = f[i]
  BY OnHandAsSum
<1>2. SumOf(f, Items) = (CHOOSE g : g = B(g))[Items]
  BY DEF SumOf, MapThenSumSet, MapThenFoldSet
<1>3. MapThenSumSet(LAMBDA i : ItemStock(i).on_hand, Items) = (CHOOSE g : g = A(g))[Items]
  BY DEF MapThenSumSet, MapThenFoldSet
<1> HIDE DEF f
<1>4. \A g : A(g) = B(g)
  BY <1>1
<1>5. (CHOOSE g : g = A(g)) = (CHOOSE g : g = B(g))
  <2> HIDE DEF A, B
  <2> QED BY <1>4
<1> QED
  BY <1>2, <1>3, <1>5 DEF f

LEMMA PlacesAsSum ==
  MapThenSumSet(LAMBDA p : InventorySummary({p}), Places)
    = SumOf([p \in Places |-> SumOf(level, Items \X {p})], Places)
<1> DEFINE f == [p \in Places |-> SumOf(level, Items \X {p})]
           A(g) == [s \in SUBSET Places |->
                      IF s = {} THEN 0
                      ELSE InventorySummary({CHOOSE x \in s : TRUE})
                             + g[s \ {CHOOSE x \in s : TRUE}]]
           B(g) == [s \in SUBSET Places |->
                      IF s = {} THEN 0
                      ELSE f[CHOOSE x \in s : TRUE] + g[s \ {CHOOSE x \in s : TRUE}]]
<1>1. \A p \in Places : InventorySummary({p}) = f[p]
  BY DEF InventorySummary, SumOf
<1>2. SumOf(f, Places) = (CHOOSE g : g = B(g))[Places]
  BY DEF SumOf, MapThenSumSet, MapThenFoldSet
<1>3. MapThenSumSet(LAMBDA p : InventorySummary({p}), Places) = (CHOOSE g : g = A(g))[Places]
  BY DEF MapThenSumSet, MapThenFoldSet
<1> HIDE DEF f
<1>4. ASSUME NEW g PROVE A(g) = B(g)
  <2>1. ASSUME NEW s \in SUBSET Places, s # {}
        PROVE  InventorySummary({CHOOSE x \in s : TRUE}) = f[CHOOSE x \in s : TRUE]
    <3>1. (CHOOSE x \in s : TRUE) \in Places
      BY <2>1
    <3> QED
      BY <1>1, <3>1
  <2> QED
    BY <2>1
<1>5. (CHOOSE g : g = A(g)) = (CHOOSE g : g = B(g))
  <2> HIDE DEF A, B
  <2> QED BY <1>4
<1> QED
  BY <1>2, <1>3, <1>5 DEF f

LEMMA LevelsAddUp == StockIInv => LevelIsLedger
<1> SUFFICES ASSUME StockIInv PROVE LevelIsLedger
  OBVIOUS
<1>1. \A k \in Keys : level[k] = moved[k] /\ level[k] >= 0 /\ level[k] \in Int
  BY DEF StockIInv, TypeOK, LevelsIInv
<1>2. MapThenSumSet(LAMBDA k : moved[k], Keys) = SumOf(moved, Keys)
  BY DEF SumOf
<1>3. IsFiniteSet(Keys)
  BY FS_Product DEF Keys
<1>4. SumOf(moved, Keys) = SumOf(level, Keys)
  BY <1>1, <1>3, SumsAgree
<1>5. SumOf([i \in Items |-> SumOf([p \in Places |-> level[<<i, p>>]], Places)], Items)
        = SumOf(level, Keys)
  BY <1>1, SumByRows DEF Keys
<1>6. SumOf([p \in Places |-> SumOf(level, Items \X {p})], Places) = SumOf(level, Keys)
  BY <1>1, SumByColumns DEF Keys
<1> QED
  BY <1>1, <1>2, <1>4, <1>5, <1>6, ItemsAsSum, PlacesAsSum DEF LevelIsLedger

LEMMA OpeningAsSum ==
  ASSUME NEW i
  PROVE  /\ ItemStock(i).opening_stock = SumOf([p \in Places |-> opening[<<i, p>>]], Places)
         /\ MapThenSumSet(LAMBDA p : entered[<<i, p>>], Places)
              = SumOf([p \in Places |-> entered[<<i, p>>]], Places)
<1>1. ItemStock(i).opening_stock = MapThenSumSet(LAMBDA p : opening[<<i, p>>], Places)
  BY DEF ItemStock
<1>2. MapThenSumSet(LAMBDA p : opening[<<i, p>>], Places)
        = SumOf([p \in Places |-> opening[<<i, p>>]], Places)
  BY RowSum
<1>3. MapThenSumSet(LAMBDA p : entered[<<i, p>>], Places)
        = SumOf([p \in Places |-> entered[<<i, p>>]], Places)
  BY RowSum
<1> QED
  BY <1>1, <1>2, <1>3

LEMMA OpeningsAddUp == opening = entered => OpeningIsAsEntered
<1> SUFFICES ASSUME opening = entered PROVE OpeningIsAsEntered
  OBVIOUS
<1>1. ASSUME NEW i \in Items
      PROVE  ItemStock(i).opening_stock = MapThenSumSet(LAMBDA p : entered[<<i, p>>], Places)
  BY OpeningAsSum
<1> QED
  BY <1>1 DEF OpeningIsAsEntered

\* Committed levels are what the movements add up to and never negative, and the
\* inventory summaries of all places, the items' pages and the movements agree.
THEOREM LevelsMatchLedger == Spec => []LevelIsLedger
<1> QED
  BY StockInductive, LevelsAddUp, PTL

\* The movements of opening stock add up to what was entered last.
THEOREM OpeningsMatchEntries == Spec => []OpeningIsAsEntered
<1>1. StockIInv => OpeningIsAsEntered
  BY OpeningsAddUp DEF StockIInv, OpeningsIInv
<1> QED
  BY <1>1, StockInductive, PTL

\* Nothing was ever moved in a bin that has been deleted.
THEOREM DeletedBinsAreUnused == Spec => []DeletedBinIsUnused
<1>1. StockIInv => DeletedBinIsUnused
  BY DEF StockIInv, LevelsIInv, BinsIInv, DeletedBinIsUnused
<1> QED
  BY <1>1, StockInductive, PTL

\* No opening movement comes after a movement of another kind.
THEOREM OpeningsComeFirst == Spec => OpeningComesFirst
<1>1. StockIInv /\ [Next]_vars
        => [\A k \in Keys : opening'[k] # opening[k] => k[1] \notin used]_vars
  <2> SUFFICES ASSUME StockIInv, Next, NEW k \in Keys, opening'[k] # opening[k]
               PROVE  k[1] \notin used
    OBVIOUS
  <2>1. PICK w \in Workers : Commit(w)
    <3>1. ASSUME NEW w \in Workers, Begin(w) PROVE opening' = opening
      <4>1. \A moves, r : Start(w, moves, r) => opening' = opening
        BY DEF Start, stockVars
      <4>2. ASSUME NEW k2 \in Keys, Revalue(w, k2) PROVE opening' = opening
        BY <4>1, <4>2 DEF Revalue
      <4>3. ASSUME NEW k2 \in Keys, NEW n \in Quantities, NEW S \in SUBSET Serials,
                   Receive(w, k2, n, S) \/ Remove(w, k2, n, S)
            PROVE  opening' = opening
        BY <4>1, <4>3 DEF Receive, Remove
      <4>4. ASSUME NEW i \in Items, NEW p \in Places, NEW q \in Places, NEW n \in Quantities,
                   NEW S \in SUBSET Serials, Transfer(w, i, p, q, n, S)
            PROVE  opening' = opening
        BY <4>1, <4>4 DEF Transfer
      <4>5. ASSUME NEW i \in Items, NEW e \in Openings[i], SetOpening(w, i, e)
            PROVE  opening' = opening
        BY <4>1, <4>5 DEF SetOpening
      <4>6. ASSUME NEW d \in Docs, Finalize(w, d) \/ Void(w, d) PROVE opening' = opening
        BY <4>1, <4>6 DEF Finalize, Void
      <4> QED
        BY <3>1, <4>2, <4>3, <4>4, <4>5, <4>6 DEF Begin
    <3>2. ASSUME NEW w \in Workers, Continue(w) PROVE opening' = opening \/ Commit(w)
      BY <3>2 DEF Continue, LockLevel, MissLevel, InsertLevel, Hold, Flush, stockVars
    <3>3. ASSUME NEW w \in Workers, Refuse(w) \/ Abort(w) \/ BreakDeadlock(w)
          PROVE  opening' = opening
      BY <3>3 DEF Refuse, Abort, BreakDeadlock, Rollback, stockVars
    <3>4. ASSUME NEW p \in Bins, DeactivateBin(p) \/ ActivateBin(p) \/ DeleteBin(p)
          PROVE  opening' = opening
      BY <3>4 DEF DeactivateBin, ActivateBin, DeleteBin, stockVars
    <3>5. ASSUME NEW i \in Items,
                 \/ \E c \in Costs : ChangePrice(i, c)
                 \/ \E t \in {"none", "serial"} : ChangeTracking(i, t)
          PROVE  opening' = opening
      BY <3>5 DEF ChangePrice, ChangeTracking, stockVars
    <3> QED
      BY <3>1, <3>2, <3>3, <3>4, <3>5 DEF Next
  <2>2. req[w].item # NoOne /\ opening'[k] = opening[k] + req[w].delta[k]
    BY <2>1, CommitFacts
  <2>3. opening[k] \in Int /\ req[w].delta[k] \in Int
    BY RequestTypes DEF StockIInv, TypeOK
  <2>4. req[w].delta[k] # 0
    BY <2>2, <2>3
  <2>5. rowLock[k] = w
    BY <2>4 DEF StockIInv, LevelsIInv
  <2>6. k[1] = req[w].item /\ k[1] \in Items
    BY <2>2, <2>5, KeysArePairs DEF StockIInv, OpeningsIInv, OpeningIsUnderWay
  <2>7. itemLock[k[1]] = w
    BY <2>6 DEF StockIInv, OpeningsIInv, ItemsAreLocked
  <2> QED
    BY <2>6, <2>7 DEF StockIInv, OpeningsIInv, ItemsAreLocked
<1> QED
  BY <1>1, StockInductive, PTL DEF Spec, OpeningComesFirst

-----------------------------------------------------------------------------
(* A void document moves nothing.                                           *)

\* If d is a purchase, it has one price for each product and place.
OnePrice(d) ==
    DocType[d] = "purchase" =>
        \A n, m \in DOMAIN Lines[d] :
            Lines[d][n].key = Lines[d][m].key => Lines[d][n].price = Lines[d][m].price

\* The movements a request has posted and has yet to post for its document.
Work(w) ==
    LET r == req[w] IN
    [n \in DOMAIN Lines[r.doc] |->
        IF n <= Len(r.posted) THEN r.posted[n] ELSE r.todo[n - Len(r.posted)]]

\* s moves the lines of d, those of one product and place at one cost.
Finalizes(d, s) ==
    /\ \A n \in DOMAIN Lines[d] :
          /\ s[n].key = Lines[d][n].key
          /\ s[n].delta = Direction(d) * Lines[d][n].quantity
    /\ OnePrice(d) =>
          \A n, m \in DOMAIN Lines[d] : s[n].key = s[m].key => s[n].cost = s[m].cost

\* s undoes the movements in p.
Undoes(d, s, p) ==
    \A n \in DOMAIN Lines[d] :
        /\ s[n].key = p[n].key /\ s[n].delta = 0 - p[n].delta
        /\ OnePrice(d) => s[n].cost = p[n].cost

DocIsSound(d) ==
    LET N == Len(Lines[d]) IN
    /\ docStatus[d] = "draft" => posted[d] = <<>>
    /\ docStatus[d] = "sent" => Len(posted[d]) = N /\ Finalizes(d, posted[d])
    /\ docStatus[d] = "void" =>
          /\ Len(posted[d]) = N + N
          /\ Undoes(d, [n \in DOMAIN Lines[d] |-> posted[d][N + n]], posted[d])

DocWorkIsSound(w) ==
    LET r == req[w] IN
    /\ Len(Lines[r.doc]) = Len(r.posted) + Len(r.todo)
    /\ \A n \in DOMAIN r.todo : r.todo[n].type # "transfer_out"
    /\ docStatus[r.doc] = "draft" => Finalizes(r.doc, Work(w))
    /\ docStatus[r.doc] = "sent" => Undoes(r.doc, Work(w), posted[r.doc])
    /\ docStatus[r.doc] # "void"

\* One request at a time works on a document; it adds the movements that finalize it
\* or undo those that did.
DocsIInv ==
    /\ \A d \in Docs : DocIsSound(d)
    /\ \A u, w \in Workers : req[u].doc = req[w].doc /\ req[w].doc # NoOne => u = w
    /\ \A w \in Workers : req[w].doc # NoOne => DocWorkIsSound(w)

LEMMA DocTypes ==
  ASSUME TypeOK, NEW w \in Workers
  PROVE  /\ req[w].doc \in Docs \cup {NoOne}
         /\ req[w].posted \in Seq(Moves) /\ req[w].todo \in Seq(Moves)
         /\ DOMAIN req[w].posted = 1..Len(req[w].posted) /\ Len(req[w].posted) \in Nat
         /\ DOMAIN req[w].todo = 1..Len(req[w].todo) /\ Len(req[w].todo) \in Nat
<1>1. req[w] \in Requests
  BY DEF TypeOK
<1>2. /\ req[w].doc \in Docs \cup {NoOne}
      /\ req[w].posted \in Seq(Moves) /\ req[w].todo \in Seq(Moves)
  BY <1>1 DEF Requests
<1> QED
  BY <1>2

LEMMA PostedTypes ==
  ASSUME TypeOK, NEW d \in Docs
  PROVE  /\ posted[d] \in Seq(Moves)
         /\ DOMAIN posted[d] = 1..Len(posted[d]) /\ Len(posted[d]) \in Nat
         /\ \A n \in DOMAIN posted[d] : /\ posted[d][n].key \in Keys
                                        /\ posted[d][n].delta \in Int
                                        /\ posted[d][n].cost \in Int
<1>1. posted[d] \in Seq(Moves)
  BY DEF TypeOK
<1>2. \A m \in Moves : m.key \in Keys /\ m.delta \in Int /\ m.cost \in Int
  <2>1. Costs \cup {0} \subseteq Int
    BY CostsAssumption
  <2> QED
    BY <2>1 DEF Moves
<1>3. DOMAIN posted[d] = 1..Len(posted[d]) /\ Len(posted[d]) \in Nat
  BY <1>1
<1>4. \A n \in DOMAIN posted[d] : posted[d][n] \in Moves
  BY <1>1, <1>3
<1> QED
  BY <1>1, <1>2, <1>3, <1>4

LEMMA LineMoves ==
  ASSUME NEW d \in Docs, NEW undo \in BOOLEAN
  PROVE  /\ DOMAIN DocMoves(d, undo) = DOMAIN Lines[d]
         /\ \A n \in DOMAIN Lines[d] :
               LET m    == DocMoves(d, undo)[n]
                   line == Lines[d][n]
                   cost == IF DocType[d] = "purchase" THEN line.price ELSE price[line.key[1]] IN
               /\ m.key = line.key /\ m.serials = line.serials
               /\ m.type = DocType[d] /\ m.reverse = undo
               /\ m.delta = (IF undo THEN 0 - Direction(d) ELSE Direction(d)) * line.quantity
               /\ m.cost = IF undo THEN PostedCost(d, line.key, cost) ELSE cost
  BY DEF DocMoves, LineMove

LEMMA DocMovesFinalize ==
  ASSUME NEW d \in Docs
  PROVE  Finalizes(d, DocMoves(d, FALSE))
<1>1. ASSUME NEW n \in DOMAIN Lines[d]
      PROVE  /\ DocMoves(d, FALSE)[n].key = Lines[d][n].key
             /\ DocMoves(d, FALSE)[n].delta = Direction(d) * Lines[d][n].quantity
             /\ DocMoves(d, FALSE)[n].cost = IF DocType[d] = "purchase" THEN Lines[d][n].price
                                             ELSE price[Lines[d][n].key[1]]
  <2> DEFINE line == Lines[d][n]
             v == Direction(d) * line.quantity
             c == IF DocType[d] = "purchase" THEN line.price ELSE price[line.key[1]]
  <2>1. /\ DocMoves(d, FALSE)[n].key = line.key
        /\ DocMoves(d, FALSE)[n].delta
             = (IF FALSE THEN 0 - Direction(d) ELSE Direction(d)) * line.quantity
        /\ DocMoves(d, FALSE)[n].cost = IF FALSE THEN PostedCost(d, line.key, c) ELSE c
    BY LineMoves
  <2>2. (IF FALSE THEN 0 - Direction(d) ELSE Direction(d)) * line.quantity = v
    <3> DEFINE e == IF FALSE THEN 0 - Direction(d) ELSE Direction(d)
    <3>1. e = Direction(d)
      BY Zenon
    <3> HIDE DEF e
    <3>2. e * line.quantity = v
      BY <3>1, Zenon DEF v
    <3> QED
      BY <3>2 DEF e
  <2> HIDE DEF c, v
  <2>3. DocMoves(d, FALSE)[n].cost = c
    BY <2>1
  <2> QED
    BY <2>1, <2>2, <2>3 DEF c, v
<1>2. ASSUME OnePrice(d), NEW n \in DOMAIN Lines[d], NEW m \in DOMAIN Lines[d],
             DocMoves(d, FALSE)[n].key = DocMoves(d, FALSE)[m].key
      PROVE  DocMoves(d, FALSE)[n].cost = DocMoves(d, FALSE)[m].cost
  <2>1. Lines[d][n].key = Lines[d][m].key
    BY <1>1, <1>2
  <2>2. CASE DocType[d] = "purchase"
    <3>1. Lines[d][n].price = Lines[d][m].price
      BY <1>2, <2>1, <2>2 DEF OnePrice
    <3>2. DocMoves(d, FALSE)[n].cost = Lines[d][n].price
      BY <1>1, <2>2
    <3>3. DocMoves(d, FALSE)[m].cost = Lines[d][m].price
      BY <1>1, <2>2
    <3> QED
      BY <3>1, <3>2, <3>3
  <2>3. CASE DocType[d] # "purchase"
    <3>1. DocMoves(d, FALSE)[n].cost = price[Lines[d][n].key[1]]
      BY <1>1, <2>3
    <3>2. DocMoves(d, FALSE)[m].cost = price[Lines[d][m].key[1]]
      BY <1>1, <2>3
    <3> QED
      BY <2>1, <3>1, <3>2
  <2> QED
    BY <2>2, <2>3
<1> QED
  BY <1>1, <1>2 DEF Finalizes

\* The cost of a line that is undone is that of a movement that finalized it.
LEMMA DocMovesUndo ==
  ASSUME TypeOK, NEW d \in Docs, Len(posted[d]) = Len(Lines[d]), Finalizes(d, posted[d])
  PROVE  Undoes(d, DocMoves(d, TRUE), posted[d])
<1>1. /\ DOMAIN posted[d] = DOMAIN Lines[d]
      /\ DOMAIN posted[d] = 1..Len(posted[d]) /\ Len(posted[d]) \in Nat
  BY PostedTypes, LinesAreLines
<1>2. ASSUME NEW n \in DOMAIN Lines[d]
      PROVE  /\ DocMoves(d, TRUE)[n].key = posted[d][n].key
             /\ DocMoves(d, TRUE)[n].delta = 0 - posted[d][n].delta
             /\ OnePrice(d) => DocMoves(d, TRUE)[n].cost = posted[d][n].cost
  <2> DEFINE k == Lines[d][n].key
             q == Lines[d][n].quantity
             c == IF DocType[d] = "purchase" THEN Lines[d][n].price ELSE price[k[1]]
             ns == {m \in DOMAIN posted[d] : posted[d][m].key = k}
  <2>1. /\ DocMoves(d, TRUE)[n].key = k
        /\ DocMoves(d, TRUE)[n].delta = (0 - Direction(d)) * q
        /\ DocMoves(d, TRUE)[n].cost = PostedCost(d, k, c)
    BY LineMoves
  <2>2. posted[d][n].key = k /\ posted[d][n].delta = Direction(d) * q
    BY DEF Finalizes
  <2>3. (0 - Direction(d)) * q = 0 - (Direction(d) * q)
    <3>1. q \in Nat /\ (Direction(d) = 1 \/ Direction(d) = -1)
      BY LinesAreLines DEF Direction
    <3> HIDE DEF q
    <3> QED
      BY <3>1
  <2>4. ns \in SUBSET Nat /\ IsFiniteSet(ns) /\ n \in ns
    <3>1. IsFiniteSet(DOMAIN posted[d])
      BY <1>1, FS_Interval
    <3>2. ns \subseteq DOMAIN posted[d] /\ DOMAIN posted[d] \subseteq Nat /\ n \in ns
      BY <1>1, <2>2
    <3> HIDE DEF ns
    <3> QED
      BY <3>1, <3>2, FS_Subset
  <2>5. Max(ns) \in ns
    <3> HIDE DEF ns
    <3> QED BY <2>4, GreatestNumber
  <2>6. PostedCost(d, k, c) = posted[d][Max(ns)].cost
    <3>1. PostedCost(d, k, c) = IF ns = {} THEN c ELSE posted[d][Max(ns)].cost
      BY DEF PostedCost
    <3> HIDE DEF ns, c
    <3> QED
      BY <2>4, <3>1
  <2>7. Max(ns) \in DOMAIN Lines[d] /\ posted[d][Max(ns)].key = posted[d][n].key
    BY <1>1, <2>2, <2>5
  <2>8. OnePrice(d) => posted[d][Max(ns)].cost = posted[d][n].cost
    BY <2>7 DEF Finalizes
  <2> HIDE DEF k, q, c, ns
  <2> QED
    BY <2>1, <2>2, <2>3, <2>6, <2>8
<1> QED
  BY <1>2 DEF Undoes

\* A step that writes no document and changes the request of w alone.
LEMMA DocsStand ==
  ASSUME DocsIInv, NEW w \in Workers, UNCHANGED <<docStatus, posted>>,
         \A u \in Workers : u # w => req'[u] = req[u],
         req'[w].doc # NoOne =>
            /\ req'[w].doc = req[w].doc \/ DocFree(req'[w].doc)
            /\ DocWorkIsSound(w)'
  PROVE  DocsIInv'
<1>1. \A d \in Docs : DocIsSound(d)'
  BY DEF DocsIInv, DocIsSound
<1>2. \A u, v \in Workers : req'[u].doc = req'[v].doc /\ req'[v].doc # NoOne => u = v
  BY DEF DocsIInv, DocFree
<1>3. ASSUME NEW u \in Workers, u # w, req'[u].doc # NoOne PROVE DocWorkIsSound(u)'
  <2>1. DocWorkIsSound(u) /\ req'[u] = req[u]
    BY <1>3 DEF DocsIInv
  <2>2. Work(u)' = Work(u)
    BY <2>1 DEF Work
  <2> QED
    BY <2>1, <2>2 DEF DocWorkIsSound
<1> QED
  BY <1>1, <1>2, <1>3 DEF DocsIInv

\* A request that goes on with the work on its document.
LEMMA WorkStands ==
  ASSUME DocsIInv, NEW w \in Workers, UNCHANGED <<docStatus, posted>>,
         \A u \in Workers : u # w => req'[u] = req[u], req'[w].doc = req[w].doc,
         req[w].doc # NoOne =>
            /\ Len(req'[w].posted) + Len(req'[w].todo) = Len(req[w].posted) + Len(req[w].todo)
            /\ \A n \in DOMAIN req'[w].todo : req'[w].todo[n].type # "transfer_out"
            /\ Work(w)' = Work(w)
  PROVE  DocsIInv'
<1>1. ASSUME req[w].doc # NoOne PROVE DocWorkIsSound(w)'
  <2>1. DocWorkIsSound(w)
    BY <1>1 DEF DocsIInv
  <2> QED
    BY <1>1, <2>1 DEF DocWorkIsSound
<1> QED
  BY <1>1, DocsStand

\* A request that works on no document, or no longer.
LEMMA NoDocStands ==
  ASSUME DocsIInv, NEW w \in Workers, UNCHANGED <<docStatus, posted>>,
         \A u \in Workers : u # w => req'[u] = req[u], req'[w].doc = NoOne
  PROVE  DocsIInv'
  BY DocsStand

LEMMA RollbackKeepsDocs ==
  ASSUME TypeOK, DocsIInv, NEW w \in Workers, Rollback(w)
  PROVE  DocsIInv'
<1>1. EndOf(w) /\ UNCHANGED <<docStatus, posted>>
  BY DEF Rollback, docVars
<1> QED
  BY <1>1, EndFacts, NoDocStands, IdleIsRequest DEF OthersLockedAsBefore

LEMMA BeginKeepsDocs ==
  ASSUME StockIInv, DocsIInv, NEW w \in Workers, Begin(w)
  PROVE  DocsIInv'
<1>1. TypeOK
  BY DEF StockIInv
<1>2. ASSUME NEW moves \in Seq(Moves), NEW r \in Requests, Start(w, moves, r), r.doc = NoOne
      PROVE  DocsIInv'
  BY <1>1, <1>2, StartFacts, NoDocStands
<1>3. ASSUME NEW k \in Keys, Revalue(w, k) PROVE DocsIInv'
  <2>1. Start(w, <<Move(k, 0, "revaluation", {})>>, Idle)
    BY <1>3 DEF Revalue
  <2>2. k \in Keys /\ 0 \in Int /\ "revaluation" \in MoveTypes /\ {} \in SUBSET Serials
    BY <1>3 DEF MoveTypes
  <2>3. Move(k, 0, "revaluation", {}) \in Moves
    BY <2>2, MoveIsMove
  <2>4. <<Move(k, 0, "revaluation", {})>> \in Seq(Moves)
    BY <2>3
  <2> QED
    BY <1>2, <2>1, <2>4, IdleIsRequest
<1>4. ASSUME NEW k \in Keys, NEW n \in Quantities, NEW S \in SUBSET Serials,
             Receive(w, k, n, S) \/ Remove(w, k, n, S)
      PROVE  DocsIInv'
  <2>1. PICK delta \in Int : Start(w, <<Move(k, delta, "adjustment", S)>>, Idle)
    <3>1. n \in Int /\ 0 - n \in Int
      BY <1>4, QuantitiesAssumption
    <3>2. \/ Start(w, <<Move(k, n, "adjustment", S)>>, Idle)
          \/ Start(w, <<Move(k, 0 - n, "adjustment", S)>>, Idle)
      BY <1>4 DEF Receive, Remove
    <3> QED
      BY <3>1, <3>2
  <2>2. Move(k, delta, "adjustment", S) \in Moves
    BY MoveIsMove DEF MoveTypes
  <2>3. <<Move(k, delta, "adjustment", S)>> \in Seq(Moves)
    BY <2>2
  <2> QED
    BY <1>2, <2>1, <2>3, IdleIsRequest
<1>5. ASSUME NEW i \in Items, NEW p \in Places, NEW q \in Places, NEW n \in Quantities,
             NEW S \in SUBSET Serials, Transfer(w, i, p, q, n, S)
      PROVE  DocsIInv'
  <2>1. PICK moves \in Seq(Moves) : StartsTransfer(w, moves, i, p, q, n, S)
    BY <1>5, TransferMoves
  <2>2. Start(w, moves, Idle)
    BY <2>1 DEF StartsTransfer
  <2> QED
    BY <1>2, <2>2, IdleIsRequest
<1>6. ASSUME NEW i \in Items, NEW e \in Openings[i], SetOpening(w, i, e) PROVE DocsIInv'
  <2> DEFINE r == [Idle EXCEPT !.item = i, !.entry = [p \in Places |-> e[p].quantity]]
  <2>1. Start(w, OpeningMoves(i, e), r) /\ OpeningMoves(i, e) \in Seq(Moves)
    BY <1>1, <1>6, OpeningMovesAreMoves DEF SetOpening, IsOpening
  <2>2. r \in Requests /\ r.doc = NoOne
    <3>1. [p \in Places |-> e[p].quantity] \in [Places -> Nat]
      BY <1>1, OpeningMovesAreMoves DEF IsOpening
    <3> USE IdleIsRequest
    <3> QED BY <3>1 DEF Requests
  <2> HIDE DEF r
  <2> QED
    BY <1>2, <2>1, <2>2
<1>7. ASSUME NEW d \in Docs, Finalize(w, d) \/ Void(w, d) PROVE DocsIInv'
  <2>1. PICK undo \in BOOLEAN : /\ Start(w, DocMoves(d, undo), [Idle EXCEPT !.doc = d])
                                /\ docStatus[d] = IF undo THEN "sent" ELSE "draft"
    <3>1. CASE Finalize(w, d)
      BY <3>1 DEF Finalize
    <3>2. CASE Void(w, d)
      BY <3>2 DEF Void
    <3> QED
      BY <1>7, <3>1, <3>2
  <2> DEFINE r == [Idle EXCEPT !.doc = d]
             moves == DocMoves(d, undo)
  <2>2. r \in Requests /\ r.doc = d /\ r.posted = <<>>
    <3> USE IdleIsRequest
    <3> QED BY DEF Requests
  <2>3. /\ moves \in Seq(Moves) /\ \A n \in DOMAIN moves : moves[n].type # "transfer_out"
        /\ DOMAIN moves = DOMAIN Lines[d]
    BY <1>1, DocMovesAreMoves, LineMoves
  <2>4. Len(moves) = Len(Lines[d]) /\ Len(moves) \in Nat /\ DOMAIN moves = 1..Len(moves)
    <3>1. DOMAIN moves = 1..Len(moves) /\ Len(moves) \in Nat
      BY <2>3
    <3>2. DOMAIN Lines[d] = 1..Len(Lines[d]) /\ Len(Lines[d]) \in Nat
      BY LinesAreLines
    <3> HIDE DEF moves
    <3>3. 1..Len(moves) = 1..Len(Lines[d])
      BY <2>3, <3>1, <3>2
    <3> DEFINE a == Len(moves)
               b == Len(Lines[d])
    <3>4. a \in Nat /\ b \in Nat /\ 1..a = 1..b
      BY <3>1, <3>2, <3>3
    <3> HIDE DEF a, b
    <3>5. a = b
      <4>1. a \in 1..a \/ a = 0
        BY <3>4
      <4>2. b \in 1..b \/ b = 0
        BY <3>4
      <4>3. \A x \in 1..a : x <= b
        BY <3>4
      <4>4. \A x \in 1..b : x <= a
        BY <3>4
      <4> QED
        BY <3>4, <4>1, <4>2, <4>3, <4>4
    <3> QED
      BY <3>1, <3>5 DEF a, b
  <2>5. docStatus[d] = "draft" => Finalizes(d, moves)
    BY <2>1, DocMovesFinalize
  <2>6. docStatus[d] = "sent" => Undoes(d, moves, posted[d])
    BY <1>1, <2>1, DocMovesUndo DEF DocsIInv, DocIsSound
  <2>7. Start(w, moves, r) /\ DocFree(d) /\ docStatus[d] \in {"draft", "sent"}
    BY <1>7, <2>1 DEF Finalize, Void
  <2> HIDE DEF moves, r
  <2>8. /\ req'[w].doc = d /\ req'[w].posted = <<>> /\ req'[w].todo = moves
        /\ UNCHANGED <<docStatus, posted>> /\ \A u \in Workers : u # w => req'[u] = req[u]
    BY <1>1, <2>2, <2>3, <2>7, StartFacts
  <2>9. \A n \in DOMAIN Lines[d] : Work(w)'[n] = moves[n]
    BY <2>3, <2>4, <2>8 DEF Work
  <2>10. (docStatus[d] = "draft" => Finalizes(d, Work(w)'))
         /\ (docStatus[d] = "sent" => Undoes(d, Work(w)', posted[d]))
    BY <2>5, <2>6, <2>9 DEF Finalizes, Undoes
  <2>11. DocWorkIsSound(w)'
    BY <2>3, <2>4, <2>7, <2>8, <2>10 DEF DocWorkIsSound
  <2> QED
    BY <2>7, <2>8, <2>11, DocsStand
<1> QED
  BY <1>3, <1>4, <1>5, <1>6, <1>7 DEF Begin

LEMMA HoldKeepsDocs ==
  ASSUME StockIInv, DocsIInv, NEW w \in Workers, NEW q \in Int, Hold(w, q),
         req[w].todo # <<>>, rowLock[Current(w).key] \in {NoOne, w}
  PROVE  DocsIInv'
<1>1. TypeOK
  BY DEF StockIInv
<1>2. /\ req'[w].todo = (IF Current(w).type = "transfer_out" THEN Tail(req[w].todo)
                                                            ELSE req[w].todo)
      /\ req'[w].doc = req[w].doc /\ req'[w].posted = req[w].posted
      /\ UNCHANGED <<docStatus, posted>>
      /\ \A u \in Workers : u # w => req'[u] = req[u]
  BY <1>1, HoldFacts DEF OthersLockedAsBefore
<1>3. Current(w) = req[w].todo[1] /\ 1 \in DOMAIN req[w].todo
  BY <1>1, CurrentTypes
<1>4. ASSUME req[w].doc # NoOne
      PROVE  /\ req'[w].todo = req[w].todo
             /\ \A n \in DOMAIN req[w].todo : req[w].todo[n].type # "transfer_out"
  <2>1. DocWorkIsSound(w)
    BY <1>4 DEF DocsIInv
  <2>2. \A n \in DOMAIN req[w].todo : req[w].todo[n].type # "transfer_out"
    BY <2>1 DEF DocWorkIsSound
  <2>3. Current(w).type # "transfer_out"
    BY <1>3, <2>2
  <2> QED
    BY <1>2, <2>2, <2>3
<1>5. ASSUME req[w].doc # NoOne PROVE Work(w)' = Work(w)
  BY <1>2, <1>4, <1>5 DEF Work
<1> QED
  BY <1>2, <1>4, <1>5, WorkStands

LEMMA LevelStepsKeepDocs ==
  ASSUME StockIInv, DocsIInv, NEW w \in Workers, LockLevel(w) \/ InsertLevel(w)
  PROVE  DocsIInv'
<1>1. TypeOK /\ req[w].todo # <<>>
  BY DEF StockIInv, RequestsAreSound, RequestIsSound, LockLevel, InsertLevel
<1>2. CASE LockLevel(w)
  <2> DEFINE k == Current(w).key
             q == Quantity(w, k) + Current(w).delta
  <2>1. rowLock[k] \in {NoOne, w} /\ Hold(w, q)
    BY <1>2 DEF LockLevel, RowFree
  <2>2. k \in Keys /\ Current(w).delta \in Int /\ Quantity(w, k) \in Int
    BY <1>1, CurrentTypes, RequestTypes DEF TypeOK, Quantity
  <2>3. q \in Int
    BY <2>2
  <2> HIDE DEF q
  <2> QED
    BY <1>1, <2>1, <2>3, HoldKeepsDocs
<1>3. CASE InsertLevel(w)
  <2>1. rowLock[Current(w).key] \in {NoOne, w} /\ Hold(w, Current(w).delta)
    BY <1>3 DEF InsertLevel, RowFree
  <2>2. Current(w).delta \in Int
    BY <1>1, CurrentTypes
  <2> QED
    BY <1>1, <2>1, <2>2, HoldKeepsDocs
<1> QED
  BY <1>2, <1>3

LEMMA MissLevelKeepsDocs ==
  ASSUME StockIInv, DocsIInv, NEW w \in Workers, MissLevel(w)
  PROVE  DocsIInv'
<1>1. /\ req'[w].todo = req[w].todo
      /\ req'[w].doc = req[w].doc /\ req'[w].posted = req[w].posted
      /\ UNCHANGED <<docStatus, posted>>
      /\ \A u \in Workers : u # w => req'[u] = req[u]
  BY MissFacts DEF StockIInv
<1>2. Work(w)' = Work(w)
  BY <1>1 DEF Work
<1>3. ASSUME req[w].doc # NoOne
      PROVE  \A n \in DOMAIN req[w].todo : req[w].todo[n].type # "transfer_out"
  BY <1>3 DEF DocsIInv, DocWorkIsSound
<1> QED
  BY <1>1, <1>2, <1>3, WorkStands

\* A flush adds the first of the movements that are left to those that are posted.
LEMMA FlushKeepsDocs ==
  ASSUME StockIInv, DocsIInv, NEW w \in Workers, Flush(w)
  PROVE  DocsIInv'
<1> DEFINE todo == req[w].todo
           done == req[w].posted
           d == req[w].doc
<1>1. TypeOK /\ todo # <<>>
  BY DEF StockIInv, RequestsAreSound, RequestIsSound, Flush
<1>2. /\ req'[w].todo = Tail(todo) /\ req'[w].doc = d
      /\ req'[w].posted = (IF d = NoOne THEN done ELSE Append(done, Current(w)))
      /\ UNCHANGED <<docStatus, posted>>
      /\ \A u \in Workers : u # w => req'[u] = req[u]
  BY <1>1, FlushFacts
<1>3. ASSUME d # NoOne
      PROVE  /\ Len(req'[w].posted) + Len(req'[w].todo) = Len(done) + Len(todo)
             /\ \A n \in DOMAIN req'[w].todo : req'[w].todo[n].type # "transfer_out"
             /\ Work(w)' = Work(w)
  <2>1. /\ todo \in Seq(Moves) /\ done \in Seq(Moves) /\ d \in Docs
        /\ DOMAIN done = 1..Len(done) /\ Len(done) \in Nat
    BY <1>1, <1>3, DocTypes
  <2>2. /\ DOMAIN todo = 1..Len(todo) /\ Len(todo) \in Nat \ {0}
        /\ DOMAIN Tail(todo) = 1..(Len(todo) - 1) /\ Len(Tail(todo)) = Len(todo) - 1
        /\ \A n \in 1..(Len(todo) - 1) : Tail(todo)[n] = todo[n + 1]
    BY <1>1, <2>1, Sequences
  <2>3. Current(w) = todo[1] /\ Current(w) \in Moves
    BY <1>1, CurrentTypes
  <2>4. /\ \A n \in DOMAIN todo : todo[n].type # "transfer_out"
        /\ Len(Lines[d]) = Len(done) + Len(todo)
    BY <1>3 DEF DocsIInv, DocWorkIsSound
  <2> DEFINE done2 == req'[w].posted
             todo2 == req'[w].todo
  <2>5. done2 = Append(done, Current(w)) /\ todo2 = Tail(todo)
    BY <1>2, <1>3
  <2>6. DOMAIN Lines[d] = 1..(Len(done) + Len(todo))
    BY <2>1, <2>4, LinesAreLines
  <2> DEFINE a == Len(done)
             b == Len(todo)
  <2>7. /\ Len(done2) = a + 1
        /\ \A n \in 1..a : done2[n] = done[n]
        /\ done2[a + 1] = todo[1]
    <3> HIDE DEF done2, done
    <3> QED
      BY <2>1, <2>3, <2>5
  <2>8. /\ Len(todo2) = b - 1 /\ DOMAIN todo2 = 1..(b - 1)
        /\ \A n \in 1..(b - 1) : todo2[n] = todo[n + 1]
    BY <2>2, <2>5
  <2>9. a \in Nat /\ b \in Nat \ {0}
    BY <2>1, <2>2
  <2>10. Work(w)  = [n \in DOMAIN Lines[d] |-> IF n <= a THEN done[n] ELSE todo[n - a]]
    BY DEF Work
  <2>11. Work(w)' = [n \in DOMAIN Lines[d] |->
                       IF n <= Len(done2) THEN done2[n] ELSE todo2[n - Len(done2)]]
    BY <1>2 DEF Work
  <2> HIDE DEF a, b, done2, todo2, done, todo, d
  <2>12. ASSUME NEW n \in DOMAIN Lines[d]
         PROVE  (IF n <= Len(done2) THEN done2[n] ELSE todo2[n - Len(done2)])
                  = (IF n <= a THEN done[n] ELSE todo[n - a])
    <3>1. n \in 1..(a + b)
      BY <2>6 DEF a, b
    <3>2. CASE n <= a
      BY <2>7, <2>9, <3>1, <3>2
    <3>3. CASE n = a + 1
      <4>1. n - a = 1
        BY <2>9, <3>3
      <4> QED
        BY <2>7, <2>9, <3>1, <3>3, <4>1
    <3>4. CASE n > a + 1
      <4>1. n - (a + 1) \in 1..(b - 1) /\ (n - (a + 1)) + 1 = n - a
        BY <2>9, <3>1, <3>4
      <4>2. todo2[n - (a + 1)] = todo[n - a]
        BY <2>8, <4>1
      <4> QED
        BY <2>7, <2>9, <3>1, <3>4, <4>2
    <3> QED
      BY <2>9, <3>1, <3>2, <3>3, <3>4
  <2>13. Work(w)' = Work(w)
    BY <2>10, <2>11, <2>12
  <2>14. Len(done2) + Len(todo2) = Len(done) + Len(todo)
    <3>1. Len(done2) + Len(todo2) = a + b
      BY <2>7, <2>8, <2>9
    <3> QED
      BY <3>1 DEF a, b
  <2>15. \A n \in DOMAIN todo2 : todo2[n].type # "transfer_out"
    <3>1. \A n \in 1..(b - 1) : n + 1 \in DOMAIN todo
      BY <2>2, <2>9 DEF b
    <3> QED
      BY <2>4, <2>8, <3>1
  <2> QED
    BY <2>13, <2>14, <2>15 DEF done2, todo2
<1> QED
  BY <1>2, <1>3, WorkStands

\* The commit of a request that finalizes or voids a document.
LEMMA DocCommitKeepsDocs ==
  ASSUME StockIInv, DocsIInv, NEW w \in Workers, Commit(w), NEW d \in Docs, req[w].doc = d
  PROVE  DocIsSound(d)'
<1> DEFINE new == req[w].posted
           N == Len(Lines[d])
<1>1. TypeOK /\ req[w].todo = <<>>
  BY CommitFacts DEF StockIInv
<1>2. /\ d # NoOne /\ new \in Seq(Moves)
      /\ DOMAIN new = 1..Len(new) /\ Len(new) \in Nat
  BY <1>1, DocTypes
<1>3. DocWorkIsSound(w) /\ DocIsSound(d)
  BY <1>2 DEF DocsIInv
<1>4. N = Len(new) /\ DOMAIN Lines[d] = 1..N /\ N \in Nat
  <2>1. Len(req[w].todo) = 0
    BY <1>1
  <2> QED
    BY <1>2, <1>3, <2>1, LinesAreLines DEF DocWorkIsSound
<1>5. docStatus'[d] = DocDone(d) /\ posted'[d] = posted[d] \o new
  <2>1. /\ docStatus' = [docStatus EXCEPT ![d] = DocDone(d)]
        /\ posted'    = [posted EXCEPT ![d] = posted[d] \o new]
    BY <1>2 DEF Commit
  <2> HIDE DEF new
  <2> QED
    BY <1>1, <1>2, <2>1 DEF TypeOK
<1>6. \A n \in 1..N : Work(w)[n] = new[n]
  BY <1>4 DEF Work
<1>7. docStatus[d] \in {"draft", "sent"}
  BY <1>1, <1>2, <1>3 DEF DocWorkIsSound, TypeOK
<1> DEFINE old == posted[d]
<1>8. old \in Seq(Moves)
  BY <1>1, <1>2, PostedTypes
<1>9. CASE docStatus[d] = "draft"
  <2>1. docStatus'[d] = "sent" /\ posted'[d] = new
    <3>1. posted[d] = <<>>
      BY <1>3, <1>9 DEF DocIsSound
    <3>2. <<>> \o new = new
      BY <1>2
    <3> QED
      BY <1>5, <1>9, <3>1, <3>2 DEF DocDone
  <2>2. Finalizes(d, Work(w))
    BY <1>3, <1>9 DEF DocWorkIsSound
  <2>3. Finalizes(d, new)
    <3> HIDE DEF new, N
    <3> QED
      BY <1>4, <1>6, <2>2 DEF Finalizes
  <2> QED
    BY <1>4, <2>1, <2>3 DEF DocIsSound
<1>10. CASE docStatus[d] = "sent"
  <2>1. docStatus'[d] = "void" /\ posted'[d] = old \o new
    BY <1>5, <1>10 DEF DocDone
  <2>2. Len(old) = N
    BY <1>3, <1>10 DEF DocIsSound
  <2>3. Undoes(d, Work(w), old)
    BY <1>3, <1>10 DEF DocWorkIsSound
  <2> HIDE DEF old, new, N
  <2>4. /\ Len(old \o new) = N + N
        /\ \A n \in 1..N : (old \o new)[n] = old[n] /\ (old \o new)[N + n] = new[n]
    <3>1. Len(old) \in Nat /\ Len(new) \in Nat
      BY <1>2, <1>8
    <3>2. Len(old \o new) = Len(old) + Len(new)
      BY <1>2, <1>8
    <3>3. \A n \in 1..Len(old) : (old \o new)[n] = old[n]
      BY <1>2, <1>8
    <3>4. \A n \in 1..Len(new) : (old \o new)[Len(old) + n] = new[n]
      BY <1>2, <1>8
    <3> QED
      BY <1>4, <2>2, <3>1, <3>2, <3>3, <3>4
  <2>5. Undoes(d, [n \in DOMAIN Lines[d] |-> (old \o new)[N + n]], old \o new)
    <3> DEFINE all == old \o new
               s == [n \in DOMAIN Lines[d] |-> all[N + n]]
    <3>1. \A n \in DOMAIN Lines[d] :
             /\ new[n].key = old[n].key /\ new[n].delta = 0 - old[n].delta
             /\ OnePrice(d) => new[n].cost = old[n].cost
      BY <1>4, <1>6, <2>3 DEF Undoes
    <3>2. \A n \in DOMAIN Lines[d] : s[n] = new[n] /\ all[n] = old[n]
      BY <1>4, <2>4
    <3> HIDE DEF all, s
    <3>3. Undoes(d, s, all)
      BY <3>1, <3>2 DEF Undoes
    <3> QED
      BY <3>3 DEF all, s
  <2>6. /\ Len(posted'[d]) = N + N
        /\ Undoes(d, [n \in DOMAIN Lines[d] |-> posted'[d][N + n]], posted'[d])
    BY <2>1, <2>4, <2>5
  <2> QED
    BY <2>1, <2>6 DEF DocIsSound, N
<1> QED
  BY <1>7, <1>9, <1>10

LEMMA CommitKeepsDocs ==
  ASSUME StockIInv, DocsIInv, NEW w \in Workers, Commit(w)
  PROVE  DocsIInv'
<1>1. TypeOK /\ EndOf(w)
  BY CommitFacts DEF StockIInv
<1>2. /\ \A u \in Workers : u # w => req'[u] = req[u]
      /\ req'[w].doc = NoOne
  BY <1>1, EndFacts, IdleIsRequest DEF OthersLockedAsBefore
<1>3. CASE req[w].doc = NoOne
  <2>1. UNCHANGED <<docStatus, posted>>
    BY <1>3 DEF Commit, docVars
  <2> QED
    BY <1>2, <2>1, NoDocStands
<1>4. CASE req[w].doc # NoOne
  <2> DEFINE d == req[w].doc
  <2>1. /\ docStatus' = [docStatus EXCEPT ![d] = DocDone(d)]
        /\ posted'    = [posted EXCEPT ![d] = posted[d] \o req[w].posted]
    BY <1>4 DEF Commit
  <2>2. \A e \in Docs : e # d => docStatus'[e] = docStatus[e] /\ posted'[e] = posted[e]
    <3> HIDE DEF d
    <3> QED
      BY <1>1, <2>1 DEF TypeOK
  <2>3. ASSUME NEW e \in Docs PROVE DocIsSound(e)'
    <3>1. CASE e = d
      BY <3>1, DocCommitKeepsDocs
    <3>2. CASE e # d
      BY <2>2, <3>2 DEF DocsIInv, DocIsSound
    <3> QED
      BY <3>1, <3>2
  <2>4. \A u, v \in Workers : req'[u].doc = req'[v].doc /\ req'[v].doc # NoOne => u = v
    BY <1>2 DEF DocsIInv
  <2>5. ASSUME NEW u \in Workers, req'[u].doc # NoOne PROVE DocWorkIsSound(u)'
    <3>1. u # w /\ req'[u] = req[u] /\ DocWorkIsSound(u)
      BY <1>2, <2>5 DEF DocsIInv
    <3>2. req[u].doc # d /\ req[u].doc \in Docs
      BY <1>1, <1>4, <2>5, <3>1, DocTypes DEF DocsIInv
    <3>3. Work(u)' = Work(u)
      BY <3>1 DEF Work
    <3>4. docStatus'[req[u].doc] = docStatus[req[u].doc] /\ posted'[req[u].doc] = posted[req[u].doc]
      BY <2>2, <3>2
    <3> QED
      BY <3>1, <3>3, <3>4 DEF DocWorkIsSound
  <2> QED
    BY <2>3, <2>4, <2>5 DEF DocsIInv
<1> QED
  BY <1>3, <1>4

LEMMA InitIsDocs == Init => DocsIInv
<1> SUFFICES ASSUME Init PROVE DocsIInv
  OBVIOUS
<1>1. \A d \in Docs : docStatus[d] = "draft" /\ posted[d] = <<>>
  BY DEF Init
<1>2. \A w \in Workers : req[w].doc = NoOne
  BY IdleIsRequest DEF Init
<1> QED
  BY <1>1, <1>2 DEF DocsIInv, DocIsSound

LEMMA NextKeepsDocs ==
  ASSUME StockIInv, DocsIInv, [Next]_vars
  PROVE  DocsIInv'
<1>1. ASSUME NEW w \in Workers,
             Begin(w) \/ Continue(w) \/ Refuse(w) \/ Abort(w) \/ BreakDeadlock(w)
      PROVE  DocsIInv'
  <2>1. CASE Begin(w)
    BY <2>1, BeginKeepsDocs
  <2>2. CASE Continue(w)
    BY <2>2, LevelStepsKeepDocs, MissLevelKeepsDocs, FlushKeepsDocs, CommitKeepsDocs
       DEF Continue
  <2>3. CASE Refuse(w) \/ Abort(w) \/ BreakDeadlock(w)
    BY <2>3, RollbackKeepsDocs DEF Refuse, Abort, BreakDeadlock, StockIInv
  <2> QED
    BY <1>1, <2>1, <2>2, <2>3
<1>2. ASSUME UNCHANGED <<docStatus, posted, req>> PROVE DocsIInv'
  <2>1. \A d \in Docs : DocIsSound(d)'
    BY <1>2 DEF DocsIInv, DocIsSound
  <2>2. ASSUME NEW w \in Workers, req[w].doc # NoOne PROVE DocWorkIsSound(w)'
    <3>1. DocWorkIsSound(w)
      BY <2>2 DEF DocsIInv
    <3>2. Work(w)' = Work(w)
      BY <1>2 DEF Work
    <3> QED
      BY <1>2, <3>1, <3>2 DEF DocWorkIsSound
  <2>3. \A u, w \in Workers : req'[u].doc = req'[w].doc /\ req'[w].doc # NoOne => u = w
    BY <1>2 DEF DocsIInv
  <2> QED
    BY <1>2, <2>1, <2>2, <2>3 DEF DocsIInv
<1>3. ASSUME NEW p \in Bins, DeactivateBin(p) \/ ActivateBin(p) \/ DeleteBin(p)
      PROVE  DocsIInv'
  BY <1>2, <1>3 DEF DeactivateBin, ActivateBin, DeleteBin, docVars
<1>4. ASSUME NEW i \in Items, NEW c \in Costs, ChangePrice(i, c) PROVE DocsIInv'
  BY <1>2, <1>4 DEF ChangePrice, docVars
<1>5. ASSUME NEW i \in Items, NEW t \in {"none", "serial"}, ChangeTracking(i, t)
      PROVE  DocsIInv'
  BY <1>2, <1>5 DEF ChangeTracking, docVars
<1>6. CASE UNCHANGED vars
  BY <1>2, <1>6 DEF vars, docVars
<1> QED
  BY <1>1, <1>3, <1>4, <1>5, <1>6 DEF Next

\* The figures of the stock movement report are sums.
LEMMA ReportAsSums ==
  ASSUME NEW d, NEW ns
  PROVE  MovementReport(d, ns)
           = [quantity |-> SumOf([n \in ns |-> posted[d][n].delta], ns),
              value    |-> SumOf([n \in ns |-> MovementValue(posted[d][n])], ns)]
<1> DEFINE f == [n \in ns |-> posted[d][n].delta]
           A(g) == [s \in SUBSET ns |->
                      IF s = {} THEN 0
                      ELSE posted[d][CHOOSE x \in s : TRUE].delta
                           + g[s \ {CHOOSE x \in s : TRUE}]]
           B(g) == [s \in SUBSET ns |->
                      IF s = {} THEN 0
                      ELSE f[CHOOSE x \in s : TRUE] + g[s \ {CHOOSE x \in s : TRUE}]]
           v == [n \in ns |-> MovementValue(posted[d][n])]
           C(g) == [s \in SUBSET ns |->
                      IF s = {} THEN 0
                      ELSE MovementValue(posted[d][CHOOSE x \in s : TRUE])
                           + g[s \ {CHOOSE x \in s : TRUE}]]
           D(g) == [s \in SUBSET ns |->
                      IF s = {} THEN 0
                      ELSE v[CHOOSE x \in s : TRUE] + g[s \ {CHOOSE x \in s : TRUE}]]
<1>1. \A g : A(g) = B(g)
  OBVIOUS
<1>2. \A g : C(g) = D(g)
  OBVIOUS
<1>3. MovementReport(d, ns).quantity = (CHOOSE g : g = A(g))[ns]
  BY DEF MovementReport, MapThenSumSet, MapThenFoldSet
<1>4. MovementReport(d, ns).value = (CHOOSE g : g = C(g))[ns]
  BY DEF MovementReport, MapThenSumSet, MapThenFoldSet
<1>5. SumOf(f, ns) = (CHOOSE g : g = B(g))[ns]
  BY DEF SumOf, MapThenSumSet, MapThenFoldSet
<1>6. SumOf(v, ns) = (CHOOSE g : g = D(g))[ns]
  BY DEF SumOf, MapThenSumSet, MapThenFoldSet
<1>7. (CHOOSE g : g = A(g)) = (CHOOSE g : g = B(g))
  <2> HIDE DEF A, B
  <2> QED BY <1>1
<1>8. (CHOOSE g : g = C(g)) = (CHOOSE g : g = D(g))
  <2> HIDE DEF C, D
  <2> QED BY <1>2
<1>9. MovementReport(d, ns) = [quantity |-> MovementReport(d, ns).quantity,
                               value    |-> MovementReport(d, ns).value]
  BY DEF MovementReport
<1>10. MovementReport(d, ns).quantity = SumOf(f, ns)
  <2> HIDE DEF A, B, f
  <2> QED BY <1>3, <1>5, <1>7
<1>11. MovementReport(d, ns).value = SumOf(v, ns)
  <2> HIDE DEF C, D, v
  <2> QED BY <1>4, <1>6, <1>8
<1> QED
  BY <1>9, <1>10, <1>11

\* What undoes the movements that finalized a document makes its report come to naught.
VoidsCancelOut ==
    \A d \in Docs, k \in Keys :
        docStatus[d] = "void" =>
            /\ MovementReport(d, OfKey(d, k)).quantity = 0
            /\ OnePrice(d) => MovementReport(d, OfKey(d, k)).value = 0

LEMMA VoidsCancel == StockIInv /\ DocsIInv => VoidsCancelOut
<1> SUFFICES ASSUME StockIInv, DocsIInv, NEW d \in Docs, NEW k \in Keys, docStatus[d] = "void"
             PROVE  /\ MovementReport(d, OfKey(d, k)).quantity = 0
                    /\ OnePrice(d) => MovementReport(d, OfKey(d, k)).value = 0
  BY DEF VoidsCancelOut
<1> DEFINE N == Len(Lines[d])
           s == posted[d]
           ns == OfKey(d, k)
           S == {n \in 1..N : s[n].key = k}
           T == {N + n : n \in S}
           t == [n \in S |-> N + n]
<1>1. N \in Nat /\ DOMAIN Lines[d] = 1..N
  BY LinesAreLines
<1>2. /\ Len(s) = N + N
      /\ Undoes(d, [n \in DOMAIN Lines[d] |-> s[N + n]], s)
  BY DEF DocsIInv, DocIsSound
<1>3. \A n \in 1..N :
         /\ s[N + n].key = s[n].key /\ s[N + n].delta = 0 - s[n].delta
         /\ OnePrice(d) => s[N + n].cost = s[n].cost
  <2> HIDE DEF s, N
  <2> QED
    BY <1>1, <1>2 DEF Undoes
<1>4. /\ DOMAIN s = 1..(N + N)
      /\ \A n \in 1..(N + N) : s[n].delta \in Int /\ s[n].cost \in Int
  BY <1>2, PostedTypes DEF StockIInv
<1>5. ns = {n \in 1..(N + N) : s[n].key = k}
  BY <1>4 DEF OfKey
<1> DEFINE f == [n \in ns |-> s[n].delta]
           v == [n \in ns |-> MovementValue(s[n])]
<1>6. MovementReport(d, ns) = [quantity |-> SumOf(f, ns), value |-> SumOf(v, ns)]
  BY ReportAsSums
<1> HIDE DEF N, s, ns
<1>7. ns = S \cup T
  <2>1. ASSUME NEW n \in ns PROVE n \in S \cup T
    <3>1. n \in 1..(N + N) /\ s[n].key = k
      BY <1>5
    <3>2. CASE n <= N
      BY <1>1, <3>1, <3>2
    <3>3. CASE n > N
      <4>1. n - N \in 1..N /\ n = N + (n - N)
        BY <1>1, <3>1, <3>3
      <4>2. s[n - N].key = k
        BY <1>3, <3>1, <4>1
      <4> QED
        BY <4>1, <4>2
    <3> QED
      BY <1>1, <3>1, <3>2, <3>3
  <2>2. ASSUME NEW n \in S PROVE n \in ns /\ N + n \in ns
    <3>1. n \in 1..N /\ n \in 1..(N + N) /\ N + n \in 1..(N + N)
      BY <1>1
    <3> QED
      BY <1>3, <1>5, <3>1
  <2> QED
    BY <2>1, <2>2
<1>8. S \cap T = {} /\ IsFiniteSet(S) /\ IsFiniteSet(T)
  <2>1. IsFiniteSet(1..N) /\ IsFiniteSet(1..(N + N))
    BY <1>1, FS_Interval
  <2>2. S \subseteq 1..N /\ T \subseteq 1..(N + N)
    BY <1>1
  <2>3. S \cap T = {}
    BY <1>1
  <2> HIDE DEF S, T
  <2> QED
    BY <2>1, <2>2, <2>3, FS_Subset
<1>9. T = {t[n] : n \in S} /\ \A n, m \in S : t[n] = t[m] => n = m
  <2>1. \A n \in S : t[n] = N + n /\ n \in Nat
    BY <1>1
  <2> HIDE DEF S, t
  <2> QED
    BY <1>1, <2>1
<1>10. ASSUME NEW n \in S
       PROVE  /\ f[n] \in Int /\ f[t[n]] = 0 - f[n]
              /\ v[n] \in Int
              /\ OnePrice(d) => v[t[n]] = 0 - v[n]
  <2>1. n \in ns /\ N + n \in ns /\ t[n] = N + n /\ n \in 1..N /\ n \in 1..(N + N)
    BY <1>1, <1>7
  <2>2. f[n] = s[n].delta /\ f[t[n]] = s[N + n].delta
    BY <2>1
  <2>3. v[n] = s[n].delta * s[n].cost /\ v[t[n]] = s[N + n].delta * s[N + n].cost
    BY <2>1 DEF MovementValue
  <2> DEFINE a == s[n].delta
             b == s[n].cost
  <2>4. a \in Int /\ b \in Int
    BY <1>4, <2>1
  <2>5. s[N + n].delta = 0 - a /\ (OnePrice(d) => s[N + n].cost = b)
    BY <1>3, <2>1
  <2>6. /\ f[n] = a /\ f[t[n]] = 0 - a /\ v[n] = a * b
        /\ OnePrice(d) => v[t[n]] = (0 - a) * b
    BY <2>2, <2>3, <2>5
  <2> HIDE DEF a, b, f, v, t
  <2>7. a * b \in Int /\ (0 - a) * b = 0 - (a * b)
    BY <2>4
  <2> QED
    BY <2>4, <2>6, <2>7
<1> HIDE DEF S, T, t, f, v
<1>11. SumOf(f, ns) = 0
  <2>1. \A n \in S : f[n] \in Int /\ f[t[n]] = 0 - f[n]
    BY <1>10
  <2>2. SumOf(f, S \cup T) = 0
    BY <1>8, <1>9, <2>1, SumCancels
  <2> QED
    BY <1>7, <2>2
<1>12. ASSUME OnePrice(d) PROVE SumOf(v, ns) = 0
  <2>1. \A n \in S : v[n] \in Int /\ v[t[n]] = 0 - v[n]
    BY <1>10, <1>12
  <2>2. SumOf(v, S \cup T) = 0
    BY <1>8, <1>9, <2>1, SumCancels
  <2> QED
    BY <1>7, <2>2
<1> QED
  BY <1>6, <1>11, <1>12 DEF ns

\* The movements of a void document cancel out in quantity, and in value if it is not
\* a purchase of one product at two prices in one place.
THEOREM VoidsMoveNothing == Spec => []VoidsCancelOut
<1>1. Init => DocsIInv
  BY InitIsDocs
<1>2. StockIInv /\ DocsIInv /\ [Next]_vars => DocsIInv'
  BY NextKeepsDocs
<1>3. StockIInv /\ DocsIInv => VoidsCancelOut
  BY VoidsCancel
<1> QED
  BY <1>1, <1>2, <1>3, StockInductive, PTL DEF Spec

\* Where no purchase has one product at two prices, the stock movement report of a
\* void document shows nothing.
THEOREM VoidsShowNothing ==
  ASSUME \A d \in Docs : OnePrice(d)
  PROVE  Spec => []VoidUndoesMovements
<1>1. VoidsCancelOut => VoidUndoesMovements
  <2> SUFFICES ASSUME NEW d \in Docs, NEW k \in Keys,
                      MovementReport(d, OfKey(d, k)).quantity = 0,
                      MovementReport(d, OfKey(d, k)).value = 0
               PROVE  MovementReport(d, OfKey(d, k)) = [quantity |-> 0, value |-> 0]
    BY DEF VoidsCancelOut, VoidUndoesMovements
  <2> DEFINE f == SumOf([n \in OfKey(d, k) |-> posted[d][n].delta], OfKey(d, k))
             v == SumOf([n \in OfKey(d, k) |-> MovementValue(posted[d][n])], OfKey(d, k))
  <2>1. MovementReport(d, OfKey(d, k)) = [quantity |-> f, value |-> v]
    BY ReportAsSums
  <2> HIDE DEF f, v
  <2> QED
    BY <2>1
<1> QED
  BY <1>1, VoidsMoveNothing, PTL

-----------------------------------------------------------------------------
(* Serial units never outnumber the level of their place.                    *)

\* Serial numbers are those of the item and, for an item that has them, as many as
\* the movement moves.
NumbersMatch(i, n, S) ==
    /\ S \subseteq SerialsOf[i]
    /\ Tracked(i) => n = Cardinality(S) \/ n = 0 - Cardinality(S)
    /\ ~ Tracked(i) => S = {}

MoveIsNumbered(m) ==
    IF m.type = "transfer_out" THEN m.serials = {}
    ELSE NumbersMatch(m.key[1], m.delta, m.serials)

LinesAreNumbered(d) ==
    \A n \in DOMAIN Lines[d] :
        NumbersMatch(Lines[d][n].key[1], Lines[d][n].quantity, Lines[d][n].serials)

\* Where the units of a transfer come from.
From(m) == <<m.key[1], m.origin>>

\* What comes out of a place before it goes into the other is as much, and the place
\* stays locked.
TransferIsNumbered(w) ==
    LET todo == req[w].todo IN
    \A n \in DOMAIN todo :
        todo[n].type = "transfer_in" =>
            /\ todo[n].delta > 0 /\ todo[n].origin \in Places
            /\ todo[n].origin # todo[n].key[2]
            /\ n = 1 => rowLock[From(todo[n])] = w
            /\ n # 1 => /\ todo[1].type = "transfer_out"
                        /\ todo[1].key = From(todo[n])
                        /\ todo[1].delta = 0 - todo[n].delta

WorkIsNumbered(w) ==
    /\ \A n \in DOMAIN req[w].todo : MoveIsNumbered(req[w].todo[n])
    /\ TransferIsNumbered(w)
    /\ req[w].step = "flush" => rowLock[Current(w).key] = w

DocWorkIsNumbered(w) ==
    req[w].doc # NoOne =>
        /\ LinesAreNumbered(req[w].doc)
        /\ \A n \in DOMAIN req[w].posted : rowLock[req[w].posted[n].key] = w

InStock(p) == [status |-> "in_stock", place |-> p]

\* The units of an item that w sees in stock at a place.
SeenIn(w, k) == {s \in SerialsOf[k[1]] : Seen(w, s) = InStock(k[2])}

\* What w has added to a level and not to the units in stock.
Owed(w, k) ==
    LET m == Current(w) IN
    IF req[w].todo = <<>> THEN 0
    ELSE IF req[w].step = "flush" /\ m.key = k THEN m.delta
    ELSE IF m.type = "transfer_in" /\ From(m) = k THEN 0 - m.delta
    ELSE 0

\* What a request put in stock is in places it has locked.
TouchedAreHeld(w) ==
    \A s \in req[w].touched, k \in Keys :
        s \in SerialsOf[k[1]] /\ req[w].unit[s] = InStock(k[2]) => rowLock[k] = w

SeenIsCovered(w) ==
    \A k \in Keys :
        rowLock[k] = w /\ Tracked(k[1]) =>
            Cardinality(SeenIn(w, k)) <= req[w].level[k] - Owed(w, k)

UnitWorkIsSound(w) ==
    TouchedAreHeld(w) /\ SeenIsCovered(w) /\ WorkIsNumbered(w) /\ DocWorkIsNumbered(w)

\* The units a request sees where it has locked the level are covered by the level it
\* has computed; what is committed is covered by what is committed.  The lines of a
\* document that moved stock keep matching: its items have level rows, so their
\* tracking mode is fixed.
UnitsIInv ==
    /\ UnitsAreCovered
    /\ \A k \in Keys : UnitsIn(k[1], k[2]) # {} => k \in rows
    /\ \A d \in Docs :
          docStatus[d] = "sent" =>
              LinesAreNumbered(d) /\ \A n \in DOMAIN Lines[d] : Lines[d][n].key \in rows
    /\ \A w \in Workers : UnitWorkIsSound(w)

LEMMA ItemSerials ==
  ASSUME NEW i \in Items
  PROVE  /\ SerialsOf[i] \in SUBSET Serials
         /\ \A S \in SUBSET SerialsOf[i] : IsFiniteSet(S) /\ Cardinality(S) \in Nat
<1>1. SerialsOf[i] \in SUBSET Serials
  BY SerialsOfAssumption
<1>2. IsFiniteSet(Serials)
  BY FinitenessAssumption
<1>3. \A S \in SUBSET SerialsOf[i] : IsFiniteSet(S)
  BY <1>1, <1>2, FS_Subset
<1> QED
  BY <1>1, <1>3, FS_CardinalityType

\* Fewer units are less to cover.
LEMMA FewerUnits ==
  ASSUME NEW i \in Items, NEW S \in SUBSET SerialsOf[i], NEW T \in SUBSET S
  PROVE  Cardinality(T) <= Cardinality(S)
<1>1. IsFiniteSet(S)
  BY ItemSerials
<1> QED
  BY <1>1, FS_Subset

LEMMA UnitsOfKey ==
  ASSUME NEW k \in Keys, NEW w \in Workers
  PROVE  /\ SeenIn(w, k) \in SUBSET SerialsOf[k[1]] /\ UnitsIn(k[1], k[2]) \in SUBSET SerialsOf[k[1]]
         /\ Cardinality(SeenIn(w, k)) \in Nat /\ Cardinality(UnitsIn(k[1], k[2])) \in Nat
         /\ \A s : s \in UnitsIn(k[1], k[2]) <=> s \in SerialsOf[k[1]] /\ unit[s] = InStock(k[2])
<1>1. SeenIn(w, k) \in SUBSET SerialsOf[k[1]] /\ UnitsIn(k[1], k[2]) \in SUBSET SerialsOf[k[1]]
  BY DEF SeenIn, UnitsIn
<1>2. k[1] \in Items
  BY KeysArePairs
<1>3. \A s : s \in UnitsIn(k[1], k[2]) <=> s \in SerialsOf[k[1]] /\ unit[s] = InStock(k[2])
  BY DEF UnitsIn, InStock
<1> QED
  BY <1>1, <1>2, <1>3, ItemSerials

\* Where it has no lock, a request sees nothing that is not committed.
LEMMA SeenIsCommitted ==
  ASSUME UnitsIInv, NEW w \in Workers, NEW k \in Keys, rowLock[k] # w
  PROVE  SeenIn(w, k) \subseteq UnitsIn(k[1], k[2])
<1>1. ASSUME NEW s \in SeenIn(w, k) PROVE s \in UnitsIn(k[1], k[2])
  <2>1. s \in SerialsOf[k[1]] /\ Seen(w, s) = InStock(k[2])
    BY DEF SeenIn
  <2>2. s \notin req[w].touched
    BY <2>1 DEF UnitsIInv, UnitWorkIsSound, TouchedAreHeld, Seen
  <2> QED
    BY <2>1, <2>2, UnitsOfKey DEF Seen
<1> QED
  BY <1>1

LEMMA PostedKeys ==
  ASSUME TypeOK, NEW w \in Workers
  PROVE  \A n \in DOMAIN req[w].posted : req[w].posted[n].key \in Keys
<1> DEFINE done == req[w].posted
<1>1. done \in Seq(Moves) /\ DOMAIN done = 1..Len(done)
  BY DocTypes
<1> HIDE DEF done
<1>2. \A n \in DOMAIN done : done[n] \in Moves
  BY <1>1
<1> QED
  BY <1>2 DEF done, Moves

\* The work of a request that the step of another does not disturb.
LEMMA OtherUnits ==
  ASSUME NEW u \in Workers, UnitWorkIsSound(u), TypeOK, RequestIsSound(u),
         req'[u] = req[u], tracking' = tracking,
         \A k \in Keys : rowLock'[k] = u <=> rowLock[k] = u,
         \A k \in Keys : rowLock[k] = u => SeenIn(u, k)' \subseteq SeenIn(u, k)
  PROVE  UnitWorkIsSound(u)'
<1>1. TouchedAreHeld(u)'
  BY DEF UnitWorkIsSound, TouchedAreHeld
<1>2. SeenIsCovered(u)'
  <2> SUFFICES ASSUME NEW k \in Keys, rowLock'[k] = u, Tracked(k[1])'
               PROVE  Cardinality(SeenIn(u, k)') <= req'[u].level[k] - Owed(u, k)'
    BY DEF SeenIsCovered
  <2>1. rowLock[k] = u /\ Tracked(k[1])
    BY DEF Tracked
  <2>2. Owed(u, k)' = Owed(u, k) /\ req'[u].level = req[u].level
    BY DEF Owed, Current
  <2>3. Cardinality(SeenIn(u, k)) <= req[u].level[k] - Owed(u, k)
    BY <2>1 DEF UnitWorkIsSound, SeenIsCovered
  <2>4. SeenIn(u, k)' \in SUBSET SeenIn(u, k) /\ SeenIn(u, k) \in SUBSET SerialsOf[k[1]]
    BY <2>1, UnitsOfKey
  <2>5. k[1] \in Items
    BY KeysArePairs
  <2> DEFINE a == SeenIn(u, k)'
             b == SeenIn(u, k)
  <2>6. Cardinality(a) <= Cardinality(b) /\ Cardinality(a) \in Nat /\ Cardinality(b) \in Nat
    <3>1. a \in SUBSET b /\ b \in SUBSET SerialsOf[k[1]] /\ a \in SUBSET SerialsOf[k[1]]
      BY <2>4
    <3> HIDE DEF a, b
    <3> QED
      BY <2>5, <3>1, FewerUnits, ItemSerials
  <2>7. req[u].level[k] \in Int /\ Owed(u, k) \in Int
    BY RequestTypes, CurrentTypes DEF Owed
  <2> QED
    BY <2>2, <2>3, <2>6, <2>7
<1>3. WorkIsNumbered(u)'
  <2>1. \A n \in DOMAIN req[u].todo : MoveIsNumbered(req[u].todo[n])'
    BY DEF UnitWorkIsSound, WorkIsNumbered, MoveIsNumbered, NumbersMatch, Tracked
  <2>2. TransferIsNumbered(u)'
    <3>1. \A n \in DOMAIN req[u].todo :
             req[u].todo[n].type = "transfer_in" => From(req[u].todo[n]) \in Keys
      BY RequestTypes, KeysArePairs DEF From, UnitWorkIsSound, WorkIsNumbered, TransferIsNumbered
    <3> QED
      BY <3>1 DEF UnitWorkIsSound, WorkIsNumbered, TransferIsNumbered
  <2>3. ASSUME req[u].step = "flush" PROVE rowLock'[Current(u).key] = u
    <3>1. Current(u).key \in Keys
      BY <2>3, CurrentTypes DEF RequestIsSound
    <3> QED
      BY <2>3, <3>1 DEF UnitWorkIsSound, WorkIsNumbered
  <2> QED
    BY <2>1, <2>2, <2>3 DEF WorkIsNumbered, Current
<1>4. DocWorkIsNumbered(u)'
  <2>1. \A n \in DOMAIN req[u].posted : req[u].posted[n].key \in Keys
    BY PostedKeys
  <2>2. \A d : LinesAreNumbered(d)' <=> LinesAreNumbered(d)
    BY DEF LinesAreNumbered, NumbersMatch, Tracked
  <2> QED
    BY <2>1, <2>2 DEF UnitWorkIsSound, DocWorkIsNumbered
<1> QED
  BY <1>1, <1>2, <1>3, <1>4 DEF UnitWorkIsSound

\* A step of w that changes no row, no unit and no document.
LEMMA UnitsStand ==
  ASSUME StockIInv, UnitsIInv, NEW w \in Workers,
         UNCHANGED <<rows, level, unit, tracking, docStatus>>,
         \A u \in Workers : u # w => req'[u] = req[u],
         \A u \in Workers, k \in Keys : u # w => (rowLock'[k] = u <=> rowLock[k] = u),
         UnitWorkIsSound(w)'
  PROVE  UnitsIInv'
<1>1. UnitsAreCovered'
  BY DEF UnitsIInv, UnitsAreCovered, UnitsIn, Tracked
<1>2. \A k \in Keys : UnitsIn(k[1], k[2])' # {} => k \in rows'
  BY DEF UnitsIInv, UnitsIn
<1>3. \A d \in Docs :
         docStatus'[d] = "sent" =>
            LinesAreNumbered(d)' /\ \A n \in DOMAIN Lines[d] : Lines[d][n].key \in rows'
  BY DEF UnitsIInv, LinesAreNumbered, NumbersMatch, Tracked
<1>4. ASSUME NEW u \in Workers, u # w PROVE UnitWorkIsSound(u)'
  <2>1. UnitWorkIsSound(u) /\ RequestIsSound(u) /\ TypeOK
    BY DEF UnitsIInv, StockIInv, RequestsAreSound
  <2>2. req'[u] = req[u] /\ \A k \in Keys : rowLock'[k] = u <=> rowLock[k] = u
    BY <1>4
  <2>3. \A k \in Keys : SeenIn(u, k)' = SeenIn(u, k)
    BY <2>2 DEF SeenIn, Seen
  <2> QED
    BY <2>1, <2>2, <2>3, OtherUnits
<1> QED
  BY <1>1, <1>2, <1>3, <1>4 DEF UnitsIInv

LEMMA RollbackKeepsUnits ==
  ASSUME StockIInv, UnitsIInv, NEW w \in Workers, Rollback(w)
  PROVE  UnitsIInv'
<1>1. EndOf(w) /\ UNCHANGED <<rows, level, unit, tracking, docStatus>>
  BY DEF Rollback, stockVars, itemVars, docVars
<1>2. /\ OthersLockedAsBefore(w) /\ req'[w] = Idle /\ \A k \in Keys : rowLock'[k] # w
  BY <1>1, EndFacts DEF StockIInv
<1>3. /\ req'[w].touched = {} /\ req'[w].todo = <<>> /\ req'[w].step = "idle"
      /\ req'[w].doc = NoOne
  BY <1>2, IdleIsRequest DEF Idle
<1>4. UnitWorkIsSound(w)'
  BY <1>2, <1>3 DEF UnitWorkIsSound, TouchedAreHeld, SeenIsCovered, WorkIsNumbered,
                    TransferIsNumbered, DocWorkIsNumbered
<1> QED
  BY <1>1, <1>2, <1>4, UnitsStand DEF OthersLockedAsBefore

\* A request begins with movements that have as many numbers as they move units.
LEMMA StartKeepsUnits ==
  ASSUME StockIInv, UnitsIInv, NEW w \in Workers, NEW moves \in Seq(Moves), NEW r \in Requests,
         Start(w, moves, r), r.touched = {}, r.posted = <<>>,
         \A n \in DOMAIN moves : MoveIsNumbered(moves[n]),
         \A n \in DOMAIN moves :
            moves[n].type = "transfer_in" =>
               /\ moves[n].delta > 0 /\ moves[n].origin \in Places
               /\ moves[n].origin # moves[n].key[2]
               /\ n # 1 /\ moves[1].type = "transfer_out" /\ moves[1].key = From(moves[n])
               /\ moves[1].delta = 0 - moves[n].delta,
         r.doc # NoOne => LinesAreNumbered(r.doc)
  PROVE  UnitsIInv'
<1>1. /\ req[w].step = "idle"
      /\ \A u \in Workers : u # w => req'[u] = req[u]
      /\ req'[w].step = (IF moves = <<>> THEN "commit" ELSE "lock")
      /\ req'[w].todo = moves /\ req'[w].doc = r.doc
      /\ req'[w].posted = <<>> /\ req'[w].touched = {}
      /\ UNCHANGED <<rows, level, unit, tracking, docStatus, rowLock>>
  BY StartFacts DEF StockIInv
<1>2. \A k \in Keys : rowLock[k] # w
  BY <1>1 DEF StockIInv, LevelsIInv, RowHolder
<1>3. TouchedAreHeld(w)' /\ SeenIsCovered(w)'
  BY <1>1, <1>2 DEF TouchedAreHeld, SeenIsCovered
<1>4. WorkIsNumbered(w)'
  <2>1. \A n \in DOMAIN moves : MoveIsNumbered(moves[n])'
    BY <1>1 DEF MoveIsNumbered, NumbersMatch, Tracked
  <2>2. TransferIsNumbered(w)'
    BY <1>1 DEF TransferIsNumbered
  <2>3. req'[w].step # "flush"
    BY <1>1
  <2> QED
    BY <1>1, <2>1, <2>2, <2>3 DEF WorkIsNumbered
<1>5. DocWorkIsNumbered(w)'
  <2>1. r.doc # NoOne => LinesAreNumbered(r.doc)'
    BY <1>1 DEF LinesAreNumbered, NumbersMatch, Tracked
  <2> QED
    BY <1>1, <2>1 DEF DocWorkIsNumbered
<1>6. UnitWorkIsSound(w)'
  BY <1>3, <1>4, <1>5 DEF UnitWorkIsSound
<1> QED
  BY <1>1, <1>6, UnitsStand

\* SerialsMatch is what a movement of n units asks of its numbers.
LEMMA MatchingNumbers ==
  ASSUME TypeOK, NEW i \in Items, NEW n \in Nat, NEW S, SerialsMatch(i, n, S)
  PROVE  NumbersMatch(i, n, S) /\ NumbersMatch(i, 0 - n, S)
<1>1. S \in SUBSET SerialsOf[i] /\ Cardinality(S) = IF Tracked(i) THEN n ELSE 0
  BY DEF SerialsMatch
<1>2. IsFiniteSet(S) /\ Cardinality(S) \in Nat
  BY <1>1, ItemSerials
<1>3. ~ Tracked(i) => S = {}
  BY <1>1, <1>2, FS_EmptySet
<1>4. Tracked(i) => n = Cardinality(S)
  BY <1>1
<1> QED
  BY <1>1, <1>3, <1>4 DEF NumbersMatch

LEMMA NoNumbers ==
  ASSUME NEW i
  PROVE  NumbersMatch(i, 0, {})
<1>1. Cardinality({}) = 0
  BY FS_EmptySet
<1> QED
  BY <1>1 DEF NumbersMatch

LEMMA OneMoveKeepsUnits ==
  ASSUME StockIInv, UnitsIInv, NEW w \in Workers, NEW k \in Keys, NEW n \in Int,
         NEW type \in MoveTypes \ {"transfer_in", "transfer_out"}, NEW S \in SUBSET Serials,
         NumbersMatch(k[1], n, S), Start(w, <<Move(k, n, type, S)>>, Idle)
  PROVE  UnitsIInv'
<1> DEFINE m == Move(k, n, type, S)
           moves == <<m>>
<1>1. m \in Moves /\ m.key = k /\ m.delta = n /\ m.type = type /\ m.serials = S
  BY MoveIsMove
<1>2. MoveIsNumbered(m) /\ m.type # "transfer_in"
  BY <1>1 DEF MoveIsNumbered
<1>3. Start(w, moves, Idle)
  OBVIOUS
<1> HIDE DEF m
<1>4. moves \in Seq(Moves) /\ DOMAIN moves = {1} /\ moves[1] = m
  BY <1>1
<1> HIDE DEF moves
<1>5. Idle.touched = {} /\ Idle.posted = <<>> /\ Idle.doc = NoOne /\ Idle \in Requests
  BY IdleIsRequest DEF Idle
<1>6. \A a \in DOMAIN moves : MoveIsNumbered(moves[a]) /\ moves[a].type # "transfer_in"
  BY <1>2, <1>4
<1> QED
  BY <1>3, <1>4, <1>5, <1>6, StartKeepsUnits

LEMMA TransferKeepsUnits ==
  ASSUME StockIInv, UnitsIInv, NEW w \in Workers, NEW i \in Items, NEW p \in Places,
         NEW q \in Places, NEW n \in Quantities, NEW S \in SUBSET Serials,
         Transfer(w, i, p, q, n, S)
  PROVE  UnitsIInv'
<1>1. PICK moves \in Seq(Moves) : StartsTransfer(w, moves, i, p, q, n, S)
  BY TransferMoves
<1>2. /\ Start(w, moves, Idle) /\ DOMAIN moves = 1..2
      /\ moves[1].type = "transfer_out" /\ moves[1].key = <<i, p>>
      /\ moves[1].delta = 0 - n /\ moves[1].serials = {}
      /\ moves[2].type = "transfer_in" /\ moves[2].key = <<i, q>>
      /\ moves[2].delta = n /\ moves[2].serials = S /\ moves[2].origin = p
  BY <1>1 DEF StartsTransfer
<1>3. n \in Nat \ {0} /\ p # q /\ SerialsMatch(i, n, S)
  BY QuantitiesAssumption DEF Transfer
<1>4. NumbersMatch(i, n, S)
  BY <1>3, MatchingNumbers DEF StockIInv
<1>5. MoveIsNumbered(moves[1]) /\ MoveIsNumbered(moves[2])
  BY <1>2, <1>4 DEF MoveIsNumbered
<1>6. From(moves[2]) = <<i, p>>
  BY <1>2 DEF From
<1>7. \A a \in DOMAIN moves : MoveIsNumbered(moves[a])
  BY <1>2, <1>5
<1>8. \A a \in DOMAIN moves :
            moves[a].type = "transfer_in" =>
               /\ moves[a].delta > 0 /\ moves[a].origin \in Places
               /\ moves[a].origin # moves[a].key[2]
               /\ a # 1 /\ moves[1].type = "transfer_out" /\ moves[1].key = From(moves[a])
               /\ moves[1].delta = 0 - moves[a].delta
  <2> SUFFICES ASSUME NEW a \in DOMAIN moves, moves[a].type = "transfer_in"
               PROVE  /\ moves[a].delta > 0 /\ moves[a].origin \in Places
                      /\ moves[a].origin # moves[a].key[2]
                      /\ a # 1 /\ moves[1].type = "transfer_out" /\ moves[1].key = From(moves[a])
                      /\ moves[1].delta = 0 - moves[a].delta
    OBVIOUS
  <2>1. a = 2
    BY <1>2
  <2>2. moves[2].delta > 0
    BY <1>2, <1>3
  <2> QED
    BY <1>2, <1>3, <1>6, <2>1, <2>2
<1>9. Idle.touched = {} /\ Idle.posted = <<>> /\ Idle.doc = NoOne /\ Idle \in Requests
  BY IdleIsRequest DEF Idle
<1> QED
  BY <1>2, <1>7, <1>8, <1>9, StartKeepsUnits

LEMMA SetOpeningKeepsUnits ==
  ASSUME StockIInv, UnitsIInv, NEW w \in Workers, NEW i \in Items, NEW e \in Openings[i],
         SetOpening(w, i, e)
  PROVE  UnitsIInv'
<1> DEFINE moves == OpeningMoves(i, e)
           r == [Idle EXCEPT !.item = i, !.entry = [p \in Places |-> e[p].quantity]]
<1>1. TypeOK
  BY DEF StockIInv
<1>2. /\ Start(w, moves, r) /\ moves \in Seq(Moves) /\ DOMAIN moves = 1..Len(moves)
      /\ Tracked(i) => \A p \in Places : opening[<<i, p>>] = 0
      /\ \A p \in Places : e[p].quantity > 0 => SerialsMatch(i, e[p].quantity, e[p].serials)
  <2>1. moves \in Seq(Moves)
    BY <1>1, OpeningMovesAreMoves DEF IsOpening
  <2>2. DOMAIN moves = 1..Len(moves)
    <3> HIDE DEF moves
    <3> QED
      BY <2>1
  <2> QED
    BY <2>1, <2>2 DEF SetOpening
<1>3. r \in Requests /\ r.doc = NoOne /\ r.touched = {} /\ r.posted = <<>>
  <2>1. [p \in Places |-> e[p].quantity] \in [Places -> Nat]
    BY <1>1, OpeningMovesAreMoves
  <2>2. Idle.touched = {} /\ Idle.posted = <<>> /\ Idle.doc = NoOne
    BY DEF Idle
  <2> USE IdleIsRequest
  <2> QED BY <2>1, <2>2 DEF Requests
<1>4. ASSUME NEW n \in DOMAIN moves
      PROVE  MoveIsNumbered(moves[n]) /\ moves[n].type # "transfer_in"
  <2> DEFINE k == moves[n].key
             p == k[2]
  <2>0. IsOpening(moves, i, e) /\ \A a \in Places : e[a].quantity \in Nat
    BY <1>1, OpeningMovesAreMoves
  <2> HIDE DEF moves
  <2>1. k \in Keys /\ p \in Places /\ k = <<i, p>>
    <3>1. moves[n] \in Moves
      BY <1>2
    <3>2. k \in Keys /\ k[1] = i
      BY <2>0, <3>1 DEF Moves, IsOpening
    <3> HIDE DEF k
    <3> QED
      BY <3>2, KeysArePairs
  <2>2. /\ moves[n].type = "opening" /\ moves[n].delta = e[p].quantity - opening[k]
        /\ moves[n].serials = e[p].serials
    BY <2>0 DEF IsOpening
  <2>3. opening[k] \in Int /\ e[p].quantity \in Nat
    BY <1>1, <2>0, <2>1 DEF TypeOK
  <2> HIDE DEF k, p
  <2>4. NumbersMatch(i, e[p].quantity, e[p].serials)
    <3>1. CASE e[p].quantity = 0
      <4>1. e[p].serials = {}
        BY <2>1, <3>1, OpeningsAssumption
      <4> QED
        BY <3>1, <4>1, NoNumbers
    <3>2. CASE e[p].quantity > 0
      BY <1>1, <1>2, <2>1, <2>3, <3>2, MatchingNumbers
    <3> QED
      BY <2>3, <3>1, <3>2
  <2>5. Tracked(i) => moves[n].delta = e[p].quantity
    BY <1>2, <2>1, <2>2, <2>3
  <2>6. NumbersMatch(i, moves[n].delta, moves[n].serials)
    BY <2>2, <2>4, <2>5 DEF NumbersMatch
  <2>7. moves[n].key[1] = i
    BY <2>1 DEF k
  <2> QED
    BY <2>2, <2>6, <2>7 DEF MoveIsNumbered
<1> HIDE DEF moves, r
<1> QED
  BY <1>2, <1>3, <1>4, StartKeepsUnits

\* A document is finalized with as many numbers as it moves units, and undone with the
\* same.
LEMMA DocumentKeepsUnits ==
  ASSUME StockIInv, UnitsIInv, NEW w \in Workers, NEW d \in Docs, Finalize(w, d) \/ Void(w, d)
  PROVE  UnitsIInv'
<1>1. TypeOK
  BY DEF StockIInv
<1>2. LinesAreNumbered(d)
  <2>1. CASE Finalize(w, d)
    <3> SUFFICES ASSUME NEW n \in DOMAIN Lines[d]
                 PROVE  NumbersMatch(Lines[d][n].key[1], Lines[d][n].quantity, Lines[d][n].serials)
      BY DEF LinesAreNumbered
    <3>1. SerialsMatch(Lines[d][n].key[1], Lines[d][n].quantity, Lines[d][n].serials)
      BY <2>1 DEF Finalize, TrackingValid
    <3>2. Lines[d][n].key[1] \in Items /\ Lines[d][n].quantity \in Nat
      BY LinesAreLines, KeysArePairs
    <3> QED
      BY <1>1, <3>1, <3>2, MatchingNumbers
  <2>2. CASE Void(w, d)
    BY <2>2 DEF Void, UnitsIInv
  <2> QED
    BY <2>1, <2>2
<1>3. PICK undo \in BOOLEAN : Start(w, DocMoves(d, undo), [Idle EXCEPT !.doc = d])
  BY DEF Finalize, Void
<1> DEFINE r == [Idle EXCEPT !.doc = d]
           moves == DocMoves(d, undo)
<1>4. r \in Requests /\ r.doc = d /\ r.touched = {} /\ r.posted = <<>>
  <2>1. Idle.touched = {} /\ Idle.posted = <<>>
    BY DEF Idle
  <2> USE IdleIsRequest
  <2> QED BY <2>1 DEF Requests
<1>5. moves \in Seq(Moves) /\ DOMAIN moves = DOMAIN Lines[d]
  BY <1>1, DocMovesAreMoves, LineMoves
<1>6. ASSUME NEW n \in DOMAIN moves
      PROVE  MoveIsNumbered(moves[n]) /\ moves[n].type # "transfer_in"
  <2> DEFINE line == Lines[d][n]
             sign == IF undo THEN 0 - Direction(d) ELSE Direction(d)
  <2>1. /\ moves[n].key = line.key /\ moves[n].serials = line.serials
        /\ moves[n].delta = sign * line.quantity
    BY <1>5, LineMoves
  <2>2. moves[n].type \in {"sale", "purchase", "sales_return"}
    BY <1>1, DocMovesAreMoves
  <2>3. sign = 1 \/ sign = 0 - 1
    <3>1. Direction(d) = 1 \/ Direction(d) = 0 - 1
      BY DEF Direction
    <3>2. Direction(d) = 0 - 1 => 0 - Direction(d) = 1
      BY <3>1
    <3> QED
      BY <3>1, <3>2
  <2>4. line.quantity \in Nat /\ NumbersMatch(line.key[1], line.quantity, line.serials)
    BY <1>2, <1>5, LinesAreLines DEF LinesAreNumbered
  <2>5. line.key[1] \in Items
    BY <1>5, LinesAreLines, KeysArePairs
  <2> HIDE DEF moves, line, sign
  <2>6. moves[n].delta = line.quantity \/ moves[n].delta = 0 - line.quantity
    BY <2>1, <2>3, <2>4
  <2>7. Cardinality(line.serials) \in Nat
    BY <2>4, <2>5, ItemSerials DEF NumbersMatch
  <2>8. NumbersMatch(line.key[1], moves[n].delta, line.serials)
    BY <2>4, <2>6, <2>7 DEF NumbersMatch
  <2> QED
    BY <2>1, <2>2, <2>8 DEF MoveIsNumbered
<1>7. Start(w, moves, r)
  BY <1>3
<1> HIDE DEF moves, r
<1> QED
  BY <1>2, <1>4, <1>5, <1>6, <1>7, StartKeepsUnits

LEMMA BeginKeepsUnits ==
  ASSUME StockIInv, UnitsIInv, NEW w \in Workers, Begin(w)
  PROVE  UnitsIInv'
<1>1. ASSUME NEW k \in Keys, Revalue(w, k) PROVE UnitsIInv'
  <2>1. Start(w, <<Move(k, 0, "revaluation", {})>>, Idle)
    BY <1>1 DEF Revalue
  <2>2. "revaluation" \in MoveTypes \ {"transfer_in", "transfer_out"}
    BY DEF MoveTypes
  <2>3. NumbersMatch(k[1], 0, {})
    BY NoNumbers
  <2>4. 0 \in Int /\ {} \in SUBSET Serials
    OBVIOUS
  <2> QED
    BY <2>1, <2>2, <2>3, <2>4, OneMoveKeepsUnits
<1>2. ASSUME NEW k \in Keys, NEW n \in Quantities, NEW S \in SUBSET Serials,
             Receive(w, k, n, S) \/ Remove(w, k, n, S)
      PROVE  UnitsIInv'
  <2>1. n \in Nat /\ k[1] \in Items /\ SerialsMatch(k[1], n, S)
    BY <1>2, QuantitiesAssumption, KeysArePairs DEF Receive, Remove
  <2>2. NumbersMatch(k[1], n, S) /\ NumbersMatch(k[1], 0 - n, S)
    BY <2>1, MatchingNumbers DEF StockIInv
  <2>3. PICK delta \in {n, 0 - n} : Start(w, <<Move(k, delta, "adjustment", S)>>, Idle)
    BY <1>2 DEF Receive, Remove
  <2>4. delta \in Int /\ NumbersMatch(k[1], delta, S)
    BY <2>1, <2>2
  <2>5. "adjustment" \in MoveTypes \ {"transfer_in", "transfer_out"}
    BY DEF MoveTypes
  <2> QED
    BY <2>3, <2>4, <2>5, OneMoveKeepsUnits
<1> QED
  BY <1>1, <1>2, TransferKeepsUnits, SetOpeningKeepsUnits, DocumentKeepsUnits DEF Begin

\* A request that works keeps what it says of its own work when it only locks a row.
LEMMA HoldKeepsUnits ==
  ASSUME StockIInv, UnitsIInv, NEW w \in Workers, req[w].step \in {"lock", "insert"},
         NEW old \in Int, Hold(w, old + Current(w).delta),
         rowLock[Current(w).key] \in {NoOne, w},
         Tracked(Current(w).key[1]) => Cardinality(SeenIn(w, Current(w).key)) <= old
  PROVE  UnitsIInv'
<1> DEFINE m == Current(w)
           k == m.key
           todo == req[w].todo
           q == old + m.delta
           out == m.type = "transfer_out"
<1>1. /\ todo # <<>> /\ TypeOK /\ TransferIsWhole(todo) /\ UnitWorkIsSound(w)
      /\ WorkIsNumbered(w) /\ TransferIsNumbered(w)
  BY DEF StockIInv, RequestsAreSound, RequestIsSound, UnitsIInv, UnitWorkIsSound, WorkIsNumbered
<1>2. /\ m = todo[1] /\ k \in Keys /\ m.delta \in Int /\ 1 \in DOMAIN todo
      /\ todo \in Seq(Moves) /\ DOMAIN todo = 1..Len(todo) /\ Len(todo) \in Nat \ {0}
      /\ Head(todo) = todo[1] /\ rowLock \in [Keys -> Workers \cup {NoOne}]
      /\ \A n \in DOMAIN todo : todo[n].key \in Keys /\ todo[n].delta \in Int
      /\ req[w].level \in [Keys -> Int] /\ \A j \in Keys : req[w].level[j] \in Int
  BY <1>1, CurrentTypes, RequestTypes, Sequences DEF TypeOK
<1>3. q \in Int
  BY <1>2
<1>4. /\ OthersLockedAsBefore(w)
      /\ rowLock' = [rowLock EXCEPT ![k] = w]
      /\ req'[w].level = [req[w].level EXCEPT ![k] = q]
      /\ req'[w].step = (IF out THEN "lock" ELSE "flush")
      /\ req'[w].todo = (IF out THEN Tail(todo) ELSE todo)
      /\ req'[w].doc = req[w].doc /\ req'[w].posted = req[w].posted
      /\ req'[w].touched = req[w].touched /\ req'[w].unit = req[w].unit
      /\ UNCHANGED <<rows, level, unit, tracking, docStatus>>
  <2> HIDE DEF todo
  <2> QED
    BY <1>1, <1>3, HoldFacts DEF todo
<1>5. rowLock'[k] = w /\ \A j \in Keys : j # k => rowLock'[j] = rowLock[j]
  BY <1>2, <1>4
<1>6. \A j \in Keys : rowLock[j] = w => rowLock'[j] = w
  BY <1>5
<1>7. out => /\ Len(todo) = 2 /\ todo[2].type = "transfer_in"
             /\ todo[2].delta > 0 /\ todo[2].origin \in Places
             /\ todo[2].origin # todo[2].key[2]
             /\ From(todo[2]) = k /\ m.delta = 0 - todo[2].delta /\ todo[2].delta \in Int
  <2> SUFFICES ASSUME out
               PROVE  /\ Len(todo) = 2 /\ todo[2].type = "transfer_in"
                      /\ todo[2].delta > 0 /\ todo[2].origin \in Places
                      /\ todo[2].origin # todo[2].key[2]
                      /\ From(todo[2]) = k /\ m.delta = 0 - todo[2].delta /\ todo[2].delta \in Int
    OBVIOUS
  <2>1. Len(todo) = 2 /\ todo[2].type = "transfer_in" /\ 2 \in DOMAIN todo
    BY <1>1, <1>2 DEF TransferIsWhole
  <2> QED
    BY <1>1, <1>2, <2>1 DEF TransferIsNumbered
<1>8. out => /\ Tail(todo) # <<>> /\ Tail(todo)[1] = todo[2] /\ DOMAIN Tail(todo) = {1}
             /\ Head(Tail(todo)) = todo[2]
  <2> SUFFICES ASSUME out
               PROVE  /\ Tail(todo) # <<>> /\ Tail(todo)[1] = todo[2] /\ DOMAIN Tail(todo) = {1}
                      /\ Head(Tail(todo)) = todo[2]
    OBVIOUS
  <2>1. todo \in Seq(Moves) /\ todo # <<>> /\ Len(todo) = 2
    BY <1>1, <1>2, <1>7
  <2> HIDE DEF todo, out
  <2>2. /\ Tail(todo) \in Seq(Moves) /\ (Tail(todo) = <<>> <=> Len(todo) = 1)
        /\ DOMAIN Tail(todo) = 1..(Len(todo) - 1)
        /\ \A n \in 1..(Len(todo) - 1) : Tail(todo)[n] = todo[n + 1]
    BY <2>1, Sequences
  <2>3. Len(todo) - 1 = 1 /\ Len(todo) # 1 /\ 1 \in 1..(Len(todo) - 1)
    BY <2>1
  <2>4. Tail(todo) # <<>> /\ Tail(todo)[1] = todo[1 + 1] /\ DOMAIN Tail(todo) = 1..1
    BY <2>2, <2>3
  <2>5. Head(Tail(todo)) = Tail(todo)[1]
    BY <2>2, <2>4, Sequences
  <2> QED
    BY <2>4, <2>5
<1>9. \A j \in Keys : SeenIn(w, j)' = SeenIn(w, j)
  BY <1>4 DEF SeenIn, Seen
<1>10. TouchedAreHeld(w)'
  BY <1>1, <1>4, <1>6 DEF UnitWorkIsSound, TouchedAreHeld
<1>11. ASSUME NEW j \in Keys
       PROVE  Owed(w, j)' = IF j = k THEN m.delta ELSE Owed(w, j)
  <2>1. CASE out
    <3>1. /\ req'[w].todo = Tail(todo) /\ Tail(todo) # <<>> /\ Current(w)' = todo[2]
          /\ req'[w].step = "lock"
      BY <1>4, <1>8, <2>1 DEF Current
    <3>2. Owed(w, j)' = IF From(todo[2]) = j THEN 0 - todo[2].delta ELSE 0
      BY <1>7, <2>1, <3>1 DEF Owed
    <3>3. Owed(w, j) = 0
      BY <1>1, <2>1 DEF Owed
    <3> QED
      BY <1>7, <2>1, <3>2, <3>3
  <2>2. CASE ~ out
    <3>1. req'[w].todo = todo /\ Current(w)' = m /\ req'[w].step = "flush"
      BY <1>4, <2>2 DEF Current
    <3>2. Owed(w, j)' = IF k = j THEN m.delta
                        ELSE IF m.type = "transfer_in" /\ From(m) = j THEN 0 - m.delta ELSE 0
      BY <1>1, <3>1 DEF Owed
    <3>3. Owed(w, j) = IF m.type = "transfer_in" /\ From(m) = j THEN 0 - m.delta ELSE 0
      BY <1>1 DEF Owed
    <3> QED
      BY <3>2, <3>3
  <2> QED
    BY <2>1, <2>2
<1>12. SeenIsCovered(w)'
  <2> SUFFICES ASSUME NEW j \in Keys, rowLock'[j] = w, Tracked(j[1])'
               PROVE  Cardinality(SeenIn(w, j)') <= req'[w].level[j] - Owed(w, j)'
    BY DEF SeenIsCovered
  <2>1. Tracked(j[1])
    BY <1>4 DEF Tracked
  <2>2. Cardinality(SeenIn(w, j)) \in Nat /\ SeenIn(w, j)' = SeenIn(w, j)
    BY <1>9, UnitsOfKey
  <2>3. CASE j = k
    <3>1. req'[w].level[j] = q /\ Owed(w, j)' = m.delta
      BY <1>2, <1>4, <1>11, <2>3
    <3>2. Cardinality(SeenIn(w, j)) <= old
      BY <2>1, <2>3
    <3> HIDE DEF m, k
    <3> QED
      BY <1>2, <2>2, <3>1, <3>2
  <2>4. CASE j # k
    <3>1. req'[w].level[j] = req[w].level[j] /\ Owed(w, j)' = Owed(w, j) /\ rowLock[j] = w
      BY <1>2, <1>4, <1>5, <1>11, <2>4
    <3> QED
      BY <1>1, <2>1, <2>2, <3>1 DEF UnitWorkIsSound, SeenIsCovered
  <2> QED
    BY <2>3, <2>4
<1>13. WorkIsNumbered(w)'
  <2>1. \A x : MoveIsNumbered(x)' <=> MoveIsNumbered(x)
    BY <1>4 DEF MoveIsNumbered, NumbersMatch, Tracked
  <2>2. CASE out
    <3>1. /\ req'[w].todo = Tail(todo) /\ DOMAIN Tail(todo) = {1} /\ Tail(todo)[1] = todo[2]
          /\ req'[w].step = "lock" /\ 2 \in DOMAIN todo
      BY <1>2, <1>4, <1>7, <1>8, <2>2
    <3>2. MoveIsNumbered(todo[2])
      BY <1>1, <3>1 DEF WorkIsNumbered
    <3>3. TransferIsNumbered(w)'
      BY <1>5, <1>7, <2>2, <3>1 DEF TransferIsNumbered
    <3> QED
      BY <2>1, <3>1, <3>2, <3>3 DEF WorkIsNumbered
  <2>3. CASE ~ out
    <3>1. req'[w].todo = todo /\ Current(w)' = m
      BY <1>4, <2>3 DEF Current
    <3>2. \A n \in DOMAIN todo : todo[n].type = "transfer_in" => From(todo[n]) \in Keys
      BY <1>1, <1>2, KeysArePairs DEF From, TransferIsNumbered
    <3>3. TransferIsNumbered(w)'
      BY <1>1, <1>6, <3>1, <3>2 DEF TransferIsNumbered
    <3> QED
      BY <1>1, <1>5, <2>1, <3>1, <3>3 DEF WorkIsNumbered
  <2> QED
    BY <2>2, <2>3
<1>14. DocWorkIsNumbered(w)'
  <2>1. \A n \in DOMAIN req[w].posted : req[w].posted[n].key \in Keys
    BY <1>1, PostedKeys
  <2>2. \A d : LinesAreNumbered(d)' <=> LinesAreNumbered(d)
    BY <1>4 DEF LinesAreNumbered, NumbersMatch, Tracked
  <2> QED
    BY <1>1, <1>4, <1>6, <2>1, <2>2 DEF UnitWorkIsSound, DocWorkIsNumbered
<1>15. UnitWorkIsSound(w)'
  BY <1>10, <1>12, <1>13, <1>14 DEF UnitWorkIsSound
<1> HIDE DEF m, k, todo, q, out
<1> QED
  BY <1>4, <1>15, UnitsStand DEF OthersLockedAsBefore

\* What it adds to is at least the units it sees: those it has put there and those
\* that are committed.
LEMMA LevelStepsKeepUnits ==
  ASSUME StockIInv, UnitsIInv, NEW w \in Workers, LockLevel(w) \/ InsertLevel(w)
  PROVE  UnitsIInv'
<1> DEFINE m == Current(w)
           k == m.key
           old == IF req[w].step = "lock" THEN Quantity(w, k) ELSE 0
<1>1. /\ req[w].step \in {"lock", "insert"} /\ req[w].todo # <<>> /\ TypeOK
      /\ UnitWorkIsSound(w) /\ WorkIsNumbered(w) /\ TransferIsNumbered(w)
      /\ rowLock[k] \in {NoOne, w}
      /\ req[w].step = "insert" => rowLock[k] # w /\ k \notin rows
  BY DEF LockLevel, InsertLevel, RowFree, StockIInv, RequestsAreSound, RequestIsSound,
         UnitsIInv, UnitWorkIsSound, WorkIsNumbered
<1>2. /\ k \in Keys /\ m = req[w].todo[1] /\ 1 \in DOMAIN req[w].todo /\ m.delta \in Int
      /\ level[k] \in Int /\ req[w].level[k] \in Int
  BY <1>1, CurrentTypes, RequestTypes DEF TypeOK
<1>3. old \in Int
  BY <1>2 DEF Quantity
<1>4. ASSUME Tracked(k[1]) PROVE Cardinality(SeenIn(w, k)) <= old
  <2>1. CASE rowLock[k] = w
    <3>1. old = req[w].level[k]
      BY <1>1, <2>1 DEF Quantity
    <3>2. ~ (m.type = "transfer_in" /\ From(m) = k)
      <4>1. m.type = "transfer_in" => m.origin # k[2]
        BY <1>1, <1>2 DEF TransferIsNumbered
      <4>2. From(m)[2] = m.origin
        BY DEF From
      <4> QED
        BY <4>1, <4>2
    <3>3. Owed(w, k) = 0
      BY <1>1, <3>2 DEF Owed
    <3>4. Cardinality(SeenIn(w, k)) <= req[w].level[k] - Owed(w, k)
      BY <1>1, <1>2, <1>4, <2>1 DEF UnitWorkIsSound, SeenIsCovered
    <3> HIDE DEF old, k
    <3> QED
      BY <1>2, <3>1, <3>3, <3>4
  <2>2. CASE rowLock[k] # w
    <3>1. SeenIn(w, k) \in SUBSET UnitsIn(k[1], k[2])
      BY <1>2, <2>2, SeenIsCommitted
    <3>2. UnitsIn(k[1], k[2]) \in SUBSET SerialsOf[k[1]] /\ k[1] \in Items
      BY <1>2, UnitsOfKey, KeysArePairs
    <3>3. Cardinality(UnitsIn(k[1], k[2])) <= level[k]
      BY <1>2, <1>4 DEF UnitsIInv, UnitsAreCovered
    <3>4. /\ Cardinality(SeenIn(w, k)) \in Nat /\ Cardinality(UnitsIn(k[1], k[2])) \in Nat
      BY <1>2, UnitsOfKey
    <3>5. Cardinality(SeenIn(w, k)) <= Cardinality(UnitsIn(k[1], k[2]))
      <4> DEFINE a == SeenIn(w, k)
                 b == UnitsIn(k[1], k[2])
      <4>1. a \in SUBSET b /\ b \in SUBSET SerialsOf[k[1]]
        BY <3>1, <3>2
      <4> HIDE DEF a, b
      <4>2. Cardinality(a) <= Cardinality(b)
        BY <3>2, <4>1, FewerUnits
      <4> QED
        BY <4>2 DEF a, b
    <3>6. old = level[k]
      <4>1. CASE req[w].step = "lock"
        BY <2>2, <4>1 DEF Quantity
      <4>2. CASE req[w].step = "insert"
        BY <1>1, <1>2, <4>2 DEF StockIInv, LevelsIInv
      <4> QED
        BY <1>1, <4>1, <4>2
    <3> HIDE DEF old, k
    <3> QED
      BY <1>2, <3>3, <3>4, <3>5, <3>6
  <2> QED
    BY <2>1, <2>2
<1>5. Hold(w, old + m.delta)
  <2>1. CASE LockLevel(w)
    BY <2>1 DEF LockLevel
  <2>2. CASE InsertLevel(w)
    <3>1. Hold(w, m.delta) /\ req[w].step = "insert"
      BY <2>2 DEF InsertLevel
    <3>2. old + m.delta = m.delta
      <4>1. old = 0
        BY <3>1
      <4> HIDE DEF old, m
      <4> QED
        BY <1>2, <4>1
    <3> HIDE DEF old, m
    <3> QED
      BY <3>1, <3>2
  <2> QED
    BY <2>1, <2>2
<1> HIDE DEF old
<1> QED
  BY <1>1, <1>3, <1>4, <1>5, HoldKeepsUnits

LEMMA MissLevelKeepsUnits ==
  ASSUME StockIInv, UnitsIInv, NEW w \in Workers, MissLevel(w)
  PROVE  UnitsIInv'
<1>1. /\ TypeOK /\ UnitWorkIsSound(w) /\ req[w].todo # <<>>
      /\ \A n \in DOMAIN req[w].todo :
            req[w].todo[n].type = "transfer_in" => From(req[w].todo[n]) \in Keys
  <2>1. req[w].step = "lock" /\ TypeOK /\ UnitWorkIsSound(w)
    BY DEF MissLevel, StockIInv, UnitsIInv
  <2> QED
    BY <2>1, RequestTypes, KeysArePairs
       DEF StockIInv, RequestsAreSound, RequestIsSound, UnitWorkIsSound, WorkIsNumbered,
           TransferIsNumbered, From
<1>2. /\ req[w].step = "lock" /\ req'[w].step = "insert" /\ req'[w].todo = req[w].todo
      /\ \A u \in Workers : u # w => req'[u] = req[u]
      /\ req'[w].level = req[w].level
      /\ req'[w].doc = req[w].doc /\ req'[w].posted = req[w].posted
      /\ req'[w].touched = req[w].touched /\ req'[w].unit = req[w].unit
      /\ UNCHANGED <<rows, level, unit, tracking, docStatus, rowLock>>
  BY <1>1, MissFacts
<1>3. TouchedAreHeld(w)'
  BY <1>1, <1>2 DEF UnitWorkIsSound, TouchedAreHeld
<1>4. SeenIsCovered(w)'
  <2>1. \A k \in Keys : SeenIn(w, k)' = SeenIn(w, k)
    BY <1>2 DEF SeenIn, Seen
  <2>2. \A k \in Keys : Owed(w, k)' = Owed(w, k)
    BY <1>2 DEF Owed, Current
  <2> QED
    BY <1>1, <1>2, <2>1, <2>2 DEF UnitWorkIsSound, SeenIsCovered, Tracked
<1>5. WorkIsNumbered(w)'
  <2>1. \A n \in DOMAIN req[w].todo : MoveIsNumbered(req[w].todo[n])'
    BY <1>1, <1>2 DEF UnitWorkIsSound, WorkIsNumbered, MoveIsNumbered, NumbersMatch, Tracked
  <2>2. TransferIsNumbered(w)'
    BY <1>1, <1>2 DEF UnitWorkIsSound, WorkIsNumbered, TransferIsNumbered
  <2> QED
    BY <1>2, <2>1, <2>2 DEF WorkIsNumbered
<1>6. DocWorkIsNumbered(w)'
  BY <1>1, <1>2 DEF UnitWorkIsSound, DocWorkIsNumbered, LinesAreNumbered, NumbersMatch, Tracked
<1>7. UnitWorkIsSound(w)'
  BY <1>3, <1>4, <1>5, <1>6 DEF UnitWorkIsSound
<1> QED
  BY <1>2, <1>7, UnitsStand

\* Units that leave a place leave that many fewer there.
LEMMA UnitsLeave ==
  ASSUME NEW i \in Items, NEW S \in SUBSET SerialsOf[i], NEW T \in SUBSET S,
         NEW R \in SUBSET (S \ T)
  PROVE  Cardinality(R) + Cardinality(T) <= Cardinality(S)
<1>1. IsFiniteSet(S) /\ IsFiniteSet(T) /\ IsFiniteSet(R)
  <2>1. T \in SUBSET SerialsOf[i] /\ R \in SUBSET SerialsOf[i]
    OBVIOUS
  <2> QED
    BY <2>1, ItemSerials
<1>2. R \cap T = {} /\ R \cup T \in SUBSET S
  OBVIOUS
<1>3. /\ Cardinality(R \cup T) = Cardinality(R) + Cardinality(T) - Cardinality(R \cap T)
      /\ Cardinality(R \cup T) <= Cardinality(S)
  BY <1>1, <1>2, FS_Union, FS_Subset
<1>4. Cardinality(R \cap T) = 0
  BY <1>2, FS_EmptySet
<1>5. Cardinality(R) \in Nat /\ Cardinality(T) \in Nat /\ Cardinality(S) \in Nat
  BY <1>1, FS_CardinalityType
<1> QED
  BY <1>3, <1>4, <1>5

LEMMA UnitsJoin ==
  ASSUME NEW i \in Items, NEW S \in SUBSET SerialsOf[i], NEW T \in SUBSET SerialsOf[i],
         NEW R \in SUBSET (S \cup T)
  PROVE  Cardinality(R) <= Cardinality(S) + Cardinality(T)
<1>1. IsFiniteSet(S) /\ IsFiniteSet(T)
  BY ItemSerials
<1>2. IsFiniteSet(S \cup T) /\ IsFiniteSet(S \cap T)
      /\ Cardinality(S \cup T) = Cardinality(S) + Cardinality(T) - Cardinality(S \cap T)
  <2>1. S \cap T \in SUBSET SerialsOf[i] /\ S \cup T \in SUBSET SerialsOf[i]
    OBVIOUS
  <2> QED
    BY <1>1, <2>1, ItemSerials, FS_Union
<1>3. Cardinality(R) <= Cardinality(S \cup T) /\ IsFiniteSet(R)
  BY <1>2, FS_Subset
<1>4. /\ Cardinality(R) \in Nat /\ Cardinality(S) \in Nat /\ Cardinality(T) \in Nat
      /\ Cardinality(S \cap T) \in Nat
  BY <1>1, <1>2, <1>3, FS_CardinalityType
<1> QED
  BY <1>2, <1>3, <1>4

LEMMA NoOther ==
  ASSUME NEW k \in Keys, NEW j \in Keys, NEW s,
         s \in SerialsOf[k[1]], s \in SerialsOf[j[1]], k[2] = j[2]
  PROVE  j = k
<1>1. k[1] = j[1]
  BY SerialsOfAssumption, KeysArePairs
<1> QED
  BY <1>1, KeysArePairs

\* A movement that is flushed puts as many units in stock, or takes as many out, as
\* its request has added to the level or taken off it.
LEMMA FlushedUnits ==
  ASSUME StockIInv, UnitsIInv, NEW w \in Workers, Flush(w), NEW j \in Keys,
         rowLock[j] = w, Tracked(j[1])
  PROVE  Cardinality(SeenIn(w, j)') <= req[w].level[j]
<1> DEFINE m == Current(w)
           k == m.key
           T == m.serials
           a == SeenIn(w, j)
           b == SeenIn(w, j)'
<1>1. /\ req[w].step = "flush" /\ req[w].todo # <<>> /\ TypeOK /\ m.type # "transfer_out"
      /\ UnitWorkIsSound(w) /\ WorkIsNumbered(w) /\ TransferIsNumbered(w)
      /\ \A s \in T : Movable(m, Seen(w, s))
  BY DEF Flush, StockIInv, RequestsAreSound, RequestIsSound, UnitsIInv, UnitWorkIsSound,
         WorkIsNumbered
<1>2. /\ k \in Keys /\ k[1] \in Items /\ m = req[w].todo[1] /\ 1 \in DOMAIN req[w].todo
      /\ m.delta \in Int /\ m \in Moves /\ k[2] \in Places
      /\ req[w].level[j] \in Int /\ j[1] \in Items /\ j[2] \in Places
  BY <1>1, CurrentTypes, RequestTypes, KeysArePairs
<1>3. NumbersMatch(k[1], m.delta, T)
  BY <1>1, <1>2 DEF WorkIsNumbered, MoveIsNumbered
<1>4. T \in SUBSET SerialsOf[k[1]] /\ T \in SUBSET Serials /\ Cardinality(T) \in Nat
  <2>1. T \in SUBSET SerialsOf[k[1]]
    BY <1>3 DEF NumbersMatch
  <2> QED
    BY <1>2, <2>1, ItemSerials
<1>5. /\ req'[w].touched = req[w].touched \cup T
      /\ req'[w].unit = [s \in Serials |-> IF s \in T THEN MovedUnit(m) ELSE req[w].unit[s]]
      /\ unit' = unit
  BY <1>1, FlushFacts
<1>6. \A s \in Serials : Seen(w, s)' = IF s \in T THEN MovedUnit(m) ELSE Seen(w, s)
  BY <1>4, <1>5 DEF Seen
<1>7. /\ a \in SUBSET SerialsOf[j[1]] /\ b \in SUBSET SerialsOf[j[1]]
      /\ SerialsOf[j[1]] \in SUBSET Serials
      /\ \A s : s \in a <=> s \in SerialsOf[j[1]] /\ Seen(w, s) = InStock(j[2])
      /\ \A s : s \in b <=> s \in SerialsOf[j[1]] /\ Seen(w, s)' = InStock(j[2])
  BY <1>2, ItemSerials DEF SeenIn, InStock
<1>8. Cardinality(a) \in Nat /\ Cardinality(b) \in Nat
  BY <1>2, <1>7, ItemSerials
<1>9. Cardinality(a) <= req[w].level[j] - Owed(w, j)
  BY DEF UnitsIInv, UnitWorkIsSound, SeenIsCovered
<1>10. Owed(w, j) = IF k = j THEN m.delta
                    ELSE IF m.type = "transfer_in" /\ From(m) = j THEN 0 - m.delta ELSE 0
  BY <1>1 DEF Owed
<1>11. m.type = "transfer_in" => m.delta > 0
  BY <1>1, <1>2 DEF TransferIsNumbered
<1>12. \A p \in Places : MovedUnit(m) = InStock(p) => m.delta > 0 /\ p = k[2]
  BY DEF MovedUnit, InStock
\* Units put in stock here.
<1>13. CASE m.delta > 0 /\ j = k
  <2>1. b \in SUBSET (a \cup T)
    BY <1>6, <1>7
  <2>2. m.delta = Cardinality(T)
    <3>1. m.delta = Cardinality(T) \/ m.delta = 0 - Cardinality(T)
      BY <1>3, <1>13 DEF NumbersMatch
    <3> HIDE DEF m, T
    <3> QED
      BY <1>2, <1>4, <1>13, <3>1
  <2>3. Owed(w, j) = m.delta
    BY <1>10, <1>13
  <2> HIDE DEF m, k, T, a, b
  <2>4. Cardinality(b) <= Cardinality(a) + Cardinality(T)
    BY <1>2, <1>4, <1>7, <1>13, <2>1, UnitsJoin
  <2>5. Cardinality(b) <= req[w].level[j]
    BY <1>2, <1>4, <1>8, <1>9, <2>2, <2>3, <2>4
  <2> QED
    BY <2>5 DEF b
\* No unit is put in stock here.
<1>14. ASSUME ~ (m.delta > 0 /\ j = k) PROVE b \in SUBSET (a \ T)
  <2> SUFFICES ASSUME NEW s \in b PROVE s \in a \ T
    OBVIOUS
  <2>1. s \in SerialsOf[j[1]] /\ s \in Serials /\ Seen(w, s)' = InStock(j[2])
    BY <1>7
  <2>2. s \notin T
    <3> SUFFICES ASSUME s \in T PROVE FALSE
      OBVIOUS
    <3>1. MovedUnit(m) = InStock(j[2])
      BY <1>6, <2>1
    <3>2. m.delta > 0 /\ j[2] = k[2]
      BY <1>2, <1>12, <3>1
    <3>3. j = k
      <4>1. s \in SerialsOf[k[1]]
        BY <1>4
      <4> HIDE DEF k
      <4> QED
        BY <1>2, <2>1, <3>2, <4>1, NoOther
    <3> QED
      BY <1>14, <3>2, <3>3
  <2> QED
    BY <1>6, <1>7, <2>1, <2>2
\* Units taken out of stock here, or to be put in stock elsewhere.
<1>15. CASE (j = k /\ ~ m.delta > 0) \/ (j # k /\ m.type = "transfer_in" /\ From(m) = j)
  <2>1. T \in SUBSET a /\ k[1] = j[1]
    <3>1. k[1] = j[1]
      BY <1>15 DEF From
    <3>2. \A s \in T : Seen(w, s) = InStock(j[2])
      <4>1. CASE j = k /\ ~ m.delta > 0
        BY <1>1, <1>11, <4>1 DEF Movable, InStock
      <4>2. CASE m.type = "transfer_in" /\ From(m) = j
        <5>1. j[2] = m.origin
          BY <4>2 DEF From
        <5> QED
          BY <1>1, <4>2, <5>1 DEF Movable, InStock
      <4> QED
        BY <1>15, <4>1, <4>2
    <3> QED
      BY <1>4, <1>7, <3>1, <3>2
  <2>2. 0 - Owed(w, j) <= Cardinality(T)
    <3>1. m.delta = Cardinality(T) \/ m.delta = 0 - Cardinality(T)
      BY <1>3, <2>1 DEF NumbersMatch, Tracked
    <3>2. CASE j = k /\ ~ m.delta > 0
      <4>1. Owed(w, j) = m.delta
        BY <1>10, <3>2
      <4> HIDE DEF m, T
      <4> QED
        BY <1>2, <1>4, <3>1, <3>2, <4>1
    <3>3. CASE j # k /\ m.type = "transfer_in" /\ From(m) = j
      <4>1. Owed(w, j) = 0 - m.delta /\ m.delta > 0
        BY <1>10, <1>11, <3>3
      <4> HIDE DEF m, T
      <4> QED
        BY <1>2, <1>4, <3>1, <4>1
    <3> QED
      BY <1>15, <3>2, <3>3
  <2>3. b \in SUBSET (a \ T)
    BY <1>14, <1>15
  <2>4. Owed(w, j) \in Int
    <3> HIDE DEF m, k
    <3> QED
      BY <1>2, <1>10
  <2> HIDE DEF m, k, T, a, b
  <2>5. Cardinality(b) + Cardinality(T) <= Cardinality(a)
    BY <1>2, <1>7, <2>1, <2>3, UnitsLeave
  <2>6. Cardinality(b) <= req[w].level[j]
    BY <1>2, <1>4, <1>8, <1>9, <2>2, <2>4, <2>5
  <2> QED
    BY <2>6 DEF b
<1>16. CASE j # k /\ ~ (m.type = "transfer_in" /\ From(m) = j)
  <2>1. Owed(w, j) = 0 /\ b \in SUBSET a
    BY <1>10, <1>14, <1>16
  <2> HIDE DEF m, k, T, a, b
  <2>2. Cardinality(b) <= Cardinality(a)
    BY <1>2, <1>7, <2>1, FewerUnits
  <2>3. Cardinality(b) <= req[w].level[j]
    BY <1>2, <1>8, <1>9, <2>1, <2>2
  <2> QED
    BY <2>3 DEF b
<1> QED
  BY <1>13, <1>15, <1>16

LEMMA FlushKeepsUnits ==
  ASSUME StockIInv, UnitsIInv, NEW w \in Workers, Flush(w)
  PROVE  UnitsIInv'
<1> DEFINE m == Current(w)
           k == m.key
           T == m.serials
           todo == req[w].todo
<1>1. /\ req[w].step = "flush" /\ todo # <<>> /\ TypeOK /\ m.type # "transfer_out"
      /\ UnitWorkIsSound(w) /\ WorkIsNumbered(w) /\ TransferIsNumbered(w)
      /\ rowLock[k] = w
  BY DEF Flush, StockIInv, RequestsAreSound, RequestIsSound, UnitsIInv, UnitWorkIsSound,
         WorkIsNumbered
<1>2. /\ k \in Keys /\ m = todo[1] /\ 1 \in DOMAIN todo /\ m \in Moves
      /\ todo \in Seq(Moves) /\ DOMAIN todo = 1..Len(todo) /\ Len(todo) \in Nat \ {0}
      /\ \A j \in Keys : req[w].level[j] \in Int
  BY <1>1, CurrentTypes, RequestTypes, Sequences
<1>3. /\ Tail(todo) \in Seq(Moves) /\ DOMAIN Tail(todo) = 1..(Len(todo) - 1)
      /\ \A n \in 1..(Len(todo) - 1) : Tail(todo)[n] = todo[n + 1]
      /\ Tail(todo) # <<>> => Head(Tail(todo)) = Tail(todo)[1] /\ 1 \in DOMAIN Tail(todo)
  <2> HIDE DEF todo
  <2>1. /\ Tail(todo) \in Seq(Moves) /\ DOMAIN Tail(todo) = 1..(Len(todo) - 1)
        /\ \A n \in 1..(Len(todo) - 1) : Tail(todo)[n] = todo[n + 1]
    BY <1>1, <1>2, Sequences
  <2>2. Tail(todo) # <<>> => Head(Tail(todo)) = Tail(todo)[1] /\ 1 \in DOMAIN Tail(todo)
    BY <2>1, Sequences
  <2> QED
    BY <2>1, <2>2
<1>4. /\ \A u \in Workers : u # w => req'[u] = req[u]
      /\ req'[w].step = (IF Tail(todo) = <<>> THEN "commit" ELSE "lock")
      /\ req'[w].todo = Tail(todo) /\ req'[w].level = req[w].level
      /\ req'[w].doc = req[w].doc
      /\ req'[w].posted = (IF req[w].doc = NoOne THEN req[w].posted ELSE Append(req[w].posted, m))
      /\ req'[w].touched = req[w].touched \cup T
      /\ req'[w].unit = [s \in Serials |-> IF s \in T THEN MovedUnit(m) ELSE req[w].unit[s]]
      /\ UNCHANGED <<rows, level, unit, tracking, docStatus, rowLock>>
  BY <1>1, FlushFacts
<1>5. T \in SUBSET SerialsOf[k[1]] /\ T \in SUBSET Serials
  <2>1. MoveIsNumbered(todo[1])
    BY <1>1, <1>2 DEF WorkIsNumbered
  <2>2. NumbersMatch(k[1], m.delta, T)
    BY <1>1, <1>2, <2>1 DEF MoveIsNumbered
  <2>3. k[1] \in Items
    BY <1>2, KeysArePairs
  <2> QED
    BY <2>2, <2>3, ItemSerials DEF NumbersMatch
\* No movement that is left is the second of a transfer.
<1>6. \A n \in DOMAIN Tail(todo) :
         /\ n + 1 \in DOMAIN todo /\ Tail(todo)[n] = todo[n + 1]
         /\ Tail(todo)[n].type # "transfer_in"
  <2> SUFFICES ASSUME NEW n \in DOMAIN Tail(todo)
               PROVE  /\ n + 1 \in DOMAIN todo /\ Tail(todo)[n] = todo[n + 1]
                      /\ Tail(todo)[n].type # "transfer_in"
    OBVIOUS
  <2>1. n + 1 \in DOMAIN todo /\ n + 1 # 1 /\ Tail(todo)[n] = todo[n + 1]
    <3> HIDE DEF todo
    <3> QED
      BY <1>2, <1>3
  <2>2. todo[n + 1].type # "transfer_in"
    BY <1>1, <1>2, <2>1 DEF TransferIsNumbered
  <2> QED
    BY <2>1, <2>2
<1>7. TouchedAreHeld(w)'
  <2> SUFFICES ASSUME NEW s \in req'[w].touched, NEW j \in Keys, s \in SerialsOf[j[1]],
                      req'[w].unit[s] = InStock(j[2])
               PROVE  rowLock'[j] = w
    BY DEF TouchedAreHeld, InStock
  <2>1. s \in Serials /\ j[2] \in Places
    BY ItemSerials, KeysArePairs
  <2>2. CASE s \in T
    <3>1. MovedUnit(m) = InStock(j[2])
      BY <1>4, <2>1, <2>2
    <3>2. j[2] = k[2]
      BY <2>1, <3>1 DEF MovedUnit, InStock
    <3>3. s \in SerialsOf[k[1]]
      BY <1>5, <2>2
    <3>4. j = k
      <4> HIDE DEF k
      <4> QED
        BY <1>2, <3>2, <3>3, NoOther
    <3> QED
      BY <1>1, <1>4, <3>4
  <2>3. CASE s \notin T
    <3>1. s \in req[w].touched /\ req[w].unit[s] = InStock(j[2])
      BY <1>4, <2>1, <2>3
    <3> QED
      BY <1>1, <1>4, <3>1 DEF UnitWorkIsSound, TouchedAreHeld
  <2> QED
    BY <2>2, <2>3
<1>8. SeenIsCovered(w)'
  <2> SUFFICES ASSUME NEW j \in Keys, rowLock'[j] = w, Tracked(j[1])'
               PROVE  Cardinality(SeenIn(w, j)') <= req'[w].level[j] - Owed(w, j)'
    BY DEF SeenIsCovered
  <2>1. rowLock[j] = w /\ Tracked(j[1])
    BY <1>4 DEF Tracked
  <2>2. Cardinality(SeenIn(w, j)') <= req[w].level[j]
    BY <2>1, FlushedUnits
  <2>3. Owed(w, j)' = 0
    <3>1. CASE Tail(todo) = <<>>
      BY <1>4, <3>1 DEF Owed
    <3>2. CASE Tail(todo) # <<>>
      <4>1. Current(w)' = Tail(todo)[1] /\ Tail(todo)[1].type # "transfer_in"
        BY <1>3, <1>4, <1>6, <3>2 DEF Current
      <4> QED
        BY <1>4, <3>2, <4>1 DEF Owed
    <3> QED
      BY <3>1, <3>2
  <2>4. req'[w].level = req[w].level /\ req[w].level[j] \in Int
    BY <1>2, <1>4
  <2> QED
    BY <2>2, <2>3, <2>4
<1>9. WorkIsNumbered(w)'
  <2>1. \A x : MoveIsNumbered(x)' <=> MoveIsNumbered(x)
    BY <1>4 DEF MoveIsNumbered, NumbersMatch, Tracked
  <2>2. \A n \in DOMAIN req'[w].todo : MoveIsNumbered(req'[w].todo[n])
    BY <1>1, <1>4, <1>6 DEF WorkIsNumbered
  <2>3. TransferIsNumbered(w)'
    BY <1>4, <1>6 DEF TransferIsNumbered
  <2>4. req'[w].step # "flush"
    BY <1>4
  <2> QED
    BY <2>1, <2>2, <2>3, <2>4 DEF WorkIsNumbered
<1>10. DocWorkIsNumbered(w)'
  <2>0. CASE req'[w].doc = NoOne
    BY <2>0 DEF DocWorkIsNumbered
  <2> SUFFICES ASSUME req'[w].doc # NoOne PROVE DocWorkIsNumbered(w)'
    BY <2>0
  <2>1. /\ req'[w].posted = Append(req[w].posted, m)
        /\ LinesAreNumbered(req[w].doc)
        /\ \A n \in DOMAIN req[w].posted : rowLock[req[w].posted[n].key] = w
    BY <1>1, <1>4 DEF UnitWorkIsSound, DocWorkIsNumbered
  <2>2. \A d : LinesAreNumbered(d)' <=> LinesAreNumbered(d)
    BY <1>4 DEF LinesAreNumbered, NumbersMatch, Tracked
  <2>3. ASSUME NEW n \in DOMAIN req'[w].posted PROVE rowLock'[req'[w].posted[n].key] = w
    <3> DEFINE done == req[w].posted
    <3>1. /\ done \in Seq(Moves) /\ DOMAIN done = 1..Len(done) /\ Len(done) \in Nat
      BY <1>1, DocTypes
    <3>2. n \in DOMAIN Append(done, m)
      BY <2>1
    <3> HIDE DEF done, m
    <3>3. \/ n \in DOMAIN done /\ Append(done, m)[n] = done[n]
          \/ Append(done, m)[n] = m
      BY <1>2, <3>1, <3>2
    <3>4. rowLock[Append(done, m)[n].key] = w
      BY <1>1, <2>1, <3>3 DEF done
    <3> QED
      BY <1>4, <2>1, <3>4 DEF done
  <2> QED
    BY <1>4, <2>1, <2>2, <2>3 DEF DocWorkIsNumbered
<1>11. UnitWorkIsSound(w)'
  BY <1>7, <1>8, <1>9, <1>10 DEF UnitWorkIsSound
<1> HIDE DEF m, k, T, todo
<1> QED
  BY <1>4, <1>11, UnitsStand

LEMMA EndKeepsUnits ==
  ASSUME TypeOK, NEW w \in Workers, EndOf(w)
  PROVE  UnitWorkIsSound(w)'
<1>1. req'[w] = Idle /\ \A k \in Keys : rowLock'[k] # w
  BY EndFacts
<1>2. /\ req'[w].touched = {} /\ req'[w].todo = <<>> /\ req'[w].step = "idle"
      /\ req'[w].doc = NoOne
  BY <1>1, IdleIsRequest
<1> QED
  BY <1>1, <1>2 DEF UnitWorkIsSound, TouchedAreHeld, SeenIsCovered, WorkIsNumbered,
                    TransferIsNumbered, DocWorkIsNumbered

\* The lines of a document that is finalized are in places that have level rows.
LEMMA FinalizedLines ==
  ASSUME StockIInv, DocsIInv, UnitsIInv, NEW w \in Workers, Commit(w),
         NEW d \in Docs, req[w].doc = d, docStatus'[d] = "sent"
  PROVE  LinesAreNumbered(d) /\ \A n \in DOMAIN Lines[d] : Lines[d][n].key \in rows'
<1> DEFINE done == req[w].posted
<1>1. TypeOK /\ req[w].todo = <<>> /\ d # NoOne /\ DocWorkIsSound(w)
  BY CommitFacts DEF StockIInv, DocsIInv
<1>2. docStatus[d] = "draft"
  <2>1. docStatus' = [docStatus EXCEPT ![d] = DocDone(d)]
    BY <1>1 DEF Commit
  <2> QED
    BY <1>1, <2>1 DEF TypeOK, DocDone
<1>3. Finalizes(d, Work(w)) /\ Len(Lines[d]) = Len(done)
  <2>1. Len(req[w].todo) = 0 /\ Len(done) \in Nat
    BY <1>1, DocTypes
  <2>2. Len(Lines[d]) = Len(done) + Len(req[w].todo) /\ Finalizes(d, Work(w))
    BY <1>1, <1>2 DEF DocWorkIsSound
  <2> QED
    BY <2>1, <2>2
<1>4. LinesAreNumbered(d) /\ \A n \in DOMAIN done : rowLock[done[n].key] = w
  BY <1>1 DEF UnitsIInv, UnitWorkIsSound, DocWorkIsNumbered
<1>5. ASSUME NEW n \in DOMAIN Lines[d] PROVE Lines[d][n].key \in rows'
  <2>1. n \in DOMAIN done /\ n <= Len(done)
    BY <1>1, <1>3, LinesAreLines, DocTypes
  <2>2. Work(w)[n] = done[n] /\ Work(w)[n].key = Lines[d][n].key
    BY <1>3, <2>1 DEF Work, Finalizes
  <2>3. Lines[d][n].key \in Keys
    BY LinesAreLines
  <2> QED
    BY <1>4, <2>1, <2>2, <2>3, CommitFacts
<1> QED
  BY <1>4, <1>5

\* What a request saw is committed with the levels that cover it.
LEMMA CommitKeepsUnits ==
  ASSUME StockIInv, DocsIInv, UnitsIInv, NEW w \in Workers, Commit(w)
  PROVE  UnitsIInv'
<1>1. /\ TypeOK /\ EndOf(w) /\ OthersLockedAsBefore(w) /\ UnitWorkIsSound(w)
      /\ req[w].todo = <<>> /\ tracking' = tracking
  BY CommitFacts, EndFacts DEF StockIInv, UnitsIInv
<1>2. /\ \A k \in Keys : level'[k] = IF rowLock[k] = w THEN req[w].level[k] ELSE level[k]
      /\ rows' = rows \cup {k \in Keys : rowLock[k] = w}
      /\ \A s \in Serials : unit'[s] = Seen(w, s)
  <2>1. \A s \in Serials : unit'[s] = Seen(w, s)
    BY DEF Commit, Seen
  <2>2. /\ rows' = rows \cup {k \in Keys : rowLock[k] = w}
        /\ level' = [k \in Keys |-> IF rowLock[k] = w THEN req[w].level[k] ELSE level[k]]
    BY CommitFacts
  <2> QED
    BY <2>1, <2>2
<1>3. ASSUME NEW k \in Keys
      PROVE  /\ UnitsIn(k[1], k[2])' = SeenIn(w, k)
             /\ rowLock[k] # w => SeenIn(w, k) \in SUBSET UnitsIn(k[1], k[2])
  <2>1. SerialsOf[k[1]] \in SUBSET Serials
    BY ItemSerials, KeysArePairs
  <2>2. UnitsIn(k[1], k[2])' = SeenIn(w, k)
    BY <1>2, <2>1 DEF UnitsIn, SeenIn, InStock
  <2> QED
    BY <2>2, SeenIsCommitted
<1>4. UnitsAreCovered'
  <2> SUFFICES ASSUME NEW k \in Keys, Tracked(k[1])
               PROVE  Cardinality(SeenIn(w, k)) <= level'[k]
    BY <1>1, <1>3 DEF UnitsAreCovered, Tracked
  <2>1. CASE rowLock[k] = w
    <3>1. Owed(w, k) = 0
      BY <1>1 DEF Owed
    <3>2. Cardinality(SeenIn(w, k)) <= req[w].level[k] - Owed(w, k)
      BY <1>1, <2>1 DEF UnitWorkIsSound, SeenIsCovered
    <3>3. level'[k] = req[w].level[k] /\ req[w].level[k] \in Int
      BY <1>1, <1>2, <2>1, RequestTypes
    <3> QED
      BY <3>1, <3>2, <3>3
  <2>2. CASE rowLock[k] # w
    <3> DEFINE a == SeenIn(w, k)
               b == UnitsIn(k[1], k[2])
    <3>1. a \in SUBSET b /\ b \in SUBSET SerialsOf[k[1]] /\ k[1] \in Items
      BY <1>3, <2>2, UnitsOfKey, KeysArePairs
    <3>2. Cardinality(b) <= level[k] /\ level'[k] = level[k] /\ level[k] \in Int
      BY <1>1, <1>2, <2>2 DEF UnitsIInv, UnitsAreCovered, TypeOK
    <3>3. Cardinality(a) \in Nat /\ Cardinality(b) \in Nat
      BY UnitsOfKey
    <3> HIDE DEF a, b
    <3>4. Cardinality(a) <= Cardinality(b)
      BY <3>1, FewerUnits
    <3>5. Cardinality(a) <= level'[k]
      BY <3>2, <3>3, <3>4
    <3> QED
      BY <3>5 DEF a
  <2> QED
    BY <2>1, <2>2
<1>5. ASSUME NEW k \in Keys, UnitsIn(k[1], k[2])' # {} PROVE k \in rows'
  <2>1. rowLock[k] # w => UnitsIn(k[1], k[2]) # {}
    BY <1>3, <1>5
  <2> QED
    BY <1>2, <2>1 DEF UnitsIInv
<1>6. ASSUME NEW d \in Docs, docStatus'[d] = "sent"
      PROVE  LinesAreNumbered(d)' /\ \A n \in DOMAIN Lines[d] : Lines[d][n].key \in rows'
  <2>1. LinesAreNumbered(d) /\ \A n \in DOMAIN Lines[d] : Lines[d][n].key \in rows'
    <3>1. CASE req[w].doc = d
      BY <1>6, <3>1, FinalizedLines
    <3>2. CASE req[w].doc # d
      <4>1. docStatus'[d] = docStatus[d]
        BY <1>1, <3>2 DEF Commit, docVars, TypeOK
      <4> QED
        BY <1>2, <1>6, <4>1 DEF UnitsIInv
    <3> QED
      BY <3>1, <3>2
  <2> QED
    BY <1>1, <2>1 DEF LinesAreNumbered, NumbersMatch, Tracked
<1>7. ASSUME NEW u \in Workers, u # w PROVE UnitWorkIsSound(u)'
  <2>1. UnitWorkIsSound(u) /\ RequestIsSound(u)
    BY DEF UnitsIInv, StockIInv, RequestsAreSound
  <2>2. req'[u] = req[u] /\ \A k \in Keys : rowLock'[k] = u <=> rowLock[k] = u
    BY <1>1, <1>7 DEF OthersLockedAsBefore
  <2>3. ASSUME NEW k \in Keys, rowLock[k] = u, NEW s \in SeenIn(u, k)' PROVE s \in SeenIn(u, k)
    <3>1. s \in SerialsOf[k[1]] /\ s \in Serials /\ Seen(u, s)' = InStock(k[2])
      BY ItemSerials, KeysArePairs DEF SeenIn, InStock
    <3>2. Seen(u, s) = InStock(k[2])
      <4>1. CASE s \in req[u].touched
        BY <2>2, <3>1, <4>1 DEF Seen
      <4>2. CASE s \notin req[u].touched
        <5>1. unit'[s] = InStock(k[2]) /\ Seen(w, s) = InStock(k[2])
          BY <1>2, <2>2, <3>1, <4>2 DEF Seen
        <5>2. s \notin req[w].touched
          BY <1>1, <1>7, <2>3, <3>1, <5>1 DEF UnitWorkIsSound, TouchedAreHeld, Seen
        <5> QED
          BY <4>2, <5>1, <5>2 DEF Seen
      <4> QED
        BY <4>1, <4>2
    <3> QED
      BY <3>1, <3>2 DEF SeenIn
  <2>4. \A k \in Keys : rowLock[k] = u => SeenIn(u, k)' \subseteq SeenIn(u, k)
    BY <2>3
  <2> QED
    BY <1>1, <2>1, <2>2, <2>4, OtherUnits
<1>8. UnitWorkIsSound(w)'
  BY <1>1, EndKeepsUnits
<1> QED
  BY <1>4, <1>5, <1>6, <1>7, <1>8 DEF UnitsIInv

\* The tracking mode of an item changes while it has no level row, and so neither
\* units nor the lines of a finalized document, and no request works.
LEMMA TrackingKeepsUnits ==
  ASSUME StockIInv, UnitsIInv, NEW i \in Items, NEW t \in {"none", "serial"},
         ChangeTracking(i, t), Quiet
  PROVE  UnitsIInv'
<1>1. /\ \A k \in rows : k[1] # i
      /\ tracking' = [tracking EXCEPT ![i] = t]
      /\ UNCHANGED <<rows, level, unit, docStatus, rowLock, req>>
  BY DEF ChangeTracking, stockVars, docVars, lockVars
<1>2. \A j \in Items : j # i => (Tracked(j)' <=> Tracked(j))
  BY <1>1 DEF StockIInv, TypeOK, Tracked
<1>3. UnitsAreCovered'
  <2> SUFFICES ASSUME NEW k \in Keys, Tracked(k[1])'
               PROVE  Cardinality(UnitsIn(k[1], k[2])') <= level'[k]
    BY DEF UnitsAreCovered
  <2>1. UnitsIn(k[1], k[2])' = UnitsIn(k[1], k[2]) /\ level'[k] = level[k]
    BY <1>1 DEF UnitsIn
  <2>2. CASE k[1] = i
    <3>1. UnitsIn(k[1], k[2]) = {} /\ level[k] >= 0
      BY <1>1, <2>2 DEF UnitsIInv, StockIInv, LevelsIInv
    <3>2. Cardinality({}) = 0
      BY FS_EmptySet
    <3>3. level[k] \in Int
      BY DEF StockIInv, TypeOK
    <3> QED
      BY <2>1, <3>1, <3>2, <3>3
  <2>3. CASE k[1] # i
    BY <1>2, <2>1, <2>3, KeysArePairs DEF UnitsIInv, UnitsAreCovered
  <2> QED
    BY <2>2, <2>3
<1>4. \A k \in Keys : UnitsIn(k[1], k[2])' # {} => k \in rows'
  BY <1>1 DEF UnitsIInv, UnitsIn
<1>5. ASSUME NEW d \in Docs, docStatus'[d] = "sent"
      PROVE  LinesAreNumbered(d)' /\ \A n \in DOMAIN Lines[d] : Lines[d][n].key \in rows'
  <2>1. LinesAreNumbered(d) /\ \A n \in DOMAIN Lines[d] : Lines[d][n].key \in rows
    BY <1>1, <1>5 DEF UnitsIInv
  <2>2. \A n \in DOMAIN Lines[d] : Lines[d][n].key[1] \in Items /\ Lines[d][n].key[1] # i
    BY <1>1, <2>1, LinesAreLines, KeysArePairs
  <2>3. \A n \in DOMAIN Lines[d] : Tracked(Lines[d][n].key[1])' <=> Tracked(Lines[d][n].key[1])
    BY <1>2, <2>2
  <2> QED
    BY <1>1, <2>1, <2>3 DEF LinesAreNumbered, NumbersMatch
<1>6. ASSUME NEW w \in Workers PROVE UnitWorkIsSound(w)'
  <2>1. req[w].step = "idle" /\ req[w] = Idle
    BY DEF Quiet, StockIInv, RequestsAreSound, RequestIsSound
  <2>2. \A k \in Keys : rowLock[k] # w
    BY <2>1 DEF StockIInv, LevelsIInv, RowHolder
  <2>3. /\ req'[w].touched = {} /\ req'[w].todo = <<>> /\ req'[w].step = "idle"
        /\ req'[w].doc = NoOne
    BY <1>1, <2>1, IdleIsRequest
  <2> QED
    BY <1>1, <2>2, <2>3 DEF UnitWorkIsSound, TouchedAreHeld, SeenIsCovered, WorkIsNumbered,
                            TransferIsNumbered, DocWorkIsNumbered
<1> QED
  BY <1>3, <1>4, <1>5, <1>6 DEF UnitsIInv

LEMMA ItemStepsKeepUnits ==
  ASSUME StockIInv, UnitsIInv,
         UNCHANGED <<rows, level, unit, tracking, docStatus, rowLock, req>>
  PROVE  UnitsIInv'
<1>1. UnitsAreCovered'
  BY DEF UnitsIInv, UnitsAreCovered, UnitsIn, Tracked
<1>2. \A k \in Keys : UnitsIn(k[1], k[2])' # {} => k \in rows'
  BY DEF UnitsIInv, UnitsIn
<1>3. \A d \in Docs :
         docStatus'[d] = "sent" =>
            LinesAreNumbered(d)' /\ \A n \in DOMAIN Lines[d] : Lines[d][n].key \in rows'
  BY DEF UnitsIInv, LinesAreNumbered, NumbersMatch, Tracked
<1>4. ASSUME NEW u \in Workers PROVE UnitWorkIsSound(u)'
  <2>1. UnitWorkIsSound(u) /\ RequestIsSound(u) /\ TypeOK
    BY DEF UnitsIInv, StockIInv, RequestsAreSound
  <2>2. \A k \in Keys : SeenIn(u, k)' = SeenIn(u, k)
    BY DEF SeenIn, Seen
  <2> QED
    BY <2>1, <2>2, OtherUnits
<1> QED
  BY <1>1, <1>2, <1>3, <1>4 DEF UnitsIInv

LEMMA InitIsUnits == Init => UnitsIInv
<1> SUFFICES ASSUME Init PROVE UnitsIInv
  OBVIOUS
<1>1. \A k \in Keys : UnitsIn(k[1], k[2]) = {} /\ level[k] = 0 /\ rowLock[k] = NoOne
  <2>1. ASSUME NEW k \in Keys PROVE UnitsIn(k[1], k[2]) = {}
    <3>1. SerialsOf[k[1]] \in SUBSET Serials
      BY ItemSerials, KeysArePairs
    <3>2. \A s \in Serials : unit[s].status = "absent"
      BY DEF Init, NoUnit
    <3> QED
      BY <3>1, <3>2 DEF UnitsIn
  <2> QED
    BY <2>1 DEF Init
<1>2. Cardinality({}) = 0
  BY FS_EmptySet
<1>3. UnitsAreCovered
  BY <1>1, <1>2 DEF UnitsAreCovered
<1>4. \A d \in Docs : docStatus[d] # "sent"
  BY DEF Init
<1>5. ASSUME NEW w \in Workers PROVE UnitWorkIsSound(w)
  <2>1. /\ req[w].touched = {} /\ req[w].todo = <<>> /\ req[w].step = "idle"
        /\ req[w].doc = NoOne
    BY IdleIsRequest DEF Init
  <2>2. \A k \in Keys : rowLock[k] # w
    BY <1>1
  <2> QED
    BY <2>1, <2>2 DEF UnitWorkIsSound, TouchedAreHeld, SeenIsCovered, WorkIsNumbered,
                      TransferIsNumbered, DocWorkIsNumbered
<1> QED
  BY <1>1, <1>3, <1>4, <1>5 DEF UnitsIInv

LEMMA NextKeepsUnits ==
  ASSUME StockIInv, DocsIInv, UnitsIInv, [CalmNext]_vars
  PROVE  UnitsIInv'
<1>1. ASSUME NEW w \in Workers,
             Begin(w) \/ Continue(w) \/ Refuse(w) \/ Abort(w) \/ BreakDeadlock(w)
      PROVE  UnitsIInv'
  <2>1. CASE Begin(w)
    BY <2>1, BeginKeepsUnits
  <2>2. CASE Continue(w)
    BY <2>2, LevelStepsKeepUnits, MissLevelKeepsUnits, FlushKeepsUnits, CommitKeepsUnits
       DEF Continue
  <2>3. CASE Refuse(w) \/ Abort(w) \/ BreakDeadlock(w)
    BY <2>3, RollbackKeepsUnits DEF Refuse, Abort, BreakDeadlock
  <2> QED
    BY <1>1, <2>1, <2>2, <2>3
<1>2. ASSUME NEW p \in Bins, DeactivateBin(p) \/ ActivateBin(p) \/ DeleteBin(p)
      PROVE  UnitsIInv'
  <2>1. UNCHANGED <<rows, level, unit, tracking, docStatus, rowLock, req>>
    BY <1>2 DEF DeactivateBin, ActivateBin, DeleteBin, stockVars, docVars, lockVars
  <2> QED
    BY <2>1, ItemStepsKeepUnits
<1>3. ASSUME NEW i \in Items, NEW c \in Costs, ChangePrice(i, c) PROVE UnitsIInv'
  <2>1. UNCHANGED <<rows, level, unit, tracking, docStatus, rowLock, req>>
    BY <1>3 DEF ChangePrice, stockVars, docVars, lockVars
  <2> QED
    BY <2>1, ItemStepsKeepUnits
<1>4. ASSUME NEW i \in Items, NEW t \in {"none", "serial"}, ChangeTracking(i, t),
             tracking' # tracking => Quiet
      PROVE  UnitsIInv'
  <2>1. CASE Quiet
    BY <1>4, <2>1, TrackingKeepsUnits
  <2>2. CASE tracking' = tracking
    <3>1. UNCHANGED <<rows, level, unit, tracking, docStatus, rowLock, req>>
      BY <1>4, <2>2 DEF ChangeTracking, stockVars, docVars, lockVars
    <3> QED
      BY <3>1, ItemStepsKeepUnits
  <2> QED
    BY <1>4, <2>1, <2>2
<1>5. CASE UNCHANGED vars
  <2>1. UNCHANGED <<rows, level, unit, tracking, docStatus, rowLock, req>>
    BY <1>5 DEF vars, stockVars, itemVars, docVars, lockVars
  <2> QED
    BY <2>1, ItemStepsKeepUnits
<1>6. CASE CalmNext
  BY <1>1, <1>2, <1>3, <1>4, <1>6 DEF CalmNext, Next
<1> QED
  BY <1>5, <1>6

\* The serial units in stock at a place never outnumber its level, when no movement is
\* in flight as the tracking mode of an item changes.
THEOREM UnitsStayCovered == CalmSpec => []UnitsAreCovered
<1>1. [CalmNext]_vars => [Next]_vars
  BY DEF CalmNext
<1>2. StockIInv /\ DocsIInv /\ UnitsIInv /\ [CalmNext]_vars
        => StockIInv' /\ DocsIInv' /\ UnitsIInv'
  BY <1>1, NextKeepsStock, NextKeepsDocs, NextKeepsUnits
<1>3. UnitsIInv => UnitsAreCovered
  BY DEF UnitsIInv
<1> QED
  BY <1>2, <1>3, InitIsStock, InitIsDocs, InitIsUnits, PTL DEF CalmSpec

=============================================================================
