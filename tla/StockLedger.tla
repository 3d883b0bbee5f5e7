---------------------------- MODULE StockLedger ----------------------------
(***************************************************************************)
(* The stock ledger: movements, the cached levels derived from them, serial  *)
(* numbered units and bins.  InventoryService, TrackingService and           *)
(* BinService of backend/app/modules/inventory, and the stock a document      *)
(* moves: _validate_tracking, _preflight_outbound_stock and _post_stock of    *)
(* documents/service.py.                                                      *)
(*                                                                          *)
(* A request is one READ COMMITTED transaction that works through a list of   *)
(* movements.  For each it locks the level row (or inserts it), computes the  *)
(* new quantity and flushes; the flush takes a shared lock on the item by the *)
(* foreign key, which set_opening_stock holds exclusively.  What it wrote is  *)
(* seen by others when it commits.                                            *)
(*                                                                          *)
(* A place is a warehouse, a bin of it or none, and a lot or none: the key of *)
(* a level row beside the item.  Values of adjustments, names and notes are   *)
(* left out; a document's lines are fixed when it is drafted (DocumentFlow).  *)
(***************************************************************************)
EXTENDS Integers, Sequences, FiniteSets, FiniteSetsExt, Folds, Functions

CONSTANTS
    Items, Places, Serials, Docs, Workers,
    NoOne,          \* no worker, document, item or place
    SerialsOf,      \* SerialsOf[i]: the serial numbers i may have
    Bins,           \* the places that are in a bin
    PlaceOrder,     \* the places in the order of their keys
    DocType,        \* DocType[d]: "sale", "purchase" or "sales_return"
    Lines,          \* Lines[d]: the lines of d, sorted by product
    Quantities,     \* the quantities a clerk may enter
    Openings,       \* Openings[i]: the opening stock a clerk may enter
    Costs,          \* the purchase prices a product may have
    MaxReceived     \* bound: adjustments receive up to this on hand

Keys == Items \X Places

LineRecords ==
    [key : Keys, quantity : Nat, price : Costs, serials : SUBSET Serials]

ASSUME NoOneAssumption == NoOne \notin Workers \cup Docs \cup Items \cup Places
ASSUME FinitenessAssumption ==
    IsFiniteSet(Items) /\ IsFiniteSet(Places) /\ IsFiniteSet(Serials)
ASSUME SerialsOfAssumption ==
    /\ SerialsOf \in [Items -> SUBSET Serials]
    /\ \A i, j \in Items : i # j => SerialsOf[i] \cap SerialsOf[j] = {}
ASSUME BinsAssumption == Bins \subseteq Places
ASSUME PlaceOrderAssumption ==
    /\ PlaceOrder \in Seq(Places)
    /\ \A p \in Places : \E n \in DOMAIN PlaceOrder : PlaceOrder[n] = p
    /\ \A n, m \in DOMAIN PlaceOrder : PlaceOrder[n] = PlaceOrder[m] => n = m
ASSUME DocTypeAssumption ==
    DocType \in [Docs -> {"sale", "purchase", "sales_return"}]
ASSUME LinesAssumption == Lines \in [Docs -> Seq(LineRecords)]
ASSUME QuantitiesAssumption == Quantities \subseteq Nat \ {0}
ASSUME CostsAssumption == Costs \subseteq Nat /\ Costs # {}
ASSUME OpeningsAssumption ==
    \A i \in Items :
        \A e \in Openings[i] :
            /\ e \in [Places -> [quantity : Nat, serials : SUBSET Serials]]
            /\ \A p \in Places : e[p].quantity = 0 => e[p].serials = {}

VARIABLES
    rows,       \* the keys that have a level row
    level,      \* level[k]: StockLevel.quantity
    moved,      \* moved[k]: the sum of qty_delta over the movements of k
    opening,    \* opening[k]: the same over the movements of type opening
    entered,    \* entered[k]: the opening stock last entered
    used,       \* the items with a movement that is not of type opening
    unit,       \* unit[s]: the serial unit's status and place
    bin,        \* bin[p]: what has become of the bin of place p
    tracking,   \* tracking[i]: the product's tracking mode
    price,      \* price[i]: the product's purchase price
    docStatus,  \* docStatus[d]
    posted,     \* posted[d]: the movements that refer to d
    rowLock,    \* rowLock[k]: who holds the level row of k
    itemLock,   \* itemLock[i]: who holds the product row of i
    itemShares, \* itemShares[i]: who refers to i in a row not committed yet
    req         \* req[w]: the request w is running

stockVars == <<rows, level, moved, opening, entered, used>>
lockVars  == <<rowLock, itemLock, itemShares>>
docVars   == <<docStatus, posted>>
itemVars  == <<bin, tracking, price>>
vars == <<stockVars, unit, itemVars, docVars, lockVars, req>>

Tracked(i) == tracking[i] = "serial"

UnitStates == {"absent", "in_stock", "sold", "removed", "void"}
Units == [status : UnitStates, place : Places \cup {NoOne}]

MoveTypes == {"opening", "adjustment", "revaluation", "transfer_out",
              "transfer_in", "sale", "purchase", "sales_return"}

Moves ==
    [key     : Keys,
     delta   : Int,
     type    : MoveTypes,
     cost    : Costs \cup {0},
     serials : SUBSET Serials,
     origin  : Places \cup {NoOne},  \* transfer_in: where the units come from
     reverse : BOOLEAN]              \* undoes a movement of a document

Requests ==
    [step    : {"idle", "lock", "insert", "flush", "commit"},
     doc     : Docs \cup {NoOne},
     todo    : Seq(Moves),
     level   : [Keys -> Int],        \* the quantities of the rows it locked
     delta   : [Keys -> Int],        \* the movements it added
     touched : SUBSET Serials,       \* the units it changed
     unit    : [Serials -> Units],
     item    : Items \cup {NoOne},   \* opening stock: of which item
     entry   : [Places -> Nat],
     posted  : Seq(Moves)]           \* the movements of its document

NoUnit == [status |-> "absent", place |-> NoOne]

Idle ==
    [step |-> "idle", doc |-> NoOne, todo |-> <<>>,
     level |-> [k \in Keys |-> 0], delta |-> [k \in Keys |-> 0],
     touched |-> {}, unit |-> [s \in Serials |-> NoUnit],
     item |-> NoOne, entry |-> [p \in Places |-> 0], posted |-> <<>>]

Init ==
    /\ rows    = {}
    /\ level   = [k \in Keys |-> 0]
    /\ moved   = [k \in Keys |-> 0]
    /\ opening = [k \in Keys |-> 0]
    /\ entered = [k \in Keys |-> 0]
    /\ used    = {}
    /\ unit    = [s \in Serials |-> NoUnit]
    /\ bin     = [p \in Places |-> "active"]
    /\ tracking \in [Items -> {"none", "serial"}]
    /\ price   = [i \in Items |-> Min(Costs)]
    /\ docStatus  = [d \in Docs |-> "draft"]
    /\ posted     = [d \in Docs |-> <<>>]
    /\ rowLock    = [k \in Keys |-> NoOne]
    /\ itemLock   = [i \in Items |-> NoOne]
    /\ itemShares = [i \in Items |-> {}]
    /\ req        = [w \in Workers |-> Idle]

-----------------------------------------------------------------------------
(* Serial numbers.                                                          *)

\* validate_serials_available, validate_serials_receivable.
Available(S, p) == \A s \in S : unit[s] = [status |-> "in_stock", place |-> p]

Receivable(S, isReturn) ==
    \A s \in S : unit[s].status = IF isReturn THEN "sold" ELSE "absent"

\* What apply_serial_movement and transfer_serials ask of a unit they found as u.
Movable(m, u) ==
    CASE m.type = "transfer_in" -> u = [status |-> "in_stock", place |-> m.origin]
      [] m.type # "transfer_in" /\ m.delta > 0 ->
            IF m.reverse \/ m.type = "sales_return"
            THEN u.status = "sold"
            ELSE u.status = "absent"
      [] OTHER -> u = [status |-> "in_stock", place |-> m.key[2]]

\* What they make of it.
StatusOut(m) ==
    CASE m.type = "sales_return"            -> "sold"
      [] m.type # "sales_return" /\ m.reverse -> "void"
      [] m.type = "sale" /\ ~m.reverse      -> "sold"
      [] OTHER                              -> "removed"

UnitLeftInPlace(m) ==
    [status |-> IF m.delta > 0 \/ m.type = "adjustment" THEN "in_stock" ELSE StatusOut(m),
     place  |-> m.key[2]]

MovedUnit(m) ==
    IF m.delta > 0
    THEN [status |-> "in_stock", place |-> m.key[2]]
    ELSE [status |-> StatusOut(m), place |-> NoOne]

\* The unit as w sees it: what w wrote, else what is committed.
Seen(w, s) == IF s \in req[w].touched THEN req[w].unit[s] ELSE unit[s]

\* The new units w has inserted and not committed.
Creating(w) == {s \in req[w].touched : unit[s].status = "absent"}

-----------------------------------------------------------------------------
(* Locks.                                                                   *)

\* SELECT ... FOR UPDATE waits for the holder of the row.
RowReadable(w, k) == TRUE
RowFree(w, k)     == rowLock[k] \in {NoOne, w}

\* The foreign key of a new movement or level row waits for a product row that
\* is locked FOR UPDATE; the unique key of a new unit for another insertion.
ItemUnread(w, i)  == TRUE
ItemOpen(w, i)    == itemLock[i] \in {NoOne, w}

UnitsFree(w, S) == \A v \in Workers \ {w} : S \cap Creating(v) = {}

\* The product row can be locked FOR UPDATE.
ItemRead(i) == itemShares[i] = {}
ItemFree(i) == itemLock[i] = NoOne /\ itemShares[i] = {}

RowsKeptBy(w)       == rowLock
RowsReleasedBy(w)   == [k \in Keys |-> IF rowLock[k] = w THEN NoOne ELSE rowLock[k]]
ItemsReleasedBy(w)  == [i \in Items |-> IF itemLock[i] = w THEN NoOne ELSE itemLock[i]]
SharesReleasedBy(w) == [i \in Items |-> itemShares[i] \ {w}]

\* The end of the transaction of w.
EndOf(w) ==
    /\ rowLock'    = RowsReleasedBy(w)
    /\ itemLock'   = ItemsReleasedBy(w)
    /\ itemShares' = SharesReleasedBy(w)
    /\ req'        = [req EXCEPT ![w] = Idle]

Rollback(w) == EndOf(w) /\ UNCHANGED <<stockVars, unit, itemVars, docVars>>

-----------------------------------------------------------------------------
(* Beginning a request: its checks, all on unlocked reads, and its movements. *)

Start(w, moves, r) ==
    /\ req[w].step = "idle"
    /\ req' = [req EXCEPT ![w] =
                  [r EXCEPT !.step = IF moves = <<>> THEN "commit" ELSE "lock",
                            !.todo = moves]]
    /\ UNCHANGED <<stockVars, unit, itemVars, docVars, rowLock, itemShares>>

Move(k, delta, type, S) ==
    [key |-> k, delta |-> delta, type |-> type, cost |-> 0, serials |-> S,
     origin |-> NoOne, reverse |-> FALSE]

\* As many serial numbers as units, for an item that has them.
SerialsMatch(i, n, S) ==
    /\ S \subseteq SerialsOf[i]
    /\ Cardinality(S) = IF Tracked(i) THEN n ELSE 0

OnHand(i) == MapThenSumSet(LAMBDA p : level[<<i, p>>], Places)

Receive(w, k, n, S) ==
    /\ OnHand(k[1]) + n <= MaxReceived
    /\ bin[k[2]] = "active"
    /\ SerialsMatch(k[1], n, S)
    /\ Receivable(S, FALSE)
    /\ Start(w, <<Move(k, n, "adjustment", S)>>, Idle)
    /\ UNCHANGED itemLock

Remove(w, k, n, S) ==
    /\ bin[k[2]] = "active"
    /\ SerialsMatch(k[1], n, S)
    /\ Available(S, k[2])
    /\ Start(w, <<Move(k, 0 - n, "adjustment", S)>>, Idle)
    /\ UNCHANGED itemLock

\* Mode "value": a movement of no quantity.
Revalue(w, k) ==
    /\ bin[k[2]] = "active"
    /\ Start(w, <<Move(k, 0, "revaluation", {})>>, Idle)
    /\ UNCHANGED itemLock

\* The serial numbers are checked when both movements are in.
Transfer(w, i, p, q, n, S) ==
    /\ p # q
    /\ bin[p] = "active" /\ bin[q] = "active"
    /\ SerialsMatch(i, n, S)
    /\ level[<<i, p>>] >= n
    /\ Start(w,
             <<Move(<<i, p>>, 0 - n, "transfer_out", {}),
               [Move(<<i, q>>, n, "transfer_in", S) EXCEPT !.origin = p]>>, Idle)
    /\ UNCHANGED itemLock

\* set_opening_stock: what is entered replaces what was; the product row is
\* locked first, so the movements read here are those of all earlier requests.
OpeningMove(i, e, p) ==
    Move(<<i, p>>, e[p].quantity - opening[<<i, p>>], "opening", e[p].serials)

\* The numbers of a finite set, in increasing order.
InOrder(S) ==
    CHOOSE f \in [1..Cardinality(S) -> S] :
        /\ \A a, b \in 1..Cardinality(S) : a < b => f[a] < f[b]
        /\ \A n \in S : \E a \in 1..Cardinality(S) : f[a] = n

OpeningMoves(i, e) ==
    LET moving == {n \in DOMAIN PlaceOrder : OpeningMove(i, e, PlaceOrder[n]).delta # 0} IN
    [a \in 1..Cardinality(moving) |-> OpeningMove(i, e, PlaceOrder[InOrder(moving)[a]])]

SetOpening(w, i, e) ==
    /\ ItemFree(i)
    /\ i \notin used
    /\ Tracked(i) => \A p \in Places : opening[<<i, p>>] = 0
    /\ \A p \in Places :
          e[p].quantity > 0 => /\ bin[p] = "active"
                               /\ SerialsMatch(i, e[p].quantity, e[p].serials)
                               /\ Receivable(e[p].serials, FALSE)
    /\ Start(w, OpeningMoves(i, e),
             [Idle EXCEPT !.item = i, !.entry = [p \in Places |-> e[p].quantity]])
    /\ itemLock' = [itemLock EXCEPT ![i] = w]

-----------------------------------------------------------------------------
(* Documents: finalize and void move the stock of all lines.                *)

Direction(d) == IF DocType[d] = "sale" THEN -1 ELSE 1

CurrentCost(d, k, cost) == cost

\* _posted_unit_costs: the cost of the last movement of d with this key.
PostedCost(d, k, cost) ==
    LET ns == {n \in DOMAIN posted[d] : posted[d][n].key = k} IN
    IF ns = {} THEN cost ELSE posted[d][Max(ns)].cost

LineMove(d, line, undo) ==
    LET cost == IF DocType[d] = "purchase" THEN line.price ELSE price[line.key[1]] IN
    [key     |-> line.key,
     delta   |-> (IF undo THEN 0 - Direction(d) ELSE Direction(d)) * line.quantity,
     type    |-> DocType[d],
     cost    |-> IF undo THEN PostedCost(d, line.key, cost) ELSE cost,
     serials |-> line.serials,
     origin  |-> NoOne,
     reverse |-> undo]

DocMoves(d, undo) == [n \in DOMAIN Lines[d] |-> LineMove(d, Lines[d][n], undo)]

Required(d, k) ==
    MapThenSumSet(LAMBDA n : Lines[d][n].quantity,
                  {n \in DOMAIN Lines[d] : Lines[d][n].key = k})

\* _preflight_outbound_stock; serial items are left to _validate_tracking.
Preflight(d) ==
    \A n \in DOMAIN Lines[d] :
        LET k == Lines[d][n].key IN
        Tracked(k[1]) \/ (bin[k[2]] = "active" /\ level[k] >= Required(d, k))

TrackingValid(d) ==
    \A n \in DOMAIN Lines[d] :
        LET line == Lines[d][n] IN
        /\ SerialsMatch(line.key[1], line.quantity, line.serials)
        /\ IF DocType[d] = "sale"
           THEN Available(line.serials, line.key[2])
           ELSE Receivable(line.serials, DocType[d] = "sales_return")

\* The document's row is locked by the request that finalizes or voids it.
DocFree(d) == \A v \in Workers : req[v].doc # d

Finalize(w, d) ==
    /\ DocFree(d)
    /\ docStatus[d] = "draft"
    /\ TrackingValid(d)
    /\ DocType[d] = "sale" => Preflight(d)
    /\ Start(w, DocMoves(d, FALSE), [Idle EXCEPT !.doc = d])
    /\ UNCHANGED itemLock

Void(w, d) ==
    /\ DocFree(d)
    /\ docStatus[d] = "sent"
    /\ Start(w, DocMoves(d, TRUE), [Idle EXCEPT !.doc = d])
    /\ UNCHANGED itemLock

-----------------------------------------------------------------------------
(* Working through the movements: _level, _apply, post_document_movement.   *)

Current(w) == Head(req[w].todo)

Quantity(w, k) == IF rowLock[k] = w THEN req[w].level[k] ELSE level[k]

\* post_document_movement looks at the bin again, the others have done so.
BinUsable(w, p) == req[w].doc = NoOne \/ bin[p] = "active"

\* The row is locked and its new quantity known.  A transfer adds both of its
\* movements before it flushes.
Hold(w, q) ==
    LET r == req[w]
        m == Current(w)
        k == m.key IN
    /\ rowLock' = [rowLock EXCEPT ![k] = w]
    /\ req' = [req EXCEPT
          ![w] = [r EXCEPT
                    !.level[k] = q,
                    !.delta[k] = r.delta[k] + m.delta,
                    !.step     = IF m.type = "transfer_out" THEN "lock" ELSE "flush",
                    !.todo     = IF m.type = "transfer_out" THEN Tail(r.todo) ELSE r.todo]]
    /\ UNCHANGED <<stockVars, unit, itemVars, docVars, itemLock, itemShares>>

LockLevel(w) ==
    LET k == Current(w).key IN
    /\ req[w].step = "lock"
    /\ k \in rows \/ rowLock[k] = w
    /\ RowFree(w, k)
    /\ BinUsable(w, k[2])
    /\ Quantity(w, k) + Current(w).delta >= 0
    /\ Hold(w, Quantity(w, k) + Current(w).delta)

\* The SELECT finds no row; the row another request has inserted and not
\* committed is not seen.
MissLevel(w) ==
    LET k == Current(w).key IN
    /\ req[w].step = "lock"
    /\ k \notin rows /\ rowLock[k] # w
    /\ BinUsable(w, k[2])
    /\ req' = [req EXCEPT ![w].step = "insert"]
    /\ UNCHANGED <<stockVars, unit, itemVars, docVars, lockVars>>

\* The INSERT waits for the transaction that has inserted the same key.
InsertLevel(w) ==
    LET k == Current(w).key IN
    /\ req[w].step = "insert"
    /\ k \notin rows
    /\ RowFree(w, k)
    /\ ItemOpen(w, k[1])
    /\ Current(w).delta >= 0
    /\ Hold(w, Current(w).delta)

Flush(w) ==
    LET r == req[w]
        m == Current(w) IN
    /\ r.step = "flush"
    /\ ItemOpen(w, m.key[1])
    /\ UnitsFree(w, m.serials)
    /\ bin[m.key[2]] # "absent"
    /\ \A s \in m.serials : Movable(m, Seen(w, s))
    /\ itemShares' = [itemShares EXCEPT ![m.key[1]] = @ \cup {w}]
    /\ req' = [req EXCEPT
          ![w] = [r EXCEPT
                    !.step    = IF Tail(r.todo) = <<>> THEN "commit" ELSE "lock",
                    !.todo    = Tail(r.todo),
                    !.touched = r.touched \cup m.serials,
                    !.unit    = [s \in Serials |->
                                   IF s \in m.serials THEN MovedUnit(m) ELSE r.unit[s]],
                    !.posted  = IF r.doc = NoOne THEN r.posted ELSE Append(r.posted, m)]]
    /\ UNCHANGED <<stockVars, unit, itemVars, docVars, rowLock, itemLock>>

\* A check fails under the locks and the request is rolled back: not enough
\* stock, a bin closed or deleted, a unit not where it was, a row inserted twice.
Refuse(w) ==
    LET m == Current(w)
        k == m.key IN
    /\ \/ /\ req[w].step = "lock"
          /\ \/ ~ BinUsable(w, k[2])
             \/ /\ k \in rows \/ rowLock[k] = w
                /\ RowFree(w, k)
                /\ Quantity(w, k) + m.delta < 0
       \/ /\ req[w].step = "insert"
          /\ RowFree(w, k)
          /\ ItemOpen(w, k[1])
          /\ k \in rows \/ m.delta < 0
       \/ /\ req[w].step = "flush"
          /\ ItemOpen(w, k[1])
          /\ UnitsFree(w, m.serials)
          /\ \/ bin[k[2]] = "absent"
             \/ \E s \in m.serials : ~ Movable(m, Seen(w, s))
    /\ Rollback(w)

Held(w) == {k \in Keys : rowLock[k] = w}

DocDone(d) == IF docStatus[d] = "draft" THEN "sent" ELSE "void"

Commit(w) ==
    LET r == req[w] IN
    /\ r.step = "commit"
    /\ rows'  = rows \cup Held(w)
    /\ level' = [k \in Keys |-> IF k \in Held(w) THEN r.level[k] ELSE level[k]]
    /\ moved' = [k \in Keys |-> moved[k] + r.delta[k]]
    /\ IF r.item = NoOne
       THEN /\ used' = used \cup {k[1] : k \in Held(w)}
            /\ UNCHANGED <<opening, entered>>
       ELSE /\ opening' = [k \in Keys |-> opening[k] + r.delta[k]]
            /\ entered' = [k \in Keys |-> IF k[1] = r.item
                                         THEN r.entry[k[2]] ELSE entered[k]]
            /\ UNCHANGED used
    /\ unit' = [s \in Serials |-> IF s \in r.touched THEN r.unit[s] ELSE unit[s]]
    /\ IF r.doc = NoOne
       THEN UNCHANGED docVars
       ELSE /\ docStatus' = [docStatus EXCEPT ![r.doc] = DocDone(r.doc)]
            /\ posted'    = [posted EXCEPT ![r.doc] = @ \o r.posted]
    /\ EndOf(w)
    /\ UNCHANGED itemVars

\* The request fails for a reason of its own: its client, the worker, the rest
\* of its work (posting to the books, filing).
Abort(w) == req[w].step # "idle" /\ Rollback(w)

-----------------------------------------------------------------------------
(* Deadlocks: the database aborts one request of a cycle of waits.          *)

WaitsFor(w) ==
    LET m == Current(w)
        k == m.key
        holders == {rowLock[k], itemLock[k[1]]} \ {w, NoOne} IN
    CASE req[w].step = "lock"   -> IF k \in rows THEN {rowLock[k]} \ {w, NoOne} ELSE {}
      [] req[w].step = "insert" -> holders
      [] req[w].step = "flush"  -> ({itemLock[k[1]]} \ {w, NoOne})
                                   \cup {v \in Workers \ {w} :
                                          m.serials \cap Creating(v) # {}}
      [] OTHER -> {}

Waiting(S) == S # {} /\ \A w \in S : WaitsFor(w) \cap S # {}

Cycle(S) == Waiting(S) /\ \A R \in SUBSET S : Waiting(R) => R = S

BreakDeadlock(w) ==
    /\ \E S \in SUBSET Workers : w \in S /\ Cycle(S)
    /\ Rollback(w)

-----------------------------------------------------------------------------
(* Bins and prices.                                                         *)

HasStock(p) == \E i \in Items : level[<<i, p>>] # 0

\* A level row, a movement, or a document line refers to the bin.
LineIn(p)  == \E d \in Docs : \E n \in DOMAIN Lines[d] : Lines[d][n].key[2] = p
BinStocked(p) == LineIn(p) \/ HasStock(p)
BinUsed(p) == LineIn(p) \/ \E k \in rows : k[2] = p

\* Who has flushed a row that refers to the bin holds a shared lock on it.
BinShared(p) == \E k \in Keys : k[2] = p /\ rowLock[k] # NoOne

DeactivateBin(p) ==
    /\ bin[p] = "active"
    /\ ~ HasStock(p)
    /\ bin' = [bin EXCEPT ![p] = "inactive"]
    /\ UNCHANGED <<stockVars, unit, tracking, price, docVars, lockVars, req>>

ActivateBin(p) ==
    /\ bin[p] = "inactive"
    /\ bin' = [bin EXCEPT ![p] = "active"]
    /\ UNCHANGED <<stockVars, unit, tracking, price, docVars, lockVars, req>>

DeleteBin(p) ==
    /\ bin[p] # "absent"
    /\ ~ BinUsed(p)
    /\ ~ BinShared(p)
    /\ bin' = [bin EXCEPT ![p] = "absent"]
    /\ UNCHANGED <<stockVars, unit, tracking, price, docVars, lockVars, req>>

\* Bound: prices rise, while a document sold at them can be voided.
ChangePrice(i, c) ==
    /\ \E d \in Docs : DocType[d] # "purchase" /\ docStatus[d] = "sent"
    /\ price[i] < c
    /\ price' = [price EXCEPT ![i] = c]
    /\ UNCHANGED <<stockVars, unit, bin, tracking, docVars, lockVars, req>>

\* "Tracking mode cannot be changed after inventory transactions exist": the
\* movements are read without a lock, so one in flight is not seen.
ChangeTracking(i, t) ==
    /\ itemLock[i] = NoOne
    /\ tracking[i] # t
    /\ \A k \in rows : k[1] # i
    /\ tracking' = [tracking EXCEPT ![i] = t]
    /\ UNCHANGED <<stockVars, unit, bin, price, docVars, lockVars, req>>

-----------------------------------------------------------------------------
(* What the screens and the reports show.                                   *)

\* item_stock: on hand and opening stock of an item.
ItemStock(i) ==
    [on_hand       |-> OnHand(i),
     opening_stock |-> MapThenSumSet(LAMBDA p : opening[<<i, p>>], Places)]

\* _inventory_summary: what is on hand of every item at these places.
InventorySummary(S) == MapThenSumSet(LAMBDA k : level[k], Items \X S)

MovementValue(m) == m.delta * m.cost

\* _movements: the rows of the stock movement report for these movements of d.
MovementReport(d, ns) ==
    [quantity |-> MapThenSumSet(LAMBDA n : posted[d][n].delta, ns),
     value    |-> MapThenSumSet(LAMBDA n : MovementValue(posted[d][n]), ns)]

-----------------------------------------------------------------------------
Begin(w) ==
    \/ \E k \in Keys : Revalue(w, k)
    \/ \E k \in Keys, n \in Quantities, S \in SUBSET Serials :
          Receive(w, k, n, S) \/ Remove(w, k, n, S)
    \/ \E i \in Items, p, q \in Places, n \in Quantities, S \in SUBSET Serials :
          Transfer(w, i, p, q, n, S)
    \/ \E i \in Items : \E e \in Openings[i] : SetOpening(w, i, e)
    \/ \E d \in Docs : Finalize(w, d) \/ Void(w, d)

Continue(w) ==
    LockLevel(w) \/ MissLevel(w) \/ InsertLevel(w) \/ Flush(w) \/ Commit(w)

Next ==
    \/ \E w \in Workers :
          Begin(w) \/ Continue(w) \/ Refuse(w) \/ Abort(w) \/ BreakDeadlock(w)
    \/ \E p \in Bins : DeactivateBin(p) \/ ActivateBin(p) \/ DeleteBin(p)
    \/ \E i \in Items, c \in Costs : ChangePrice(i, c)
    \/ \E i \in Items, t \in {"none", "serial"} : ChangeTracking(i, t)

Spec == Init /\ [][Next]_vars

\* The schedules on which no movement is in flight when the tracking mode of an
\* item changes: such a movement would be applied in the mode it began with.
Quiet == \A w \in Workers : req[w].step = "idle"

CalmNext == Next /\ (tracking' # tracking => Quiet)
CalmSpec == Init /\ [][CalmNext]_vars

\* Row locks are granted in the order in which they are asked for and the
\* deadlock detector always runs; a request that can go on goes on.
FairSpec ==
    /\ CalmSpec
    /\ \A w \in Workers : SF_vars(Continue(w) \/ Refuse(w))
    /\ \A w \in Workers : WF_vars(BreakDeadlock(w))

-----------------------------------------------------------------------------
(* Properties.                                                              *)

\* Committed levels are what the movements add up to and never negative, while
\* any number of requests move the same stock.  ("Cached on-hand ... Derived
\* from the ledger", StockLevel; the level row is locked before it is read.)  So
\* the inventory summaries of all places add up to what the items' pages show and
\* the movements moved.
LevelIsLedger ==
    /\ \A k \in Keys : level[k] = moved[k] /\ level[k] >= 0
    /\ LET onHand == MapThenSumSet(LAMBDA i : ItemStock(i).on_hand, Items) IN
       /\ onHand = MapThenSumSet(LAMBDA k : moved[k], Keys)
       /\ onHand = MapThenSumSet(LAMBDA p : InventorySummary({p}), Places)

\* The serial units in stock at a place never outnumber its level: no unit can
\* be picked that the stock figures do not have.  (Units are read without a
\* lock, under the lock of the place's level.)
UnitsIn(i, p) ==
    {s \in SerialsOf[i] : unit[s] = [status |-> "in_stock", place |-> p]}

UnitsAreCovered ==
    \A k \in Keys : Tracked(k[1]) => Cardinality(UnitsIn(k[1], k[2])) <= level[k]

\* However often and concurrently opening stock is set, its movements add up to
\* what was entered last, and the item's page says so.  (set_opening_stock posts
\* only differences.)
OpeningIsAsEntered ==
    /\ opening = entered
    /\ \A i \in Items : ItemStock(i).opening_stock
                          = MapThenSumSet(LAMBDA p : entered[<<i, p>>], Places)

\* No opening movement comes after a movement of another kind.  ("Opening stock
\* is locked because this item already has inventory transactions".)
OpeningComesFirst ==
    [][\A k \in Keys : opening'[k] # opening[k] => k[1] \notin used]_vars

\* In the stock movement report the movements of a void document cancel out, in
\* quantity and in value, also when the purchase price has changed in between.  ("A reversal must undo the
\* value it originally posted", _post_stock.)
OfKey(d, k) == {n \in DOMAIN posted[d] : posted[d][n].key = k}

VoidUndoesMovements ==
    \A d \in Docs, k \in Keys :
        docStatus[d] = "void" =>
            MovementReport(d, OfKey(d, k)) = [quantity |-> 0, value |-> 0]

\* Nothing was ever moved in a bin that has been deleted.  (delete checks for
\* history without a lock; the foreign keys of a movement in flight protect it.)
DeletedBinIsUnused ==
    \A k \in Keys : bin[k[2]] = "absent" => k \notin rows /\ moved[k] = 0

\* Every request ends, though transfers lock their rows in either order.
EveryRequestEnds == \A w \in Workers : req[w].step # "idle" ~> req[w].step = "idle"

=============================================================================
