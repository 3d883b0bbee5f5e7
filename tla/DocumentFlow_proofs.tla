------------------------ MODULE DocumentFlow_proofs ------------------------
(***************************************************************************)
(* Proofs about DocumentFlow, for any number of documents and of requests    *)
(* running at the same time: with unlocked edits and deletes among them, and, *)
(* in the second half, when drafts are edited and deleted alone.             *)
(***************************************************************************)
EXTENDS DocumentFlow, TLAPS

USE NoDocAssumption, NoWorkerAssumption

-----------------------------------------------------------------------------
(* Facts about the document kinds.                                          *)

LEMMA DirectionsAreIntegers == \A k : StockDirection(k) \in {-1, 0, 1}
  BY DEF StockDirection

LEMMA ConversionsAreKinds == \A k \in Kinds : Conversions(k) \subseteq Kinds
  BY DEF Conversions, Kinds

\* No conversion makes an order, nor a document of the kind it starts from.
LEMMA ConversionsMakeNoOrders ==
  \A k : Conversions(k) \cap ClosedOnConvert = {} /\ k \notin Conversions(k)
  BY DEF Conversions, ClosedOnConvert

-----------------------------------------------------------------------------
(* Type correctness.                                                        *)

LEMMA IdleIsRequest == Idle \in Requests
  BY DEF Idle, Requests, Steps, Kinds

\* Starting or ending a request keeps the requests well formed.
LEMMA RequestsKeepTheirType ==
  ASSUME TypeOK, NEW w \in Workers, NEW r \in Requests,
         r.step # "idle" => r.doc \in Docs,
         req' = [req EXCEPT ![w] = r]
  PROVE  /\ req' \in [Workers -> Requests]
         /\ \A u \in Workers : req'[u].step # "idle" => req'[u].doc \in Docs
  BY DEF TypeOK

LEMMA RequestsType ==
  ASSUME TypeOK, NEW w \in Workers
  PROVE  /\ req[w] \in Requests
         /\ req[w].moves \in BOOLEAN /\ req[w].touch \in BOOLEAN
         /\ req[w].as \in Kinds /\ req[w].qty \in Nat
         /\ req[w].doc \in Docs \cup {NoDoc} /\ req[w].fresh \in Docs \cup {NoDoc}
         /\ req[w].step \in Steps
  BY DEF TypeOK, Requests

LEMMA InitTypeOK == Init => TypeOK
  BY IdleIsRequest DEF Init, TypeOK, Kinds, Statuses, Idle

LEMMA BeginTypeOK ==
  ASSUME TypeOK, NEW w \in Workers, Begin(w) PROVE TypeOK'
<1> USE DEF docVars
<1>1. ASSUME NEW d \in Docs, FinalizeBegin(w, d) PROVE TypeOK'
  <2> DEFINE r == [Idle EXCEPT !.step = "finalize_guard", !.doc = d]
  <2>1. r \in Requests /\ r.doc \in Docs
    BY IdleIsRequest DEF Idle, Requests, Steps
  <2> QED
    BY <1>1, <2>1, RequestsKeepTheirType DEF FinalizeBegin, TypeOK
<1>2. ASSUME NEW d \in Docs, VoidBegin(w, d) PROVE TypeOK'
  <2> DEFINE r == [Idle EXCEPT !.step = "void_read", !.doc = d]
  <2>1. r \in Requests /\ r.doc \in Docs
    BY IdleIsRequest DEF Idle, Requests, Steps
  <2> QED
    BY <1>2, <2>1, RequestsKeepTheirType DEF VoidBegin, TypeOK
<1>3. ASSUME NEW d \in Docs, DeleteBegin(w, d) PROVE TypeOK'
  <2> DEFINE r == [Idle EXCEPT !.step = "delete_read", !.doc = d]
  <2>1. r \in Requests /\ r.doc \in Docs
    BY IdleIsRequest DEF Idle, Requests, Steps
  <2> QED
    BY <1>3, <2>1, RequestsKeepTheirType DEF DeleteBegin, TypeOK
<1>4. ASSUME NEW d \in Docs, NEW q \in EditQtys, UpdateRead(w, d, q) PROVE TypeOK'
  <2> DEFINE r == [Idle EXCEPT !.step = "update_write", !.doc = d, !.qty = q]
  <2>1. r \in Requests /\ r.doc \in Docs
    BY IdleIsRequest, EditQtysAssumption DEF Idle, Requests, Steps
  <2> QED
    BY <1>4, <2>1, RequestsKeepTheirType DEF UpdateRead, TypeOK
<1>5. ASSUME NEW d \in Docs, NEW s \in Docs, NEW k \in Kinds, ConvertBegin(w, s, k, d)
      PROVE  TypeOK'
  <2> DEFINE r == [Idle EXCEPT !.step = "convert_write", !.doc = s,
                               !.fresh = d, !.as = k]
  <2>1. r \in Requests /\ r.doc \in Docs
    BY IdleIsRequest DEF Idle, Requests, Steps
  <2> QED
    BY <1>5, <2>1, RequestsKeepTheirType DEF ConvertBegin, TypeOK
<1> QED
  BY <1>1, <1>2, <1>3, <1>4, <1>5 DEF Begin

LEMMA ContinueTypeOK ==
  ASSUME TypeOK, NEW w \in Workers, Continue(w) PROVE TypeOK'
<1> USE DEF docVars, Released, StockReversed
<1> DEFINE d == req[w].doc
<1>1. req[w].step # "idle" => d \in Docs
  BY DEF TypeOK
<1>2. ASSUME req' = [req EXCEPT ![w] = Idle]
      PROVE  /\ req' \in [Workers -> Requests]
             /\ \A u \in Workers : req'[u].step # "idle" => req'[u].doc \in Docs
  BY <1>2, IdleIsRequest, RequestsKeepTheirType DEF Idle
<1>3. CASE FinalizeGuard(w)
  <2> DEFINE m == StockDirection(kind[d]) # 0 /\ ~ SourceMovedStock(d)
             t == /\ HasSource(d)
                  /\ kind[source[d]] \in ClosedOnConvert
                  /\ status[source[d]] = "sent"
             r == [req[w] EXCEPT !.step = "finalize_write", !.moves = m, !.touch = t]
  <2>1. m \in BOOLEAN /\ t \in BOOLEAN
    OBVIOUS
  <2>2. r \in Requests /\ r.doc = d
    <3> HIDE DEF m, t
    <3> QED BY <2>1, RequestsType DEF Requests, Steps
  <2>3. req' = [req EXCEPT ![w] = r]
    BY <1>3 DEF FinalizeGuard
  <2> QED
    BY <1>1, <1>3, <2>2, <2>3, RequestsKeepTheirType DEF FinalizeGuard, TypeOK
<1>4. CASE VoidRead(w)
  <2> DEFINE t == SourceReopens(d)
             r == [req[w] EXCEPT !.step = "void_write", !.touch = t]
  <2>1. t \in BOOLEAN
    BY DEF SourceReopens
  <2>2. r \in Requests /\ r.doc = d
    <3> HIDE DEF t
    <3> QED BY <2>1, RequestsType DEF Requests, Steps
  <2>3. req' = [req EXCEPT ![w] = r]
    BY <1>4 DEF VoidRead
  <2> QED
    BY <1>1, <1>4, <2>2, <2>3, RequestsKeepTheirType DEF VoidRead, TypeOK
<1>5. CASE DeleteRead(w)
  <2> DEFINE t == SourceReopens(d)
             r == [req[w] EXCEPT !.step = "delete_write", !.touch = t]
  <2>1. t \in BOOLEAN
    BY DEF SourceReopens
  <2>2. r \in Requests /\ r.doc = d
    <3> HIDE DEF t
    <3> QED BY <2>1, RequestsType DEF Requests, Steps
  <2>3. req' = [req EXCEPT ![w] = r]
    BY <1>5 DEF DeleteRead
  <2> QED
    BY <1>1, <1>5, <2>2, <2>3, RequestsKeepTheirType DEF DeleteRead, TypeOK
<1>6. CASE ConvertWrite(w)
  BY <1>1, <1>2, <1>6, RequestsType DEF ConvertWrite, TypeOK, Statuses
<1>7. CASE UpdateWrite(w)
  BY <1>1, <1>2, <1>7, RequestsType DEF UpdateWrite, TypeOK
<1>8. CASE DeleteWrite(w)
  BY <1>1, <1>2, <1>8 DEF DeleteWrite, TypeOK, Statuses
<1>9. CASE FinalizeWrite(w)
  <2>1. AmountToBook(d, req[w].moves) \in Nat
    BY <1>1, <1>9 DEF FinalizeWrite, TypeOK, AmountToBook
  <2>2. StockDirection(kind[d]) * lines[d] \in Int
    BY <1>1, <1>9, DirectionsAreIntegers DEF FinalizeWrite, TypeOK
  <2>3. moved' \in [Docs -> Int]
    BY <1>1, <1>9, <2>2 DEF FinalizeWrite, TypeOK
  <2>4. filed' \in [Docs -> BOOLEAN] /\ paid' \in [Docs -> BOOLEAN]
    BY <1>1, <1>9, FbrSettingsAssumption DEF FinalizeWrite, TypeOK
  <2> QED
    BY <1>1, <1>2, <1>9, <2>1, <2>3, <2>4, RequestsType
    DEF FinalizeWrite, TypeOK, Statuses
<1>10. CASE VoidWrite(w)
  <2>1. StockDirection(kind[d]) * lines[d] \in Int
    BY <1>1, <1>10, DirectionsAreIntegers DEF VoidWrite, TypeOK
  <2>2. moved' \in [Docs -> Int]
    BY <1>1, <1>10, <2>1 DEF VoidWrite, TypeOK
  <2> QED
    BY <1>1, <1>2, <1>10, <2>2 DEF VoidWrite, TypeOK, Statuses
<1> QED
  BY <1>3, <1>4, <1>5, <1>6, <1>7, <1>8, <1>9, <1>10 DEF Continue

LEMMA StepTypeOK == TypeOK /\ [Next]_vars => TypeOK'
<1> SUFFICES ASSUME TypeOK, [Next]_vars PROVE TypeOK'
  OBVIOUS
<1>1. ASSUME NEW d \in Roots, NEW k \in RootKinds, NEW q \in 1..MaxQty, Create(d, k, q)
      PROVE  TypeOK'
  BY <1>1, RootsAssumption, RootKindsAssumption, MaxQtyAssumption
  DEF Create, TypeOK, Statuses
<1>2. ASSUME NEW w \in Workers, Rollback(w) PROVE TypeOK'
  BY <1>2, IdleIsRequest, RequestsKeepTheirType DEF Rollback, TypeOK, docVars, Idle
<1>3. ASSUME NEW d \in Docs, PaymentSettles(d) \/ PaymentReleases(d) PROVE TypeOK'
  BY <1>3 DEF PaymentSettles, PaymentReleases, TypeOK
<1>4. CASE UNCHANGED vars
  BY <1>4 DEF vars, TypeOK
<1> QED
  BY <1>1, <1>2, <1>3, <1>4, BeginTypeOK, ContinueTypeOK DEF Next, Refuse, Abort

\* The database rows and the requests keep their types (TypeOK).
THEOREM TypeCorrect == Spec => []TypeOK
  BY InitTypeOK, StepTypeOK, PTL DEF Spec

-----------------------------------------------------------------------------
(* Safety: every step keeps IInv.  A request writes a document only under its *)
(* row lock, or while nobody has it, so what other requests established about *)
(* their own documents stays (GuardsStillHold).                               *)

LEMMA IdleFields ==
  /\ Idle.step = "idle" /\ Idle.doc = NoDoc /\ Idle.fresh = NoDoc
  /\ Idle.moves = FALSE /\ Idle.touch = FALSE
  BY DEF Idle

\* What the invariant says of documents alone.
RowsAreSound ==
  /\ SourcesAreKinds
  /\ OneActiveDependent
  /\ SourceStandsBehindDependent
  /\ NeverMovedTwice
  /\ PaidIsNotVoid
  /\ FiledInvoiceIsNotVoid

\* A step that writes no document keeps what is said of documents.
LEMMA RowsStaySound ==
  ASSUME TypeOK, RowsAreSound, UNCHANGED <<kind, status, source, posted, filed, paid>>,
         \A u \in Workers :
            /\ req'[u].touch /\ source[req'[u].doc] # NoDoc
            => kind[source[req'[u].doc]] \in ClosedOnConvert
  PROVE  RowsAreSound'
<1> USE DEF RowsAreSound
<1>1. SourcesAreKinds'
  BY DEF SourcesAreKinds, HasSource
<1>2. OneActiveDependent'
  BY DEF OneActiveDependent, ActiveDependents
<1>3. SourceStandsBehindDependent'
  BY DEF SourceStandsBehindDependent, HasSource
<1>4. NeverMovedTwice'
  BY DEF NeverMovedTwice, HasSource
<1>5. PaidIsNotVoid' /\ FiledInvoiceIsNotVoid'
  BY DEF PaidIsNotVoid, FiledInvoiceIsNotVoid
<1> QED
  BY <1>1, <1>2, <1>3, <1>4, <1>5

\* A request that starts by locking d, in a state where what it must remember of
\* d holds.
LEMMA LockingKeepsIInv ==
  ASSUME IInv, NEW w \in Workers, NEW d \in Docs, NEW r \in Requests,
         req[w].step = "idle", Unlocked(d), TypeOK',
         r.doc = d, r.step \in {"finalize_guard", "void_read"},
         r.fresh = NoDoc, r.touch = FALSE,
         r.step = "finalize_guard" => status[d] = "draft",
         r.step = "void_read" => status[d] \in Finalized /\ VoidAllowed(d),
         lock' = [lock EXCEPT ![d] = w], req' = [req EXCEPT ![w] = r],
         UNCHANGED docVars
  PROVE  IInv'
<1> USE DEF IInv
<1>1. /\ req'[w] = r
      /\ \A u \in Workers : u # w => req'[u] = req[u]
      /\ lock'[d] = w
      /\ \A x \in Docs : x # d => lock'[x] = lock[x]
  BY DEF TypeOK
<1>2. LocksAreOwned'
  BY <1>1 DEF LocksAreOwned, TypeOK, LockedSteps, Unlocked
<1>3. FreshRowsAreFree'
  BY <1>1 DEF FreshRowsAreFree, docVars
<1>4. GuardsStillHold'
  BY <1>1 DEF GuardsStillHold, GuardsHold, NothingMadeFrom, SourceMovedStock, VoidAllowed,
              docVars, Finalized, HasSource, ActiveDependents
<1>5. RowsAreSound'
  BY <1>1, RowsStaySound DEF RowsAreSound, SourcesAreKinds, HasSource, docVars
<1> QED
  BY <1>2, <1>3, <1>4, <1>5 DEF RowsAreSound

\* update and delete begin with a read and lock nothing.
LEMMA ReadingKeepsIInv ==
  ASSUME IInv, NEW w \in Workers, NEW d \in Docs, NEW r \in Requests,
         req[w].step = "idle", status[d] = "draft", TypeOK',
         r.doc = d, r.step \in {"update_write", "delete_read"},
         r.fresh = NoDoc, r.touch = FALSE,
         req' = [req EXCEPT ![w] = r], UNCHANGED <<docVars, lock>>
  PROVE  IInv'
<1> USE DEF IInv
<1>1. req'[w] = r /\ \A u \in Workers : u # w => req'[u] = req[u]
  BY DEF TypeOK
<1>2. LocksAreOwned'
  BY <1>1 DEF LocksAreOwned, TypeOK, LockedSteps
<1>3. FreshRowsAreFree'
  BY <1>1 DEF FreshRowsAreFree, docVars
<1>4. GuardsStillHold'
  BY <1>1 DEF GuardsStillHold, GuardsHold, NothingMadeFrom, SourceMovedStock, VoidAllowed,
              docVars, Finalized, HasSource, ActiveDependents
<1>5. RowsAreSound'
  BY <1>1, RowsStaySound DEF RowsAreSound, SourcesAreKinds, HasSource, docVars
<1> QED
  BY <1>2, <1>3, <1>4, <1>5 DEF RowsAreSound

\* convert locks its source and takes a row nobody has.
LEMMA ConvertBeginKeepsIInv ==
  ASSUME IInv, NEW w \in Workers, NEW s \in Docs, NEW k \in Kinds, NEW d \in Docs,
         ConvertBegin(w, s, k, d), TypeOK'
  PROVE  IInv'
<1> USE DEF IInv
<1> DEFINE r == [Idle EXCEPT !.step = "convert_write", !.doc = s, !.fresh = d, !.as = k]
<1>1. /\ r.step = "convert_write" /\ r.doc = s /\ r.fresh = d /\ r.as = k
      /\ r.touch = FALSE
  BY DEF Idle
<1>2. /\ req'[w] = r
      /\ \A u \in Workers : u # w => req'[u] = req[u]
      /\ lock'[s] = w
      /\ \A x \in Docs : x # s => lock'[x] = lock[x]
      /\ UNCHANGED docVars
  BY DEF ConvertBegin, TypeOK
<1> HIDE DEF r
<1>3. LocksAreOwned'
  BY <1>1, <1>2 DEF LocksAreOwned, TypeOK, LockedSteps, Unlocked, ConvertBegin
<1>4. FreshRowsAreFree'
  BY <1>1, <1>2 DEF FreshRowsAreFree, docVars, ConvertBegin, Unused
<1>5. GuardsStillHold'
  BY <1>1, <1>2 DEF GuardsStillHold, GuardsHold, NothingMadeFrom, SourceMovedStock,
                    VoidAllowed, docVars, Finalized, HasSource, ActiveDependents,
                    ConvertBegin
<1>6. RowsAreSound'
  BY <1>1, <1>2, RowsStaySound DEF RowsAreSound, SourcesAreKinds, HasSource, docVars
<1> QED
  BY <1>3, <1>4, <1>5, <1>6 DEF RowsAreSound

LEMMA BeginKeepsIInv ==
  ASSUME IInv, NEW w \in Workers, Begin(w), TypeOK' PROVE IInv'
<1> USE IdleIsRequest
<1>1. ASSUME NEW d \in Docs, FinalizeBegin(w, d) PROVE IInv'
  <2> DEFINE r == [Idle EXCEPT !.step = "finalize_guard", !.doc = d]
  <2>1. /\ r \in Requests /\ r.doc = d /\ r.step = "finalize_guard"
        /\ r.fresh = NoDoc /\ r.touch = FALSE
    BY DEF Idle, Requests, Steps
  <2> QED
    BY <1>1, <2>1, LockingKeepsIInv DEF FinalizeBegin
<1>2. ASSUME NEW d \in Docs, VoidBegin(w, d) PROVE IInv'
  <2> DEFINE r == [Idle EXCEPT !.step = "void_read", !.doc = d]
  <2>1. /\ r \in Requests /\ r.doc = d /\ r.step = "void_read"
        /\ r.fresh = NoDoc /\ r.touch = FALSE
    BY DEF Idle, Requests, Steps
  <2> QED
    BY <1>2, <2>1, LockingKeepsIInv DEF VoidBegin
<1>3. ASSUME NEW d \in Docs, DeleteBegin(w, d) PROVE IInv'
  <2> DEFINE r == [Idle EXCEPT !.step = "delete_read", !.doc = d]
  <2>1. /\ r \in Requests /\ r.doc = d /\ r.step = "delete_read"
        /\ r.fresh = NoDoc /\ r.touch = FALSE
    BY DEF Idle, Requests, Steps
  <2> QED
    BY <1>3, <2>1, ReadingKeepsIInv DEF DeleteBegin
<1>4. ASSUME NEW d \in Docs, NEW q \in EditQtys, UpdateRead(w, d, q) PROVE IInv'
  <2> DEFINE r == [Idle EXCEPT !.step = "update_write", !.doc = d, !.qty = q]
  <2>1. /\ r \in Requests /\ r.doc = d /\ r.step = "update_write"
        /\ r.fresh = NoDoc /\ r.touch = FALSE
    BY EditQtysAssumption DEF Idle, Requests, Steps
  <2> QED
    BY <1>4, <2>1, ReadingKeepsIInv DEF UpdateRead, Editable
<1> QED
  BY <1>1, <1>2, <1>3, <1>4, ConvertBeginKeepsIInv DEF Begin

-----------------------------------------------------------------------------
\* A request reads again and goes on with the lock it has.
LEMMA GoingOnKeepsIInv ==
  ASSUME IInv, NEW w \in Workers, NEW r \in Requests, TypeOK',
         \/ req[w].step = "finalize_guard" /\ r.step = "finalize_write"
         \/ req[w].step = "void_read" /\ r.step = "void_write"
         \/ req[w].step = "delete_read" /\ r.step = "delete_write",
         r.doc = req[w].doc, r.fresh = req[w].fresh,
         r.touch => HasSource(r.doc) /\ kind[source[r.doc]] \in ClosedOnConvert,
         r.step = "finalize_write" /\ r.moves => ~ SourceMovedStock(r.doc),
         req' = [req EXCEPT ![w] = r], UNCHANGED <<docVars, lock>>
  PROVE  IInv'
<1> USE DEF IInv
<1>1. req'[w] = r /\ \A u \in Workers : u # w => req'[u] = req[u]
  BY DEF TypeOK
<1>2. LocksAreOwned'
  BY <1>1 DEF LocksAreOwned, TypeOK, LockedSteps
<1>3. FreshRowsAreFree'
  BY <1>1 DEF FreshRowsAreFree, docVars
<1>4. GuardsStillHold'
  BY <1>1 DEF GuardsStillHold, GuardsHold, NothingMadeFrom, SourceMovedStock, VoidAllowed,
              docVars, Finalized, HasSource, ActiveDependents
<1>5. RowsAreSound'
  BY <1>1, RowsStaySound DEF RowsAreSound, SourcesAreKinds, HasSource, docVars
<1> QED
  BY <1>2, <1>3, <1>4, <1>5 DEF RowsAreSound

LEMMA ReadsKeepIInv ==
  ASSUME IInv, NEW w \in Workers, TypeOK',
         FinalizeGuard(w) \/ VoidRead(w) \/ DeleteRead(w)
  PROVE  IInv'
<1> DEFINE d == req[w].doc
<1>1. TypeOK
  BY DEF IInv
<1>2. CASE FinalizeGuard(w)
  <2> DEFINE m == StockDirection(kind[d]) # 0 /\ ~ SourceMovedStock(d)
             t == /\ HasSource(d)
                  /\ kind[source[d]] \in ClosedOnConvert
                  /\ status[source[d]] = "sent"
             r == [req[w] EXCEPT !.step = "finalize_write", !.moves = m, !.touch = t]
  <2>1. m \in BOOLEAN /\ t \in BOOLEAN
    OBVIOUS
  <2>2. /\ r \in Requests /\ r.doc = d /\ r.fresh = req[w].fresh
        /\ r.step = "finalize_write" /\ r.moves = m /\ r.touch = t
    <3> HIDE DEF m, t
    <3> QED BY <1>1, <2>1, RequestsType DEF Requests, Steps
  <2>3. req' = [req EXCEPT ![w] = r]
    BY <1>2 DEF FinalizeGuard
  <2> QED
    <3>1. /\ req[w].step = "finalize_guard" /\ UNCHANGED <<docVars, lock>>
          /\ t => HasSource(d) /\ kind[source[d]] \in ClosedOnConvert
          /\ m => ~ SourceMovedStock(d)
      BY <1>2 DEF FinalizeGuard
    <3> HIDE DEF m, t, r
    <3> QED BY <2>2, <2>3, <3>1, GoingOnKeepsIInv
<1>3. CASE VoidRead(w)
  <2> DEFINE t == SourceReopens(d)
             r == [req[w] EXCEPT !.step = "void_write", !.touch = t]
  <2>1. t \in BOOLEAN
    BY DEF SourceReopens
  <2>2. /\ r \in Requests /\ r.doc = d /\ r.fresh = req[w].fresh
        /\ r.step = "void_write" /\ r.touch = t
    <3> HIDE DEF t
    <3> QED BY <1>1, <2>1, RequestsType DEF Requests, Steps
  <2>3. req' = [req EXCEPT ![w] = r]
    BY <1>3 DEF VoidRead
  <2> QED
    <3>1. /\ req[w].step = "void_read" /\ UNCHANGED <<docVars, lock>>
          /\ t => HasSource(d) /\ kind[source[d]] \in ClosedOnConvert
      BY <1>3 DEF VoidRead, SourceReopens
    <3> HIDE DEF t, r
    <3> QED BY <2>2, <2>3, <3>1, GoingOnKeepsIInv
<1>4. CASE DeleteRead(w)
  <2> DEFINE t == SourceReopens(d)
             r == [req[w] EXCEPT !.step = "delete_write", !.touch = t]
  <2>1. t \in BOOLEAN
    BY DEF SourceReopens
  <2>2. /\ r \in Requests /\ r.doc = d /\ r.fresh = req[w].fresh
        /\ r.step = "delete_write" /\ r.touch = t
    <3> HIDE DEF t
    <3> QED BY <1>1, <2>1, RequestsType DEF Requests, Steps
  <2>3. req' = [req EXCEPT ![w] = r]
    BY <1>4 DEF DeleteRead
  <2> QED
    <3>1. /\ req[w].step = "delete_read" /\ UNCHANGED <<docVars, lock>>
          /\ t => HasSource(d) /\ kind[source[d]] \in ClosedOnConvert
      BY <1>4 DEF DeleteRead, SourceReopens
    <3> HIDE DEF t, r
    <3> QED BY <2>2, <2>3, <3>1, GoingOnKeepsIInv
<1> QED
  BY <1>2, <1>3, <1>4

\* A transaction that rolls back only gives up its locks.
LEMMA RollbackKeepsIInv ==
  ASSUME IInv, NEW w \in Workers, Rollback(w), TypeOK' PROVE IInv'
<1> USE DEF IInv
<1>1. /\ req'[w] = Idle /\ \A u \in Workers : u # w => req'[u] = req[u]
      /\ \A x \in Docs : lock'[x] = IF lock[x] = w THEN NoWorker ELSE lock[x]
      /\ UNCHANGED docVars
  BY DEF TypeOK, Rollback
<1>2. LocksAreOwned'
  BY <1>1, IdleFields DEF LocksAreOwned, TypeOK, LockedSteps
<1>3. FreshRowsAreFree'
  BY <1>1, IdleFields DEF FreshRowsAreFree, docVars
<1>4. GuardsStillHold'
  BY <1>1, IdleFields DEF GuardsStillHold, GuardsHold, NothingMadeFrom, SourceMovedStock,
                          VoidAllowed, docVars, Finalized, HasSource, ActiveDependents
<1>5. RowsAreSound'
  BY <1>1, IdleFields, RowsStaySound DEF RowsAreSound, SourcesAreKinds, HasSource, docVars
<1> QED
  BY <1>2, <1>3, <1>4, <1>5 DEF RowsAreSound

-----------------------------------------------------------------------------
(* The writes.                                                              *)

\* A request ends: its lock goes, and it remembers nothing.
LEMMA EndingKeepsLocks ==
  ASSUME TypeOK, LocksAreOwned, NEW w \in Workers,
         req[w].step # "idle",
         lock' = IF req[w].step \in LockedSteps THEN Released(req[w].doc) ELSE lock,
         req' = [req EXCEPT ![w] = Idle]
  PROVE  /\ req'[w] = Idle /\ \A u \in Workers : u # w => req'[u] = req[u]
         /\ LocksAreOwned'
<1>1. req'[w] = Idle /\ \A u \in Workers : u # w => req'[u] = req[u]
  BY DEF TypeOK
<1>2. LocksAreOwned'
  BY <1>1, IdleFields DEF LocksAreOwned, TypeOK, LockedSteps, Released
<1> QED
  BY <1>1, <1>2

\* The new row has an active source and is the only one made from it.
LEMMA ConvertWriteKeepsIInv ==
  ASSUME IInv, NEW w \in Workers, ConvertWrite(w), TypeOK' PROVE IInv'
<1> USE DEF IInv
<1> DEFINE s == req[w].doc
           d == req[w].fresh
<1>1. /\ s \in Docs /\ d \in Docs /\ d # s
      /\ status[d] = "absent" /\ status[s] = "sent"
      /\ ActiveDependents(s) = {}
      /\ req[w].as \in Conversions(kind[s])
      /\ req[w].step = "convert_write"
      /\ lock[s] = w
      /\ \A u \in Workers : req[u].fresh = d => u = w
  BY DEF ConvertWrite, TypeOK, FreshRowsAreFree, GuardsStillHold, GuardsHold, NothingMadeFrom,
         LocksAreOwned, LockedSteps
<1>2. /\ status' = [status EXCEPT ![d] = "draft"]
      /\ source' = [source EXCEPT ![d] = s]
      /\ kind' = [kind EXCEPT ![d] = req[w].as]
      /\ UNCHANGED <<posted, filed, paid>>
  BY DEF ConvertWrite
<1>3. /\ req'[w] = Idle /\ \A u \in Workers : u # w => req'[u] = req[u]
      /\ LocksAreOwned'
  BY <1>1, EndingKeepsLocks DEF ConvertWrite, LockedSteps
<1>4. \A x \in Docs : source[x] # d
  BY <1>1 DEF SourcesAreKinds, HasSource
<1>5. source[d] = NoDoc
  BY <1>1 DEF SourcesAreKinds, HasSource
<1> HIDE DEF s, d
<1>6. FreshRowsAreFree'
  BY <1>1, <1>2, <1>3, IdleFields DEF FreshRowsAreFree, TypeOK, GuardsStillHold, GuardsHold
<1>7. SourcesAreKinds'
  BY <1>1, <1>2, <1>3, <1>4, <1>5, IdleFields
  DEF SourcesAreKinds, HasSource, TypeOK, GuardsStillHold, GuardsHold
<1>8. GuardsStillHold'
  <2>1. \A u \in Workers : u # w /\ req[u].step \in LockedSteps => req[u].doc # s
    BY <1>1 DEF LocksAreOwned
  <2>2. \A x \in Docs : x # s => ActiveDependents(x)' = ActiveDependents(x)
    BY <1>1, <1>2, <1>5 DEF ActiveDependents, TypeOK
  <2> QED
    <3>1. ASSUME NEW u \in Workers, u # w
          PROVE  LET c == req[u].doc IN
                 req[u].step # "idle" =>
                 /\ c \in Docs /\ c # d
                 /\ status'[c] = status[c] /\ source'[c] = source[c] /\ kind'[c] = kind[c]
                 /\ req[u].step \in LockedSteps => c # s
      BY <1>1, <1>2, <2>1, <3>1 DEF GuardsStillHold, GuardsHold, TypeOK
    <3>2. \A x \in Docs : source[x] # NoDoc =>
             kind'[source[x]] = kind[source[x]] /\ status'[source[x]] = status[source[x]]
      BY <1>1, <1>2, <1>4 DEF TypeOK
    <3>3. ASSUME NEW u \in Workers, u # w PROVE GuardsHold(u)'
      BY <1>1, <1>2, <1>3, <2>2, <3>1, <3>2, <3>3
      DEF GuardsStillHold, GuardsHold, HasSource, VoidAllowed, NothingMadeFrom,
          SourceMovedStock, LockedSteps
    <3>4. GuardsHold(w)'
      BY <1>3, IdleFields DEF GuardsHold
    <3> QED
      BY <3>3, <3>4 DEF GuardsStillHold, GuardsHold
<1>9. OneActiveDependent'
  BY <1>1, <1>2, <1>5 DEF OneActiveDependent, ActiveDependents, TypeOK
<1>10. SourceStandsBehindDependent'
  BY <1>1, <1>2, <1>4 DEF SourceStandsBehindDependent, TypeOK, HasSource, Finalized
<1>11. NeverMovedTwice'
  BY <1>1, <1>2, <1>4 DEF NeverMovedTwice, TypeOK, HasSource, Finalized
<1>12. PaidIsNotVoid' /\ FiledInvoiceIsNotVoid'
  BY <1>1, <1>2 DEF PaidIsNotVoid, FiledInvoiceIsNotVoid, TypeOK
<1> QED
  BY <1>3, <1>6, <1>7, <1>8, <1>9, <1>10, <1>11, <1>12

\* The document it came from stands, and nothing was made from it yet.
LEMMA FinalizeWriteKeepsIInv ==
  ASSUME IInv, NEW w \in Workers, FinalizeWrite(w), TypeOK' PROVE IInv'
<1> USE DEF IInv
<1> DEFINE d == req[w].doc
           s == source[d]
           touch == req[w].touch
<1>1. /\ d \in Docs /\ status[d] = "draft" /\ lock[d] = w
      /\ req[w].step = "finalize_write"
      /\ touch /\ HasSource(d) => kind[s] \in ClosedOnConvert /\ Unlocked(s)
  BY DEF FinalizeWrite, TypeOK, GuardsStillHold, GuardsHold, LocksAreOwned, LockedSteps,
         SourcesAreKinds, SourceWritable
<1>2. /\ HasSource(d) => s \in Docs /\ s # d /\ status[s] \in Finalized
      /\ \A x \in Docs : source[x] = d => status[x] \notin Active
  BY <1>1 DEF TypeOK, HasSource, SourceStandsBehindDependent, Active, Finalized
<1>3. \A x \in Docs :
         status'[x] = IF x = d THEN "sent"
                      ELSE IF touch /\ HasSource(d) /\ x = s THEN "closed" ELSE status[x]
  BY <1>1, <1>2 DEF FinalizeWrite, TypeOK, HasSource
<1>4. /\ posted' = [posted EXCEPT ![d] = req[w].moves]
      /\ UNCHANGED <<kind, source>>
      /\ \A x \in Docs : x # d => filed'[x] = filed[x] /\ paid'[x] = paid[x]
  BY <1>1 DEF FinalizeWrite, TypeOK
<1>5. /\ req'[w] = Idle /\ \A u \in Workers : u # w => req'[u] = req[u]
      /\ LocksAreOwned'
  BY <1>1, EndingKeepsLocks DEF FinalizeWrite, LockedSteps
<1>6. \A x \in Docs : ActiveDependents(x)' = ActiveDependents(x)
  BY <1>1, <1>2, <1>3, <1>4 DEF ActiveDependents, Active, Finalized
<1>7. \A u \in Workers : u # w /\ req[u].step \in LockedSteps =>
         /\ req[u].doc # d
         /\ touch /\ HasSource(d) => req[u].doc # s
  BY <1>1, <1>2 DEF LocksAreOwned, Unlocked
<1> HIDE DEF d, s, touch
<1>8. FreshRowsAreFree'
  BY <1>1, <1>2, <1>3, <1>4, <1>5, IdleFields
  DEF FreshRowsAreFree, TypeOK, GuardsStillHold, GuardsHold, Finalized
<1>9. SourcesAreKinds'
  BY <1>1, <1>2, <1>3, <1>4, <1>5, IdleFields
  DEF SourcesAreKinds, HasSource, TypeOK, Finalized
<1>10. GuardsStillHold'
  <2>1. ASSUME NEW u \in Workers, u # w PROVE GuardsHold(u)'
    <3> DEFINE c == req[u].doc
    <3>1. GuardsHold(u) /\ req'[u] = req[u]
      BY <1>5, <2>1 DEF GuardsStillHold, GuardsHold
    <3>2. req[u].step # "idle" => c \in Docs
      BY DEF TypeOK
    <3>3. req[u].step \in LockedSteps =>
             status'[c] = status[c] /\ paid'[c] = paid[c] /\ filed'[c] = filed[c]
      BY <1>3, <1>4, <1>7, <2>1, <3>2 DEF LockedSteps
    <3>4. req[u].step = "finalize_write" /\ HasSource(c) =>
             posted'[source[c]] = posted[source[c]]
      BY <1>1, <1>2, <1>4, <3>1, <3>2 DEF GuardsHold, Active, TypeOK
    <3>5. req[u].step # "idle" => status'[c] # "absent"
      BY <1>3, <3>1, <3>2 DEF GuardsHold
    <3> QED
      BY <1>4, <1>6, <3>1, <3>2, <3>3, <3>4, <3>5
      DEF GuardsHold, HasSource, VoidAllowed, NothingMadeFrom, SourceMovedStock, LockedSteps
  <2>2. GuardsHold(w)'
    BY <1>5, IdleFields DEF GuardsHold
  <2> QED
    BY <2>1, <2>2 DEF GuardsStillHold, GuardsHold
<1>11. OneActiveDependent'
  BY <1>6 DEF OneActiveDependent
<1>12. SourceStandsBehindDependent'
  BY <1>1, <1>2, <1>3, <1>4
  DEF SourceStandsBehindDependent, HasSource, Finalized, Active, TypeOK
<1>13. NeverMovedTwice'
  <2>1. req[w].moves /\ HasSource(d) /\ StockDirection(kind[d]) = StockDirection(kind[s])
        => ~ posted[s]
    BY <1>1 DEF GuardsStillHold, GuardsHold, SourceMovedStock, d, s
  <2>2. ASSUME NEW x \in Docs, status'[x] \in Finalized, HasSource(x), posted'[x],
               StockDirection(kind[x]) = StockDirection(kind[source[x]])
        PROVE  ~ posted'[source[x]]
    BY <1>1, <1>2, <1>3, <1>4, <2>1, <2>2
    DEF NeverMovedTwice, HasSource, Finalized, Active, TypeOK, s
  <2> QED
    BY <1>4, <2>2 DEF NeverMovedTwice, HasSource
<1>14. PaidIsNotVoid' /\ FiledInvoiceIsNotVoid'
  BY <1>1, <1>3, <1>4 DEF PaidIsNotVoid, FiledInvoiceIsNotVoid, TypeOK
<1> QED
  BY <1>5, <1>8, <1>9, <1>10, <1>11, <1>12, <1>13, <1>14

\* A void or a deletion: document d goes, rows made from it may lose their source,
\* the order it came from may open again, and nothing else is written.
Removes(w, d, opened, gone) ==
  /\ d \in Docs /\ opened \subseteq Docs /\ gone \in {"void", "deleted"}
  /\ req[w].step # "idle" /\ d = req[w].doc
  /\ \A x \in opened : /\ x # d /\ status[x] # "absent"
                       /\ kind[x] \in ClosedOnConvert
  /\ \A x \in Docs : status'[x] = IF x = d THEN gone
                                  ELSE IF x \in opened THEN "sent" ELSE status[x]
  /\ \A x \in Docs : /\ source'[x] = source[x] \/ source'[x] = NoDoc
                     /\ source'[x] = d => status[x] \notin Active
                     /\ posted'[x] => posted[x]
                     /\ filed'[x] => filed[x]
                     /\ paid'[x] => paid[x]
  /\ gone = "void" => ~ paid[d] /\ ~ (filed[d] /\ kind[d] = "invoice")
  /\ kind' = kind
  /\ req' = [req EXCEPT ![w] = Idle]
  /\ lock' = IF req[w].step \in LockedSteps THEN Released(d) ELSE lock
  /\ \A u \in Workers : u # w /\ req[u].step \in LockedSteps =>
        req[u].doc # d /\ req[u].doc \notin opened

LEMMA RemovingKeepsIInv ==
  ASSUME IInv, TypeOK', NEW w \in Workers, NEW d, NEW opened, NEW gone,
         Removes(w, d, opened, gone)
  PROVE  IInv'
<1> USE DEF Removes
<1> USE DEF IInv
<1>1. /\ req'[w] = Idle /\ \A u \in Workers : u # w => req'[u] = req[u]
      /\ LocksAreOwned'
  BY EndingKeepsLocks
<1>2. status[d] # "absent"
  BY DEF GuardsStillHold, GuardsHold
<1>3. \A x \in opened : source[x] = NoDoc
  BY ConversionsMakeNoOrders DEF SourcesAreKinds, HasSource, TypeOK
<1>4. \A x \in Docs : status'[x] = "absent" <=> status[x] = "absent"
  BY <1>2
<1>5. ASSUME NEW x \in Docs, source'[x] # NoDoc, status'[x] \in Active
      PROVE  /\ source'[x] = source[x] /\ status[x] = status'[x] /\ source[x] \in Docs
             /\ source[x] # d
  BY <1>3, <1>5 DEF TypeOK, Active
<1>6. FreshRowsAreFree'
  BY <1>1, <1>4, IdleFields DEF FreshRowsAreFree, TypeOK
<1>7. SourcesAreKinds'
  BY <1>1, <1>4, IdleFields DEF SourcesAreKinds, HasSource, TypeOK, GuardsStillHold, GuardsHold
<1>8. GuardsStillHold'
  <2>1. \A x \in Docs : ActiveDependents(x)' \subseteq ActiveDependents(x)
    BY <1>5 DEF ActiveDependents, TypeOK
  <2>2. ASSUME NEW u \in Workers, u # w PROVE GuardsHold(u)'
    <3> DEFINE c == req[u].doc
    <3>1. GuardsHold(u) /\ req'[u] = req[u] /\ (req[u].step # "idle" => c \in Docs)
      BY <1>1, <2>2 DEF GuardsStillHold, TypeOK
    <3>2. req[u].step \in LockedSteps => status'[c] = status[c]
      BY <2>2, <3>1 DEF LockedSteps
    <3>3. req[u].step # "idle" => (SourceMovedStock(c)' => SourceMovedStock(c))
      BY <3>1 DEF SourceMovedStock, HasSource, TypeOK
    <3>4. req[u].step # "idle" => (VoidAllowed(c) => VoidAllowed(c)')
      BY <2>1, <3>1 DEF VoidAllowed
    <3> QED
      BY <1>4, <2>1, <3>1, <3>2, <3>3, <3>4
      DEF GuardsHold, NothingMadeFrom, LockedSteps
  <2>3. GuardsHold(w)'
    BY <1>1, IdleFields DEF GuardsHold
  <2> QED
    BY <2>2, <2>3 DEF GuardsStillHold
<1>9. OneActiveDependent'
  BY <1>5 DEF OneActiveDependent, ActiveDependents, TypeOK
<1>10. SourceStandsBehindDependent'
  BY <1>5 DEF SourceStandsBehindDependent, HasSource, Finalized
<1>11. NeverMovedTwice'
  BY <1>5 DEF NeverMovedTwice, HasSource, Finalized, Active
<1>12. PaidIsNotVoid' /\ FiledInvoiceIsNotVoid'
  BY DEF PaidIsNotVoid, FiledInvoiceIsNotVoid
<1> QED
  BY <1>1, <1>6, <1>7, <1>8, <1>9, <1>10, <1>11, <1>12

LEMMA VoidWriteKeepsIInv ==
  ASSUME IInv, NEW w \in Workers, VoidWrite(w), TypeOK' PROVE IInv'
<1> USE DEF IInv
<1> DEFINE d == req[w].doc
           s == source[d]
           opened == IF req[w].touch /\ HasSource(d) THEN {s} ELSE {}
<1>1. /\ d \in Docs /\ s \in Docs \cup {NoDoc} /\ lock[d] = w
      /\ status[d] \in Finalized /\ VoidAllowed(d)
      /\ req[w].step = "void_write"
  BY RequestsType DEF VoidWrite, TypeOK, GuardsStillHold, GuardsHold, LocksAreOwned, LockedSteps
<1>2. /\ opened \in SUBSET Docs
      /\ \A x \in opened : /\ x # d /\ status[x] # "absent" /\ Unlocked(x)
                           /\ kind[x] \in ClosedOnConvert
  BY <1>1, ConversionsMakeNoOrders DEF VoidWrite, SourcesAreKinds, HasSource, SourceWritable
<1>3. \A x \in Docs : status'[x] = IF x = d THEN "void"
                                   ELSE IF x \in opened THEN "sent" ELSE status[x]
  BY <1>1, <1>2 DEF VoidWrite, TypeOK, HasSource
<1>4. \A x \in Docs : source'[x] = d => status[x] \notin Active
  BY <1>1 DEF VoidWrite, VoidAllowed, ActiveDependents
<1>5. \A u \in Workers : u # w /\ req[u].step \in LockedSteps =>
         req[u].doc # d /\ req[u].doc \notin opened
  BY <1>1, <1>2 DEF LocksAreOwned, Unlocked
<1>6. /\ \A x \in Docs : posted'[x] => posted[x]
      /\ UNCHANGED <<kind, source, filed, paid>>
      /\ lock' = Released(d) /\ req' = [req EXCEPT ![w] = Idle]
  BY <1>1 DEF VoidWrite, TypeOK
<1>7. ~ paid[d] /\ ~ (filed[d] /\ kind[d] = "invoice")
  BY <1>1 DEF VoidAllowed
<1>8. req[w].step \in LockedSteps /\ req[w].step # "idle"
  BY <1>1 DEF LockedSteps
<1> HIDE DEF s, opened
<1>9. Removes(w, d, opened, "void")
  BY <1>1, <1>2, <1>3, <1>4, <1>5, <1>6, <1>7, <1>8 DEF Removes
<1> QED
  BY <1>9, RemovingKeepsIInv

LEMMA DeleteWriteKeepsIInv ==
  ASSUME IInv, NEW w \in Workers, DeleteWrite(w), TypeOK' PROVE IInv'
<1> USE DEF IInv
<1> DEFINE d == req[w].doc
           s == source[d]
           opened == IF req[w].touch THEN {s} ELSE {}
<1>1. /\ d \in Docs /\ s \in Docs \cup {NoDoc} /\ Unlocked(d)
      /\ req[w].step = "delete_write"
  BY RequestsType DEF DeleteWrite, TypeOK
<1>2. /\ opened \in SUBSET Docs
      /\ \A x \in opened : /\ x # d /\ status[x] # "absent" /\ Unlocked(x)
                           /\ kind[x] \in ClosedOnConvert
  BY <1>1, ConversionsMakeNoOrders
  DEF DeleteWrite, SourcesAreKinds, HasSource, SourceWritable, SourceExists, Live
<1>3. \A x \in Docs : status'[x] = IF x = d THEN "deleted"
                                   ELSE IF x \in opened THEN "sent" ELSE status[x]
  BY <1>1, <1>2 DEF DeleteWrite, TypeOK
<1>4. \A x \in Docs : /\ source'[x] = source[x] \/ source'[x] = NoDoc
                      /\ source'[x] # d
  BY <1>1 DEF DeleteWrite
<1>5. \A u \in Workers : u # w /\ req[u].step \in LockedSteps =>
         req[u].doc # d /\ req[u].doc \notin opened
  BY <1>1, <1>2 DEF LocksAreOwned, Unlocked
<1>6. /\ \A x \in Docs : /\ posted'[x] => posted[x]
                         /\ filed'[x] => filed[x]
                         /\ paid'[x] => paid[x]
      /\ UNCHANGED <<kind, lock>> /\ req' = [req EXCEPT ![w] = Idle]
  BY <1>1 DEF DeleteWrite, TypeOK
<1>7. req[w].step \notin LockedSteps /\ req[w].step # "idle"
  BY <1>1 DEF LockedSteps
<1> HIDE DEF s, opened
<1>8. Removes(w, d, opened, "deleted")
  BY <1>1, <1>2, <1>3, <1>4, <1>5, <1>6, <1>7 DEF Removes
<1> QED
  BY <1>8, RemovingKeepsIInv

\* Lines are not part of what keeps documents standing: an edit may be late.
LEMMA UpdateWriteKeepsIInv ==
  ASSUME IInv, NEW w \in Workers, UpdateWrite(w), TypeOK' PROVE IInv'
<1> USE DEF IInv
<1>1. /\ req'[w] = Idle /\ \A u \in Workers : u # w => req'[u] = req[u]
      /\ UNCHANGED <<kind, status, source, posted, filed, paid, lock>>
  BY DEF UpdateWrite, TypeOK
<1>2. LocksAreOwned'
  BY <1>1, EndingKeepsLocks DEF UpdateWrite, LockedSteps
<1>3. FreshRowsAreFree'
  BY <1>1, IdleFields DEF FreshRowsAreFree
<1>4. GuardsStillHold'
  BY <1>1, IdleFields DEF GuardsStillHold, GuardsHold, NothingMadeFrom, SourceMovedStock,
                          VoidAllowed, Finalized, HasSource, ActiveDependents
<1>5. RowsAreSound'
  BY <1>1, IdleFields, RowsStaySound DEF RowsAreSound, SourcesAreKinds, HasSource
<1> QED
  BY <1>2, <1>3, <1>4, <1>5 DEF RowsAreSound

-----------------------------------------------------------------------------
\* A new row stands alone.
LEMMA CreateKeepsIInv ==
  ASSUME IInv, NEW d \in Docs, NEW k \in Kinds, NEW q, Create(d, k, q), TypeOK'
  PROVE  IInv'
<1> USE DEF IInv
<1>1. /\ status[d] = "absent" /\ source[d] = NoDoc
      /\ \A x \in Docs : source[x] # d
      /\ \A w \in Workers : req[w].fresh # d /\ (req[w].step # "idle" => req[w].doc # d)
  BY DEF Create, Unused, SourcesAreKinds, HasSource, GuardsStillHold, GuardsHold
<1>2. /\ status' = [status EXCEPT ![d] = "draft"] /\ kind' = [kind EXCEPT ![d] = k]
      /\ UNCHANGED <<source, posted, filed, paid, lock, req>>
  BY DEF Create
<1>3. LocksAreOwned'
  BY <1>2 DEF LocksAreOwned
<1>4. FreshRowsAreFree'
  BY <1>1, <1>2 DEF FreshRowsAreFree, TypeOK
<1>5. SourcesAreKinds'
  BY <1>1, <1>2 DEF SourcesAreKinds, HasSource, TypeOK, GuardsStillHold, GuardsHold
<1>6. \A x \in Docs : ActiveDependents(x)' = ActiveDependents(x)
  BY <1>1, <1>2 DEF ActiveDependents, TypeOK, Active
<1>7. GuardsStillHold'
  BY <1>1, <1>2, <1>6 DEF GuardsStillHold, GuardsHold, NothingMadeFrom, SourceMovedStock,
                          VoidAllowed, HasSource, TypeOK
<1>8. OneActiveDependent'
  BY <1>6 DEF OneActiveDependent
<1>9. SourceStandsBehindDependent'
  BY <1>1, <1>2 DEF SourceStandsBehindDependent, HasSource, TypeOK
<1>10. NeverMovedTwice'
  BY <1>1, <1>2 DEF NeverMovedTwice, HasSource, TypeOK, Finalized
<1>11. PaidIsNotVoid' /\ FiledInvoiceIsNotVoid'
  BY <1>1, <1>2 DEF PaidIsNotVoid, FiledInvoiceIsNotVoid, TypeOK
<1> QED
  BY <1>3, <1>4, <1>5, <1>7, <1>8, <1>9, <1>10, <1>11

\* A payment is recorded, or taken back, on a row nobody has locked.
LEMMA PaymentsKeepIInv ==
  ASSUME IInv, NEW d \in Docs, PaymentSettles(d) \/ PaymentReleases(d), TypeOK'
  PROVE  IInv'
<1> USE DEF IInv
<1>1. /\ status[d] # "void" \/ ~ paid'[d]
      /\ Unlocked(d)
      /\ \A x \in Docs : x # d => paid'[x] = paid[x]
      /\ UNCHANGED <<kind, status, source, posted, filed, lock, req>>
  BY DEF PaymentSettles, PaymentReleases, TypeOK
<1>2. \A w \in Workers : req[w].step \in LockedSteps => req[w].doc # d
  BY <1>1 DEF LocksAreOwned, Unlocked
<1>3. LocksAreOwned' /\ FreshRowsAreFree' /\ SourcesAreKinds'
  BY <1>1 DEF LocksAreOwned, FreshRowsAreFree, SourcesAreKinds, HasSource
<1>4. GuardsStillHold'
  BY <1>1, <1>2 DEF GuardsStillHold, GuardsHold, NothingMadeFrom, SourceMovedStock,
                    VoidAllowed, HasSource, ActiveDependents, LockedSteps, TypeOK
<1>5. OneActiveDependent' /\ SourceStandsBehindDependent' /\ NeverMovedTwice'
  BY <1>1 DEF OneActiveDependent, SourceStandsBehindDependent, NeverMovedTwice,
              ActiveDependents, HasSource
<1>6. PaidIsNotVoid' /\ FiledInvoiceIsNotVoid'
  BY <1>1 DEF PaidIsNotVoid, FiledInvoiceIsNotVoid
<1> QED
  BY <1>3, <1>4, <1>5, <1>6

-----------------------------------------------------------------------------
LEMMA InitIInv == Init => IInv
<1> SUFFICES ASSUME Init PROVE IInv
  OBVIOUS
<1>1. TypeOK
  BY InitTypeOK
<1>2. LocksAreOwned /\ FreshRowsAreFree /\ GuardsStillHold /\ SourcesAreKinds
  BY IdleFields DEF Init, LocksAreOwned, LockedSteps, FreshRowsAreFree, GuardsStillHold,
                    GuardsHold, SourcesAreKinds, HasSource
<1>3. OneActiveDependent /\ SourceStandsBehindDependent /\ NeverMovedTwice
  BY DEF Init, OneActiveDependent, ActiveDependents, SourceStandsBehindDependent,
         NeverMovedTwice, HasSource
<1>4. PaidIsNotVoid /\ FiledInvoiceIsNotVoid
  BY DEF Init, PaidIsNotVoid, FiledInvoiceIsNotVoid
<1> QED
  BY <1>1, <1>2, <1>3, <1>4 DEF IInv

LEMMA StepIInv == IInv /\ [Next]_vars => IInv'
<1> SUFFICES ASSUME IInv, [Next]_vars PROVE IInv'
  OBVIOUS
<1>1. TypeOK'
  BY StepTypeOK DEF IInv
<1>2. ASSUME NEW w \in Workers, Begin(w) PROVE IInv'
  BY <1>1, <1>2, BeginKeepsIInv
<1>3. ASSUME NEW w \in Workers, Continue(w) PROVE IInv'
  BY <1>1, <1>3, ReadsKeepIInv, ConvertWriteKeepsIInv, FinalizeWriteKeepsIInv,
     VoidWriteKeepsIInv, UpdateWriteKeepsIInv, DeleteWriteKeepsIInv DEF Continue
<1>4. ASSUME NEW w \in Workers, Refuse(w) \/ Abort(w) PROVE IInv'
  BY <1>1, <1>4, RollbackKeepsIInv DEF Refuse, Abort
<1>5. ASSUME NEW d \in Roots, NEW k \in RootKinds, NEW q \in 1..MaxQty, Create(d, k, q)
      PROVE  IInv'
  BY <1>1, <1>5, CreateKeepsIInv, RootsAssumption, RootKindsAssumption
<1>6. ASSUME NEW d \in Docs, PaymentSettles(d) \/ PaymentReleases(d) PROVE IInv'
  BY <1>1, <1>6, PaymentsKeepIInv
<1>7. CASE UNCHANGED vars
  <2>1. RowsAreSound'
    BY <1>7, RowsStaySound DEF IInv, RowsAreSound, vars, SourcesAreKinds, HasSource
  <2>2. LocksAreOwned' /\ FreshRowsAreFree' /\ GuardsStillHold'
    BY <1>7 DEF IInv, vars, LocksAreOwned, FreshRowsAreFree, GuardsStillHold, GuardsHold,
                NothingMadeFrom, SourceMovedStock, VoidAllowed, HasSource, ActiveDependents
  <2> QED
    BY <1>1, <2>1, <2>2 DEF IInv, RowsAreSound
<1> QED
  BY <1>2, <1>3, <1>4, <1>5, <1>6, <1>7 DEF Next

\* The invariant the safety properties follow from: locks have owners, and what a
\* request established under its lock holds until it commits (IInv).
THEOREM Inductive == Spec => []IInv
  BY InitIInv, StepIInv, PTL DEF Spec

\* However requests interleave, at most one active document is made from another:
\* no order is delivered or invoiced twice (_guard_no_active_conversion).
THEOREM ConvertedOnce == Spec => []OneActiveDependent
<1>1. IInv => OneActiveDependent
  BY DEF IInv
<1> QED
  BY <1>1, Inductive, PTL

\* Whatever an active document was made from is finalized and not void
\* (_guard_no_active_dependents).
THEOREM SourceStands == Spec => []SourceStandsBehindDependent
<1>1. IInv => SourceStandsBehindDependent
  BY DEF IInv
<1> QED
  BY <1>1, Inductive, PTL

\* Goods do not move with a document and again with the one made from it
\* (_source_moved_stock).
THEOREM MovedOnce == Spec => []NeverMovedTwice
<1>1. IInv => NeverMovedTwice
  BY DEF IInv
<1> QED
  BY <1>1, Inductive, PTL

\* No document with money on it is void: the balance void reads under the row lock
\* is still the balance when it commits.
THEOREM PaidIsKept == Spec => []PaidIsNotVoid
<1>1. IInv => PaidIsNotVoid
  BY DEF IInv
<1> QED
  BY <1>1, Inductive, PTL

\* No invoice the tax authority holds is void.
THEOREM FiledIsKept == Spec => []FiledInvoiceIsNotVoid
<1>1. IInv => FiledInvoiceIsNotVoid
  BY DEF IInv
<1> QED
  BY <1>1, Inductive, PTL

-----------------------------------------------------------------------------
(* When drafts are edited and deleted alone (CalmSpec): the ledgers match the *)
(* documents, orders are closed exactly while fulfilled, goods move once, and *)
(* the locked, interleaved handlers implement DocumentLifecycle.             *)

\* Nothing is made from a draft, nor from a row that is gone.
SourcesWereFinalized ==
    \A d \in Docs : HasSource(d) => status[source[d]] \in {"sent", "closed", "void"}

\* The order that d came from follows what happens to d.
OrderFollows(d) == HasSource(d) /\ kind[source[d]] \in ClosedOnConvert

\* What a request read without a lock is still so when it commits.
ReadsHold(w) ==
    LET d == req[w].doc IN
    /\ req[w].step \in EditSteps => status[d] = "draft"
    /\ req[w].step = "finalize_write" =>
          /\ req[w].touch = OrderFollows(d)
          /\ req[w].moves = (StockDirection(kind[d]) # 0 /\ ~ SourceMovedStock(d))
          /\ HasSource(d) => ConvertedLinesMatch(source[d], d)
    /\ req[w].step = "void_write" => req[w].touch = OrderFollows(d)
    /\ req[w].step = "delete_write" => ~ req[w].touch

ReadsStillHold == \A w \in Workers : ReadsHold(w)

CalmIInv ==
    /\ IInv /\ OneRequestPerDraft
    /\ SourcesWereFinalized
    /\ ReadsStillHold
    /\ LedgersMatchDocument
    /\ ClosedWhileFulfilled
    /\ ConvertedLinesStillMatch
    /\ GoodsMovedOnce

-----------------------------------------------------------------------------
(* Requests and the rows they are on.                                        *)

\* A request that goes on is on a row that exists, and by itself.
LEMMA RequestsAreApart ==
  ASSUME CalmIInv, NEW w \in Workers, req[w].step # "idle"
  PROVE  /\ req[w].doc \in Docs /\ status[req[w].doc] # "absent"
         /\ \A u \in Workers : u # w /\ req[u].step # "idle" => req[u].doc # req[w].doc
<1>1. req[w].doc \in Docs /\ status[req[w].doc] # "absent"
  BY DEF CalmIInv, IInv, TypeOK, GuardsStillHold, GuardsHold
<1>2. ASSUME NEW u \in Workers, u # w, req[u].step # "idle", req[u].doc = req[w].doc
      PROVE  FALSE
  <2>1. req[u].step \notin EditSteps /\ req[w].step \notin EditSteps
    BY <1>2 DEF CalmIInv, OneRequestPerDraft
  <2>2. {req[u].step, req[w].step} \subseteq LockedSteps
    BY <1>2, <2>1, RequestsType DEF CalmIInv, IInv, Steps, EditSteps, LockedSteps
  <2> QED
    BY <1>2, <2>2 DEF CalmIInv, IInv, LocksAreOwned
<1> QED
  BY <1>1, <1>2

\* The source of a row: a row of its own, along the conversions.
LEMMA SourcesAreOthers ==
  ASSUME CalmIInv, NEW d \in Docs, HasSource(d)
  PROVE  /\ source[d] \in Docs /\ source[d] # d
         /\ kind[d] \in Conversions(kind[source[d]])
         /\ status[source[d]] \in {"sent", "closed", "void"}
         /\ status[d] \in Active => status[source[d]] \in Finalized
         /\ status[d] # "absent"
  BY ConversionsMakeNoOrders
  DEF CalmIInv, IInv, TypeOK, HasSource, SourcesAreKinds, SourcesWereFinalized,
      SourceStandsBehindDependent

\* What request u remembers stays true of rows that do not change.
LEMMA OtherReadsHold ==
  ASSUME CalmIInv, NEW u \in Workers, req'[u] = req[u],
         req[u].step # "idle" =>
            /\ kind'[req[u].doc] = kind[req[u].doc]
            /\ source'[req[u].doc] = source[req[u].doc]
            /\ status[req[u].doc] = "draft" => status'[req[u].doc] = "draft"
            /\ req[u].step = "finalize_write" => lines'[req[u].doc] = lines[req[u].doc]
            /\ HasSource(req[u].doc) =>
                  kind'[source[req[u].doc]] = kind[source[req[u].doc]]
            /\ req[u].step = "finalize_write" /\ HasSource(req[u].doc) =>
                  /\ posted'[source[req[u].doc]] = posted[source[req[u].doc]]
                  /\ lines'[source[req[u].doc]] = lines[source[req[u].doc]]
  PROVE  ReadsHold(u)'
<1>1. ReadsHold(u)
  BY DEF CalmIInv, ReadsStillHold
<1> QED
  BY <1>1 DEF ReadsHold, OrderFollows, SourceMovedStock, ConvertedLinesMatch, HasSource, EditSteps

\* What is said of documents stays while they do.
RowsMatch ==
  /\ SourcesWereFinalized /\ LedgersMatchDocument /\ ClosedWhileFulfilled
  /\ ConvertedLinesStillMatch /\ GoodsMovedOnce

LEMMA RowsStayMatched ==
  ASSUME CalmIInv, UNCHANGED <<kind, status, source, lines, posted, moved, booked>>
  PROVE  RowsMatch'
<1> USE DEF CalmIInv
<1>1. SourcesWereFinalized' /\ LedgersMatchDocument'
  BY DEF SourcesWereFinalized, LedgersMatchDocument, HasSource, AmountToBook
<1>2. ClosedWhileFulfilled'
  BY DEF ClosedWhileFulfilled, ActiveDependents
<1>3. ConvertedLinesStillMatch' /\ GoodsMovedOnce'
  BY DEF ConvertedLinesStillMatch, GoodsMovedOnce, HasSource, ConvertedLinesMatch
<1> QED
  BY <1>1, <1>2, <1>3 DEF RowsMatch
-----------------------------------------------------------------------------

\* An active document made from an order is the only one, and the order is closed
\* exactly once that document is finalized.
LEMMA OrderOfDependent ==
  ASSUME CalmIInv, NEW d \in Docs, status[d] \in Active, OrderFollows(d)
  PROVE  /\ ActiveDependents(source[d]) = {d}
         /\ status[source[d]] = IF status[d] = "draft" THEN "sent" ELSE "closed"
<1> DEFINE s == source[d]
<1>1. s \in Docs /\ status[s] \in {"sent", "closed"} /\ kind[s] \in ClosedOnConvert
  BY SourcesAreOthers DEF OrderFollows, Finalized
<1>2. d \in ActiveDependents(s)
  BY DEF ActiveDependents
<1>3. \A e \in ActiveDependents(s) : e = d
  BY <1>1, <1>2 DEF CalmIInv, IInv, OneActiveDependent, ActiveDependents
<1>4. status[s] = "closed" <=> \E e \in ActiveDependents(s) : status[e] \in Finalized
  BY <1>1 DEF CalmIInv, ClosedWhileFulfilled
<1> QED
  BY <1>1, <1>2, <1>3, <1>4 DEF Active, Finalized

-----------------------------------------------------------------------------
(* The steps that read.                                                      *)

\* A request begins: what it read of a draft is so.
LEMMA BeginKeepsReads ==
  ASSUME CalmIInv, NEW w \in Workers, Begin(w) PROVE RowsMatch' /\ ReadsStillHold'
<1>1. /\ UNCHANGED docVars
      /\ \A u \in Workers : u # w => req'[u] = req[u]
      /\ req'[w].step \in {"finalize_guard", "void_read", "convert_write", "update_write", "delete_read"}
      /\ req'[w].step \in EditSteps => status[req'[w].doc] = "draft"
  <2>1. req \in [Workers -> Requests]
    BY DEF CalmIInv, IInv, TypeOK
  <2>2. CASE \E d \in Docs : FinalizeBegin(w, d) \/ VoidBegin(w, d)
    <3>1. PICK d \in Docs : FinalizeBegin(w, d) \/ VoidBegin(w, d)
      BY <2>2
    <3>2. CASE FinalizeBegin(w, d)
      BY <2>1, <3>2 DEF FinalizeBegin, Idle, EditSteps
    <3>3. CASE VoidBegin(w, d)
      BY <2>1, <3>3 DEF VoidBegin, Idle, EditSteps
    <3> QED
      BY <3>1, <3>2, <3>3
  <2>3. CASE \E d \in Docs : DeleteBegin(w, d) \/ \E q \in EditQtys : UpdateRead(w, d, q)
    <3>1. PICK d \in Docs : DeleteBegin(w, d) \/ \E q \in EditQtys : UpdateRead(w, d, q)
      BY <2>3
    <3>2. CASE DeleteBegin(w, d)
      BY <2>1, <3>2 DEF DeleteBegin, Idle, docVars
    <3>3. ASSUME NEW q \in EditQtys, UpdateRead(w, d, q)
          PROVE  /\ UNCHANGED docVars /\ req' = [req EXCEPT ![w] = [Idle EXCEPT
                                  !.step = "update_write", !.doc = d, !.qty = q]]
                 /\ status[d] = "draft"
      BY <3>3 DEF UpdateRead, Editable
    <3>4. CASE \E q \in EditQtys : UpdateRead(w, d, q)
      BY <2>1, <3>3, <3>4 DEF Idle
    <3> QED
      BY <3>1, <3>2, <3>4
  <2>4. CASE \E d \in Docs : \E s \in Docs, k \in Kinds : ConvertBegin(w, s, k, d)
    BY <2>1, <2>4 DEF ConvertBegin, Idle, EditSteps
  <2> QED
    BY <2>2, <2>3, <2>4 DEF Begin
<1>2. \A u \in Workers : u # w => ReadsHold(u)'
  BY <1>1, OtherReadsHold DEF docVars
<1>3. ReadsHold(w)'
  BY <1>1 DEF ReadsHold, docVars
<1> QED
  BY <1>1, <1>2, <1>3, RowsStayMatched DEF ReadsStillHold, docVars

\* The unlocked read of the order agrees with what it will be at the commit.
LEMMA GuardKeepsReads ==
  ASSUME CalmIInv, NEW w \in Workers, FinalizeGuard(w) PROVE RowsMatch' /\ ReadsStillHold'
<1> DEFINE d == req[w].doc
           m == StockDirection(kind[d]) # 0 /\ ~ SourceMovedStock(d)
           t == /\ HasSource(d)
                /\ kind[source[d]] \in ClosedOnConvert
                /\ status[source[d]] = "sent"
<1>1. /\ UNCHANGED docVars
      /\ \A u \in Workers : u # w => req'[u] = req[u]
      /\ req'[w] = [req[w] EXCEPT !.step = "finalize_write", !.moves = m, !.touch = t]
      /\ req[w] \in Requests
  BY DEF FinalizeGuard, CalmIInv, IInv, TypeOK
<1>2. /\ req'[w].step = "finalize_write" /\ req'[w].moves = m /\ req'[w].touch = t
      /\ req'[w].doc = d
  <2> HIDE DEF m, t
  <2> QED
    BY <1>1 DEF Requests
<1>3. d \in Docs /\ status[d] = "draft" /\ req[w].step = "finalize_guard"
  BY RequestsAreApart DEF FinalizeGuard, CalmIInv, IInv, GuardsStillHold, GuardsHold
<1>4. t = OrderFollows(d)
  BY <1>3, OrderOfDependent DEF OrderFollows, Active
<1>5. HasSource(d) => ConvertedLinesMatch(source[d], d)
  BY DEF FinalizeGuard, SourceAllowsFinalize
<1> HIDE DEF d, t
<1>6. ReadsHold(w)'
  BY <1>1, <1>2, <1>4, <1>5
  DEF ReadsHold, EditSteps, docVars, OrderFollows, SourceMovedStock, ConvertedLinesMatch, HasSource
<1>7. \A u \in Workers : u # w => ReadsHold(u)'
  BY <1>1, OtherReadsHold DEF docVars
<1> QED
  BY <1>1, <1>6, <1>7, RowsStayMatched DEF ReadsStillHold, docVars

LEMMA ReopeningKeepsReads ==
  ASSUME CalmIInv, NEW w \in Workers, VoidRead(w) \/ DeleteRead(w)
  PROVE  RowsMatch' /\ ReadsStillHold'
<1> DEFINE d == req[w].doc
           t == SourceReopens(d)
<1>1. /\ UNCHANGED docVars
      /\ \A u \in Workers : u # w => req'[u] = req[u]
      /\ req[w] \in Requests
      /\ req[w].step \in {"void_read", "delete_read"}
      /\ req'[w] = [req[w] EXCEPT !.step = IF req[w].step = "void_read" THEN "void_write"
                                                                    ELSE "delete_write",
                                  !.touch = t]
  BY DEF VoidRead, DeleteRead, CalmIInv, IInv, TypeOK
<1>2. /\ req'[w].step = IF req[w].step = "void_read" THEN "void_write" ELSE "delete_write"
      /\ req'[w].touch = t /\ req'[w].doc = d
  <2> HIDE DEF t
  <2> QED
    BY <1>1 DEF Requests
<1>3. /\ d \in Docs
      /\ req[w].step = "void_read" => status[d] \in Finalized
      /\ req[w].step = "delete_read" => status[d] = "draft"
  BY <1>1, RequestsAreApart
  DEF CalmIInv, IInv, GuardsStillHold, GuardsHold, ReadsStillHold, ReadsHold, EditSteps
<1>4. t => OrderFollows(d) /\ status[source[d]] = "closed"
  BY DEF SourceReopens, OrderFollows
<1>5. OrderFollows(d) /\ status[d] \in Finalized => t
  BY <1>3, OrderOfDependent DEF SourceReopens, OrderFollows, Active, Finalized
<1>6. status[d] = "draft" => ~ t
  BY <1>3, <1>4, OrderOfDependent DEF Active
<1>7. /\ req[w].step = "void_read" => t = OrderFollows(d)
      /\ req[w].step = "delete_read" => ~ t
  <2>1. t \in BOOLEAN /\ OrderFollows(d) \in BOOLEAN
    BY DEF SourceReopens, OrderFollows
  <2> QED
    BY <1>3, <1>4, <1>5, <1>6, <2>1
<1> HIDE DEF d, t
<1>8. ReadsHold(w)'
  BY <1>1, <1>2, <1>3, <1>7 DEF ReadsHold, EditSteps, docVars, OrderFollows, HasSource
<1>9. \A u \in Workers : u # w => ReadsHold(u)'
  BY <1>1, OtherReadsHold DEF docVars
<1> QED
  BY <1>1, <1>8, <1>9, RowsStayMatched DEF ReadsStillHold, docVars

\* A request that ends without a write, and a payment.
LEMMA NoWriteKeepsReads ==
  ASSUME CalmIInv, UNCHANGED <<kind, status, source, lines, posted, moved, booked>>,
         \A u \in Workers : req'[u] = req[u] \/ req'[u] = Idle
  PROVE  RowsMatch' /\ ReadsStillHold'
<1>1. \A u \in Workers : req'[u] = req[u] => ReadsHold(u)'
  BY OtherReadsHold
<1>2. \A u \in Workers : req'[u] = Idle => ReadsHold(u)'
  BY IdleFields DEF ReadsHold, EditSteps
<1> QED
  BY <1>1, <1>2, RowsStayMatched DEF ReadsStillHold

-----------------------------------------------------------------------------
(* The steps that write.                                                     *)

\* A request that edits a draft is alone on it, and nothing was made from it.
LEMMA NothingFromDrafts ==
  ASSUME CalmIInv, NEW d \in Docs, status[d] \in {"absent", "draft"}
  PROVE  \A x \in Docs : source[x] # d
  BY DEF CalmIInv, SourcesWereFinalized, HasSource

\* What another request remembers stays when a row nothing was made from changes.
LEMMA OthersReadOn ==
  ASSUME CalmIInv, NEW d \in Docs, status[d] \in {"absent", "draft"},
         NEW u \in Workers, req'[u] = req[u],
         req[u].step # "idle" => req[u].doc # d,
         \A x \in Docs : x # d =>
            /\ kind'[x] = kind[x] /\ source'[x] = source[x]
            /\ lines'[x] = lines[x] /\ posted'[x] = posted[x]
            /\ status[x] = "draft" => status'[x] = "draft"
  PROVE  ReadsHold(u)'
<1>1. req[u].step # "idle" => /\ req[u].doc \in Docs
                              /\ HasSource(req[u].doc) => /\ source[req[u].doc] \in Docs
                                                         /\ source[req[u].doc] # d
  BY RequestsAreApart, SourcesAreOthers, NothingFromDrafts
<1> QED
  BY <1>1, OtherReadsHold

LEMMA FinalizeWriteKeepsReads ==
  ASSUME CalmIInv, NEW w \in Workers, FinalizeWrite(w) PROVE RowsMatch' /\ ReadsStillHold'
<1> DEFINE d == req[w].doc
           s == source[d]
           m == req[w].moves
<1>1. /\ d \in Docs /\ status[d] = "draft" /\ req[w].step = "finalize_write"
      /\ req[w].touch = OrderFollows(d)
      /\ m = (StockDirection(kind[d]) # 0 /\ ~ SourceMovedStock(d))
      /\ HasSource(d) => ConvertedLinesMatch(s, d)
      /\ \A u \in Workers : u # w /\ req[u].step # "idle" => req[u].doc # d
  BY RequestsAreApart
  DEF FinalizeWrite, CalmIInv, IInv, GuardsStillHold, GuardsHold, ReadsStillHold, ReadsHold
<1>2. /\ HasSource(d) => /\ s \in Docs /\ s # d /\ status[s] \in Finalized
                         /\ kind[d] \in Conversions(kind[s])
      /\ \A x \in Docs : source[x] # d
  BY <1>1, SourcesAreOthers, NothingFromDrafts DEF Active
<1>3. /\ \A x \in Docs :
            status'[x] = IF x = d THEN "sent"
                         ELSE IF OrderFollows(d) /\ x = s THEN "closed" ELSE status[x]
      /\ posted' = [posted EXCEPT ![d] = m]
      /\ \A x \in Docs : x # d => moved'[x] = moved[x] /\ booked'[x] = booked[x]
      /\ moved'[d] = IF m THEN moved[d] + StockDirection(kind[d]) * lines[d] ELSE moved[d]
      /\ booked'[d] = AmountToBook(d, m)
      /\ UNCHANGED <<kind, source, lines>>
      /\ req' = [req EXCEPT ![w] = Idle]
  BY <1>1, <1>2 DEF FinalizeWrite, CalmIInv, IInv, TypeOK, OrderFollows, HasSource
<1>4. /\ \A x \in Docs : x # d => (status'[x] \in Finalized <=> status[x] \in Finalized)
      /\ \A x \in Docs : x # d => posted'[x] = posted[x]
      /\ posted'[d] = m
      /\ \A x \in Docs : status[x] = "draft" /\ x # d => status'[x] = "draft"
  BY <1>1, <1>2, <1>3 DEF OrderFollows, Finalized, CalmIInv, IInv, TypeOK
<1>5. \A x \in Docs : ActiveDependents(x)' = ActiveDependents(x)
  BY <1>1, <1>2, <1>3 DEF ActiveDependents, OrderFollows, Active, Finalized
<1>6. OrderFollows(d) => ActiveDependents(s) = {d}
  BY <1>1, OrderOfDependent DEF Active
<1>7. OrderFollows(d) <=> HasSource(d) /\ kind[s] \in ClosedOnConvert
  BY DEF OrderFollows
<1>8. ReadsStillHold'
  <2>1. \A u \in Workers : u # w => ReadsHold(u)'
    BY <1>1, <1>3, <1>4, OthersReadOn DEF CalmIInv, IInv, TypeOK
  <2>2. ReadsHold(w)'
    BY <1>3, IdleFields DEF ReadsHold, EditSteps, CalmIInv, IInv, TypeOK
  <2> QED
    BY <2>1, <2>2 DEF ReadsStillHold
<1>9. moved[d] = 0
  BY <1>1 DEF CalmIInv, LedgersMatchDocument, Finalized
<1>10. StockDirection(kind[d]) * lines[d] \in Int
  BY <1>1, DirectionsAreIntegers DEF CalmIInv, IInv, TypeOK
<1> HIDE DEF d, s, m
<1>11. SourcesWereFinalized'
  BY <1>2, <1>3 DEF CalmIInv, SourcesWereFinalized, HasSource, CalmIInv, IInv, TypeOK
<1>12. LedgersMatchDocument'
  <2>1. ASSUME NEW x \in Docs, x # d
        PROVE  /\ moved'[x] = moved[x] /\ booked'[x] = booked[x] /\ posted'[x] = posted[x]
               /\ status'[x] \in Finalized <=> status[x] \in Finalized
               /\ kind'[x] = kind[x] /\ lines'[x] = lines[x]
    BY <1>3, <1>4, <2>1
  <2>2. moved'[d] = IF posted'[d] THEN StockDirection(kind[d]) * lines[d] ELSE 0
    BY <1>3, <1>4, <1>9, <1>10
  <2>3. booked'[d] = AmountToBook(d, posted'[d])
    BY <1>1, <1>3, <1>4
  <2>4. status'[d] \in Finalized
    BY <1>1, <1>3 DEF Finalized
  <2>5. ASSUME NEW x \in Docs
        PROVE  IF status'[x] \in Finalized
               THEN /\ moved'[x] = IF posted'[x] THEN StockDirection(kind'[x]) * lines'[x] ELSE 0
                    /\ booked'[x] = AmountToBook(x, posted[x])'
               ELSE moved'[x] = 0 /\ booked'[x] = 0 /\ ~ posted'[x]
    <3>1. AmountToBook(x, posted[x])' = AmountToBook(x, posted'[x])
      BY <1>3 DEF AmountToBook
    <3>2. CASE x = d
      BY <1>3, <2>2, <2>3, <2>4, <3>1, <3>2
    <3>3. CASE x # d
      BY <2>1, <3>1, <3>3 DEF CalmIInv, LedgersMatchDocument
    <3> QED
      BY <3>2, <3>3
  <2> QED
    BY <2>5 DEF LedgersMatchDocument
<1>13. ClosedWhileFulfilled'
  <2>1. ASSUME NEW x \in Docs, status'[x] \in {"sent", "closed"}, kind'[x] \in ClosedOnConvert
        PROVE  status'[x] = "closed" <=>
                  \E e \in ActiveDependents(x)' : status'[e] \in Finalized
    <3>1. CASE x = d
      <4>1. ActiveDependents(x)' = {}
        BY <1>2, <1>3, <3>1 DEF ActiveDependents
      <4>2. status'[x] = "sent"
        BY <1>3, <3>1
      <4> QED
        BY <4>1, <4>2
    <3>2. CASE x # d /\ OrderFollows(d) /\ x = s
      BY <1>1, <1>3, <1>5, <1>6, <3>2 DEF Finalized
    <3>3. CASE x # d /\ ~ (OrderFollows(d) /\ x = s)
      <4>1. status'[x] = status[x] /\ kind[x] \in ClosedOnConvert
        BY <1>3, <2>1, <3>3
      <4>2. d \notin ActiveDependents(x)
        BY <1>1, <1>7, <3>3, <4>1, NoDocAssumption DEF ActiveDependents, s, HasSource
      <4>3. \A e \in ActiveDependents(x) : status'[e] \in Finalized <=> status[e] \in Finalized
        BY <1>4, <4>2 DEF ActiveDependents
      <4> QED
        BY <1>5, <2>1, <4>1, <4>3 DEF CalmIInv, ClosedWhileFulfilled
    <3> QED
      BY <3>1, <3>2, <3>3
  <2> QED
    BY <2>1 DEF ClosedWhileFulfilled
<1>14. ConvertedLinesStillMatch'
  BY <1>1, <1>3, <1>4 DEF CalmIInv, ConvertedLinesStillMatch, ConvertedLinesMatch, HasSource, s
<1>15. GoodsMovedOnce'
  <2>1. ASSUME StockDirection(kind[d]) # 0, ~ m
        PROVE  /\ HasSource(d) /\ posted[s] /\ moved[s] = StockDirection(kind[d]) * lines[d]
    <3>1. HasSource(d) /\ posted[s] /\ StockDirection(kind[s]) = StockDirection(kind[d])
      BY <1>1, <2>1 DEF SourceMovedStock, s
    <3>2. moved[s] = StockDirection(kind[s]) * lines[s]
      BY <1>2, <3>1 DEF CalmIInv, LedgersMatchDocument
    <3>3. kind[d] # "credit_note"
      BY <1>2, <3>1 DEF Conversions, StockDirection
    <3>4. lines[d] = lines[s]
      BY <1>1, <3>1, <3>3 DEF ConvertedLinesMatch
    <3> QED
      BY <3>1, <3>2, <3>4
  <2>2. ASSUME NEW x \in Docs, x # d, status'[x] \in Finalized, StockDirection(kind'[x]) # 0,
               ~ posted'[x]
        PROVE  /\ HasSource(x)' /\ posted'[source'[x]]
               /\ moved'[source'[x]] = StockDirection(kind'[x]) * lines'[x]
    <3>1. /\ HasSource(x) /\ posted[source[x]]
          /\ moved[source[x]] = StockDirection(kind[x]) * lines[x]
      BY <1>3, <1>4, <2>2 DEF CalmIInv, GoodsMovedOnce
    <3>2. source[x] \in Docs /\ source[x] # d
      BY <1>2, <2>2, <3>1 DEF CalmIInv, IInv, TypeOK, HasSource
    <3> QED
      BY <1>3, <1>4, <3>1, <3>2 DEF HasSource
  <2>3. ASSUME StockDirection(kind[d]) # 0, ~ posted'[d]
        PROVE  /\ source'[d] # NoDoc /\ posted'[source'[d]]
               /\ moved'[source'[d]] = StockDirection(kind'[d]) * lines'[d]
    BY <1>2, <1>3, <1>4, <2>1, <2>3 DEF HasSource, s
  <2>4. ASSUME NEW x \in Docs, status'[x] \in Finalized, StockDirection(kind'[x]) # 0, ~ posted'[x]
        PROVE  /\ source'[x] # NoDoc /\ posted'[source'[x]]
               /\ moved'[source'[x]] = StockDirection(kind'[x]) * lines'[x]
    <3>1. CASE x = d
      BY <1>3, <2>3, <2>4, <3>1
    <3>2. CASE x # d
      BY <2>2, <2>4, <3>2 DEF HasSource
    <3> QED
      BY <3>1, <3>2
  <2> QED
    BY <2>4 DEF GoodsMovedOnce, HasSource
<1> QED
  BY <1>8, <1>11, <1>12, <1>13, <1>14, <1>15 DEF RowsMatch

LEMMA VoidWriteKeepsReads ==
  ASSUME CalmIInv, NEW w \in Workers, VoidWrite(w) PROVE RowsMatch' /\ ReadsStillHold'
<1> DEFINE d == req[w].doc
           s == source[d]
<1>1. /\ d \in Docs /\ status[d] \in Finalized
      /\ req[w].touch = OrderFollows(d)
      /\ \A u \in Workers : u # w /\ req[u].step # "idle" => req[u].doc # d
      /\ ActiveDependents(d) = {}
  BY RequestsAreApart
  DEF VoidWrite, CalmIInv, IInv, GuardsStillHold, GuardsHold, ReadsStillHold, ReadsHold, VoidAllowed
<1>2. /\ HasSource(d) => /\ s \in Docs /\ s # d /\ status[s] \in Finalized
      /\ \A x \in Docs : source[x] = d => status[x] \notin Active
  BY <1>1, SourcesAreOthers DEF Active, Finalized, ActiveDependents
<1>3. /\ \A x \in Docs :
            status'[x] = IF x = d THEN "void"
                         ELSE IF OrderFollows(d) /\ x = s THEN "sent" ELSE status[x]
      /\ posted' = [posted EXCEPT ![d] = FALSE]
      /\ \A x \in Docs : x # d => moved'[x] = moved[x] /\ booked'[x] = booked[x]
      /\ moved'[d] = IF posted[d] THEN moved[d] - StockDirection(kind[d]) * lines[d] ELSE moved[d]
      /\ booked'[d] = 0
      /\ UNCHANGED <<kind, source, lines>>
      /\ req' = [req EXCEPT ![w] = Idle]
  BY <1>1, <1>2 DEF VoidWrite, StockReversed, CalmIInv, IInv, TypeOK, OrderFollows, HasSource
<1>4. /\ \A x \in Docs : x # d => (status'[x] \in Finalized <=> status[x] \in Finalized)
      /\ \A x \in Docs : x # d => posted'[x] = posted[x]
      /\ ~ posted'[d]
      /\ \A x \in Docs : status[x] = "draft" => status'[x] = "draft"
  BY <1>1, <1>2, <1>3 DEF OrderFollows, Finalized, CalmIInv, IInv, TypeOK
<1>5. \A x \in Docs : ActiveDependents(x)' = ActiveDependents(x) \ {d}
  BY <1>1, <1>2, <1>3 DEF ActiveDependents, OrderFollows, Active, Finalized
<1>6. OrderFollows(d) => ActiveDependents(s) = {d}
  BY <1>1, OrderOfDependent DEF Active, Finalized
<1>7. OrderFollows(d) <=> HasSource(d) /\ kind[s] \in ClosedOnConvert
  BY DEF OrderFollows
<1>8. ReadsStillHold'
  <2>1. ASSUME NEW u \in Workers, u # w PROVE ReadsHold(u)'
    <3> DEFINE c == req[u].doc
    <3>1. /\ req'[u] = req[u]
          /\ req[u].step # "idle" => c \in Docs
          /\ req[u].step = "finalize_write" => status[c] = "draft"
      BY <1>3, <2>1, RequestsAreApart DEF CalmIInv, IInv, TypeOK, GuardsStillHold, GuardsHold
    <3>2. req[u].step = "finalize_write" /\ HasSource(c) => source[c] \in Docs /\ source[c] # d
      BY <1>2, <3>1, SourcesAreOthers DEF Active
    <3> QED
      BY <1>3, <1>4, <3>1, <3>2, OtherReadsHold
  <2>2. ReadsHold(w)'
    BY <1>3, IdleFields DEF ReadsHold, EditSteps, CalmIInv, IInv, TypeOK
  <2> QED
    BY <2>1, <2>2 DEF ReadsStillHold
<1>9. moved[d] = IF posted[d] THEN StockDirection(kind[d]) * lines[d] ELSE 0
  BY <1>1 DEF CalmIInv, LedgersMatchDocument
<1>10. StockDirection(kind[d]) * lines[d] \in Int
  BY <1>1, DirectionsAreIntegers DEF CalmIInv, IInv, TypeOK
<1> HIDE DEF d, s
<1>11. SourcesWereFinalized'
  BY <1>1, <1>2, <1>3 DEF CalmIInv, SourcesWereFinalized, HasSource, CalmIInv, IInv, TypeOK
<1>12. LedgersMatchDocument'
  <2>1. ASSUME NEW x \in Docs, x # d
        PROVE  /\ moved'[x] = moved[x] /\ booked'[x] = booked[x] /\ posted'[x] = posted[x]
               /\ status'[x] \in Finalized <=> status[x] \in Finalized
               /\ kind'[x] = kind[x] /\ lines'[x] = lines[x]
    BY <1>3, <1>4, <2>1
  <2>2. moved'[d] = 0 /\ booked'[d] = 0 /\ ~ posted'[d] /\ status'[d] \notin Finalized
    BY <1>1, <1>3, <1>4, <1>9, <1>10 DEF Finalized
  <2> QED
    BY <1>3, <2>1, <2>2 DEF CalmIInv, LedgersMatchDocument, AmountToBook
<1>13. ClosedWhileFulfilled'
  <2>1. ASSUME NEW x \in Docs, status'[x] \in {"sent", "closed"}, kind'[x] \in ClosedOnConvert
        PROVE  status'[x] = "closed" <=>
                  \E e \in ActiveDependents(x)' : status'[e] \in Finalized
    <3>1. x # d
      BY <1>3, <2>1
    <3>2. CASE OrderFollows(d) /\ x = s
      BY <1>1, <1>3, <1>5, <1>6, <3>1, <3>2 DEF Finalized
    <3>3. CASE ~ (OrderFollows(d) /\ x = s)
      <4>1. status'[x] = status[x] /\ kind[x] \in ClosedOnConvert
        BY <1>3, <2>1, <3>1, <3>3
      <4>2. d \notin ActiveDependents(x)
        BY <1>1, <1>7, <3>3, <4>1, NoDocAssumption DEF ActiveDependents, s, HasSource
      <4>3. \A e \in ActiveDependents(x) : status'[e] \in Finalized <=> status[e] \in Finalized
        BY <1>4, <4>2 DEF ActiveDependents
      <4> QED
        BY <1>5, <2>1, <4>1, <4>2, <4>3 DEF CalmIInv, ClosedWhileFulfilled
    <3> QED
      BY <3>2, <3>3
  <2> QED
    BY <2>1 DEF ClosedWhileFulfilled
<1>14. ConvertedLinesStillMatch'
  BY <1>1, <1>3, <1>4 DEF CalmIInv, ConvertedLinesStillMatch, ConvertedLinesMatch, HasSource, Finalized
<1>15. GoodsMovedOnce'
  <2>1. ASSUME NEW x \in Docs, status'[x] \in Finalized, StockDirection(kind'[x]) # 0,
               ~ posted'[x]
        PROVE  /\ HasSource(x)' /\ posted'[source'[x]]
               /\ moved'[source'[x]] = StockDirection(kind'[x]) * lines'[x]
    <3>1. x # d
      BY <1>3, <2>1 DEF Finalized
    <3>2. /\ HasSource(x) /\ posted[source[x]]
          /\ moved[source[x]] = StockDirection(kind[x]) * lines[x]
          /\ status[x] \in Finalized
      BY <1>3, <1>4, <2>1, <3>1 DEF CalmIInv, GoodsMovedOnce
    <3>3. source[x] \in Docs /\ source[x] # d
      BY <1>2, <3>2 DEF CalmIInv, IInv, TypeOK, HasSource, Active, Finalized
    <3> QED
      BY <1>3, <1>4, <3>2, <3>3 DEF HasSource
  <2> QED
    BY <2>1 DEF GoodsMovedOnce
<1> QED
  BY <1>8, <1>11, <1>12, <1>13, <1>14, <1>15 DEF RowsMatch

\* A row that is a draft, or not there yet, changes alone and does not take effect.
LEMMA DraftsChangeAlone ==
  ASSUME CalmIInv, NEW d \in Docs, status[d] \in {"absent", "draft"},
         status'[d] \in {"draft", "deleted"},
         moved'[d] = 0, booked'[d] = 0, ~ posted'[d],
         source'[d] = NoDoc \/ /\ source'[d] \in Docs /\ source'[d] # d
                               /\ status[source'[d]] \in {"sent", "closed", "void"},
         \A x \in Docs : x # d =>
            /\ kind'[x] = kind[x] /\ status'[x] = status[x] /\ source'[x] = source[x]
            /\ lines'[x] = lines[x] /\ posted'[x] = posted[x]
            /\ moved'[x] = moved[x] /\ booked'[x] = booked[x]
  PROVE  RowsMatch'
<1>1. \A x \in Docs : source[x] # d
  BY NothingFromDrafts
<1>2. \A x \in Docs : source[x] # NoDoc => source[x] \in Docs
  BY DEF CalmIInv, IInv, TypeOK
<1>3. SourcesWereFinalized'
  BY <1>1, <1>2 DEF CalmIInv, SourcesWereFinalized, HasSource
<1>4. LedgersMatchDocument'
  <2>1. ASSUME NEW x \in Docs, x # d
        PROVE  /\ status[x] \in Finalized =>
                    /\ moved'[x] = IF posted'[x] THEN StockDirection(kind'[x]) * lines'[x] ELSE 0
                    /\ booked'[x] = AmountToBook(x, posted[x])'
               /\ status[x] \notin Finalized => moved'[x] = 0 /\ booked'[x] = 0 /\ ~ posted'[x]
    BY <2>1 DEF CalmIInv, LedgersMatchDocument, AmountToBook
  <2>2. status'[d] \notin Finalized
    BY DEF Finalized
  <2> QED
    BY <2>1, <2>2 DEF LedgersMatchDocument
<1>5. ClosedWhileFulfilled'
  <2>1. ASSUME NEW x \in Docs, status'[x] \in {"sent", "closed"}, kind'[x] \in ClosedOnConvert,
               x # d
        PROVE  status'[x] = "closed" <=>
                  \E e \in ActiveDependents(x)' : status'[e] \in Finalized
    <3>1. status[x] = "closed" <=> \E e \in ActiveDependents(x) : status[e] \in Finalized
      BY <2>1 DEF CalmIInv, ClosedWhileFulfilled
    <3>2. \A e \in Docs : e \in ActiveDependents(x)' /\ status'[e] \in Finalized
                          <=> e \in ActiveDependents(x) /\ status[e] \in Finalized
      BY DEF ActiveDependents, Finalized
    <3> QED
      BY <2>1, <3>1, <3>2 DEF ActiveDependents
  <2>2. status'[d] = "draft" \/ status'[d] = "deleted"
    OBVIOUS
  <2> QED
    BY <2>1, <2>2 DEF ClosedWhileFulfilled
<1>6. ConvertedLinesStillMatch'
  BY <1>1, <1>2 DEF CalmIInv, ConvertedLinesStillMatch, ConvertedLinesMatch, HasSource, Finalized
<1>7. GoodsMovedOnce'
  BY <1>1, <1>2 DEF CalmIInv, GoodsMovedOnce, HasSource, Finalized
<1> QED
  BY <1>3, <1>4, <1>5, <1>6, <1>7 DEF RowsMatch

\* Drafts, and rows not there yet, have left nothing in the ledgers.
LEMMA DraftsAreBlank ==
  ASSUME CalmIInv, NEW d \in Docs, status[d] \in {"absent", "draft"}
  PROVE  moved[d] = 0 /\ booked[d] = 0 /\ ~ posted[d]
  BY DEF CalmIInv, LedgersMatchDocument, Finalized

LEMMA ConvertWriteKeepsReads ==
  ASSUME CalmIInv, NEW w \in Workers, ConvertWrite(w) PROVE RowsMatch' /\ ReadsStillHold'
<1> DEFINE s == req[w].doc
           d == req[w].fresh
<1>1. /\ s \in Docs /\ d \in Docs /\ d # s
      /\ status[d] = "absent" /\ status[s] = "sent"
  BY RequestsAreApart
  DEF ConvertWrite, CalmIInv, IInv, FreshRowsAreFree, GuardsStillHold, GuardsHold
<1>2. \A u \in Workers : req[u].step # "idle" => req[u].doc # d
  BY <1>1, RequestsAreApart
<1>3. /\ kind' = [kind EXCEPT ![d] = req[w].as]
      /\ status' = [status EXCEPT ![d] = "draft"]
      /\ source' = [source EXCEPT ![d] = s]
      /\ lines' = [lines EXCEPT ![d] = lines[s]]
      /\ req' = [req EXCEPT ![w] = Idle]
      /\ UNCHANGED <<posted, moved, booked>>
  BY DEF ConvertWrite
<1>4. /\ \A u \in Workers : u # w => req'[u] = req[u]
      /\ req'[w] = Idle
  BY <1>3 DEF CalmIInv, IInv, TypeOK
<1> HIDE DEF s, d
<1>5. /\ \A x \in Docs : x # d =>
            /\ kind'[x] = kind[x] /\ status'[x] = status[x] /\ source'[x] = source[x]
            /\ lines'[x] = lines[x] /\ posted'[x] = posted[x]
            /\ moved'[x] = moved[x] /\ booked'[x] = booked[x]
      /\ status'[d] = "draft" /\ source'[d] = s
  BY <1>1, <1>3 DEF CalmIInv, IInv, TypeOK
<1>6. RowsMatch'
  BY <1>1, <1>3, <1>5, DraftsChangeAlone, DraftsAreBlank
<1>7. \A u \in Workers : u # w => ReadsHold(u)'
  BY <1>1, <1>2, <1>4, <1>5, OthersReadOn
<1>8. ReadsHold(w)'
  BY <1>4, IdleFields DEF ReadsHold, EditSteps
<1> QED
  BY <1>6, <1>7, <1>8 DEF ReadsStillHold

LEMMA CreateKeepsReads ==
  ASSUME CalmIInv, NEW d \in Docs, NEW k, NEW q, Create(d, k, q)
  PROVE  RowsMatch' /\ ReadsStillHold'
<1>1. status[d] = "absent" /\ source[d] = NoDoc
  BY DEF Create, Unused, CalmIInv, IInv, SourcesAreKinds, HasSource
<1>2. \A u \in Workers : req[u].step # "idle" => req[u].doc # d
  BY <1>1, RequestsAreApart
<1>3. /\ \A x \in Docs : x # d =>
            /\ kind'[x] = kind[x] /\ status'[x] = status[x] /\ source'[x] = source[x]
            /\ lines'[x] = lines[x] /\ posted'[x] = posted[x]
            /\ moved'[x] = moved[x] /\ booked'[x] = booked[x]
      /\ status'[d] = "draft" /\ source'[d] = NoDoc
      /\ UNCHANGED <<posted, moved, booked, req>>
  BY <1>1 DEF Create, CalmIInv, IInv, TypeOK
<1>4. RowsMatch'
  BY <1>1, <1>3, DraftsChangeAlone, DraftsAreBlank
<1>5. \A u \in Workers : ReadsHold(u)'
  BY <1>1, <1>2, <1>3, OthersReadOn
<1> QED
  BY <1>4, <1>5 DEF ReadsStillHold

\* An edit and a deletion, alone on their draft.
LEMMA EditsKeepReads ==
  ASSUME CalmIInv, NEW w \in Workers, UpdateWrite(w) \/ DeleteWrite(w)
  PROVE  RowsMatch' /\ ReadsStillHold'
<1> DEFINE d == req[w].doc
<1>1. /\ d \in Docs /\ status[d] = "draft"
      /\ req[w].step = "delete_write" => ~ req[w].touch
      /\ \A u \in Workers : u # w /\ req[u].step # "idle" => req[u].doc # d
  BY RequestsAreApart
  DEF UpdateWrite, DeleteWrite, CalmIInv, ReadsStillHold, ReadsHold, EditSteps
<1>2. \A x \in Docs : source[x] # d
  BY <1>1, NothingFromDrafts
<1>3. moved[d] = 0 /\ booked[d] = 0 /\ ~ posted[d]
  BY <1>1, DraftsAreBlank
<1>4. source[d] # NoDoc => /\ source[d] \in Docs /\ source[d] # d
                           /\ status[source[d]] \in {"sent", "closed", "void"}
  BY <1>1, SourcesAreOthers DEF HasSource
<1>5. /\ \A x \in Docs : x # d =>
            /\ kind'[x] = kind[x] /\ status'[x] = status[x] /\ source'[x] = source[x]
            /\ lines'[x] = lines[x] /\ posted'[x] = posted[x]
            /\ moved'[x] = moved[x] /\ booked'[x] = booked[x]
      /\ status'[d] \in {"draft", "deleted"} /\ source'[d] = source[d]
      /\ moved'[d] = moved[d] /\ booked'[d] = booked[d] /\ ~ posted'[d]
      /\ req' = [req EXCEPT ![w] = Idle]
  <2>1. CASE UpdateWrite(w)
    BY <1>1, <1>3, <2>1 DEF UpdateWrite, CalmIInv, IInv, TypeOK
  <2>2. CASE DeleteWrite(w)
    BY <1>1, <1>2, <2>2 DEF DeleteWrite, CalmIInv, IInv, TypeOK
  <2> QED
    BY <2>1, <2>2
<1>6. /\ \A u \in Workers : u # w => req'[u] = req[u]
      /\ req'[w] = Idle
  BY <1>5 DEF CalmIInv, IInv, TypeOK
<1> HIDE DEF d
<1>7. RowsMatch'
  BY <1>1, <1>3, <1>4, <1>5, DraftsChangeAlone
<1>8. \A u \in Workers : u # w => ReadsHold(u)'
  BY <1>1, <1>5, <1>6, OthersReadOn
<1>9. ReadsHold(w)'
  BY <1>6, IdleFields DEF ReadsHold, EditSteps
<1> QED
  BY <1>7, <1>8, <1>9 DEF ReadsStillHold

-----------------------------------------------------------------------------
LEMMA InitCalmIInv == Init => CalmIInv
<1> SUFFICES ASSUME Init PROVE CalmIInv
  OBVIOUS
<1>1. IInv
  BY InitIInv
<1>2. OneRequestPerDraft /\ ReadsStillHold
  BY IdleFields DEF Init, OneRequestPerDraft, ReadsStillHold, ReadsHold, EditSteps
<1>3. SourcesWereFinalized /\ LedgersMatchDocument /\ ClosedWhileFulfilled
  BY DEF Init, SourcesWereFinalized, LedgersMatchDocument, ClosedWhileFulfilled, HasSource,
         Finalized
<1>4. ConvertedLinesStillMatch /\ GoodsMovedOnce
  BY DEF Init, ConvertedLinesStillMatch, GoodsMovedOnce, HasSource, Finalized
<1> QED
  BY <1>1, <1>2, <1>3, <1>4 DEF CalmIInv

LEMMA StepCalmIInv == CalmIInv /\ [Next /\ OneRequestPerDraft']_vars => CalmIInv'
<1> SUFFICES ASSUME CalmIInv, [Next /\ OneRequestPerDraft']_vars PROVE CalmIInv'
  OBVIOUS
<1>1. IInv'
  BY StepIInv DEF CalmIInv
<1>2. OneRequestPerDraft'
  <2>1. CASE UNCHANGED vars
    BY <2>1 DEF vars, CalmIInv, OneRequestPerDraft
  <2> QED
    BY <2>1
<1>3. ASSUME NEW w \in Workers, Continue(w) PROVE RowsMatch' /\ ReadsStillHold'
  BY <1>3, ConvertWriteKeepsReads, GuardKeepsReads, FinalizeWriteKeepsReads,
     ReopeningKeepsReads, VoidWriteKeepsReads, EditsKeepReads DEF Continue
<1>4. ASSUME NEW w \in Workers, Refuse(w) \/ Abort(w) PROVE RowsMatch' /\ ReadsStillHold'
  BY <1>4, NoWriteKeepsReads DEF Refuse, Abort, Rollback, docVars, CalmIInv, IInv, TypeOK
<1>5. ASSUME NEW d \in Docs, PaymentSettles(d) \/ PaymentReleases(d)
      PROVE  RowsMatch' /\ ReadsStillHold'
  BY <1>5, NoWriteKeepsReads DEF PaymentSettles, PaymentReleases
<1>6. ASSUME NEW d \in Roots, NEW k \in RootKinds, NEW q \in 1..MaxQty, Create(d, k, q)
      PROVE  RowsMatch' /\ ReadsStillHold'
  BY <1>6, CreateKeepsReads, RootsAssumption
<1>7. ASSUME UNCHANGED vars PROVE RowsMatch' /\ ReadsStillHold'
  <2>1. UNCHANGED <<kind, status, source, lines, posted, moved, booked>>
    BY <1>7 DEF vars
  <2>2. \A u \in Workers : req'[u] = req[u]
    BY <1>7 DEF vars
  <2> QED
    BY <2>1, <2>2, NoWriteKeepsReads
<1>8. ASSUME NEW w \in Workers, Begin(w) PROVE RowsMatch' /\ ReadsStillHold'
  BY <1>8, BeginKeepsReads
<1>9. RowsMatch' /\ ReadsStillHold'
  <2>1. CASE Next
    BY <1>3, <1>4, <1>5, <1>6, <1>8, <2>1 DEF Next
  <2> QED
    BY <1>7, <2>1
<1> QED
  BY <1>1, <1>2, <1>9 DEF CalmIInv, RowsMatch

\* On calm schedules, what a request reads without a lock is still so when it
\* commits, and the rows match (CalmIInv).
THEOREM CalmInductive == CalmSpec => []CalmIInv
  BY InitCalmIInv, StepCalmIInv, PTL DEF CalmSpec

\* Finalized documents have in the stock ledger and the books what their lines say,
\* and drafts, voided and deleted documents nothing (finalize, void, delete).
THEOREM LedgersMatch == CalmSpec => []LedgersMatchDocument
<1>1. CalmIInv => LedgersMatchDocument
  BY DEF CalmIInv
<1> QED
  BY <1>1, CalmInductive, PTL

\* An order is closed exactly while a finalized document made from it stands
\* (finalize closes it, void opens it again).
THEOREM OrdersCloseWhenFulfilled == CalmSpec => []ClosedWhileFulfilled
<1>1. CalmIInv => ClosedWhileFulfilled
  BY DEF CalmIInv
<1> QED
  BY <1>1, CalmInductive, PTL

\* A finalized document carries the goods of the one it was made from, a credit note
\* at most those (_guard_converted_lines).
THEOREM ConvertedLinesMatchSource == CalmSpec => []ConvertedLinesStillMatch
<1>1. CalmIInv => ConvertedLinesStillMatch
  BY DEF CalmIInv
<1> QED
  BY <1>1, CalmInductive, PTL

\* A finalized document that moves no goods follows one that moved just those
\* (_source_moved_stock).
THEOREM GoodsMoveOnce == CalmSpec => []GoodsMovedOnce
<1>1. CalmIInv => GoodsMovedOnce
  BY DEF CalmIInv
<1> QED
  BY <1>1, CalmInductive, PTL

-----------------------------------------------------------------------------
(* The handlers implement DocumentLifecycle: each commit is one promised step. *)

LEMMA InitImplements == Init => Lifecycle!Init
  BY DEF Init, Lifecycle!Init, Kinds

\* A row created by hand, or by convert, is a draft that appears.
LEMMA CreateImplements ==
  ASSUME CalmIInv, NEW d \in Docs, NEW k \in Kinds, NEW q, Create(d, k, q)
  PROVE  Lifecycle!Next
<1>1. status[d] = "absent" /\ source[d] = NoDoc /\ source \in [Docs -> Docs \cup {NoDoc}]
  BY DEF Create, Unused, CalmIInv, IInv, TypeOK, SourcesAreKinds, HasSource
<1>2. source' = [source EXCEPT ![d] = NoDoc]
  BY <1>1 DEF Create
<1>3. Lifecycle!Draft(d, k, NoDoc)
  BY <1>1, <1>2 DEF Create, Lifecycle!Draft
<1> QED
  BY <1>3 DEF Lifecycle!Next

LEMMA ConvertImplements ==
  ASSUME CalmIInv, NEW w \in Workers, ConvertWrite(w)
  PROVE  Lifecycle!Next
<1> DEFINE s == req[w].doc
           d == req[w].fresh
           k == req[w].as
<1>1. /\ s \in Docs /\ d \in Docs /\ k \in Kinds
      /\ status[d] = "absent" /\ status[s] = "sent" /\ ActiveDependents(s) = {}
      /\ k \in Conversions(kind[s])
  BY RequestsAreApart, RequestsType
  DEF ConvertWrite, CalmIInv, IInv, FreshRowsAreFree, GuardsStillHold, GuardsHold, NothingMadeFrom
<1>2. Lifecycle!MadeFrom(s) = {}
  BY <1>1 DEF Lifecycle!MadeFrom, Lifecycle!Standing, ActiveDependents, Active
<1>3. Lifecycle!Draft(d, k, s)
  BY <1>1, <1>2 DEF ConvertWrite, Lifecycle!Draft
<1> QED
  BY <1>1, <1>3 DEF Lifecycle!Next

\* finalize closes the order in the step in which the document takes effect.
LEMMA FinalizeImplements ==
  ASSUME CalmIInv, NEW w \in Workers, FinalizeWrite(w)
  PROVE  Lifecycle!Next
<1> DEFINE d == req[w].doc
           s == source[d]
<1>1. /\ d \in Docs /\ status[d] = "draft" /\ req[w].touch = OrderFollows(d)
      /\ status \in [Docs -> Statuses]
  BY RequestsAreApart
  DEF FinalizeWrite, CalmIInv, IInv, TypeOK, GuardsStillHold, GuardsHold, ReadsStillHold, ReadsHold
<1>2. HasSource(d) => s \in Docs /\ s # d
  BY <1>1, SourcesAreOthers
<1>3. status' = [x \in Docs |->
                   CASE x = d -> "sent"
                     [] x # d /\ x = s /\ kind[x] \in ClosedOnConvert -> "closed"
                     [] OTHER -> status[x]]
  BY <1>1, <1>2 DEF FinalizeWrite, OrderFollows, HasSource
<1>4. Lifecycle!Finalize(d)
  BY <1>1, <1>3 DEF FinalizeWrite, Lifecycle!Finalize
<1> QED
  BY <1>1, <1>4 DEF Lifecycle!Next

\* void opens the order in the step in which the document is undone.
LEMMA VoidImplements ==
  ASSUME CalmIInv, NEW w \in Workers, VoidWrite(w)
  PROVE  Lifecycle!Next
<1> DEFINE d == req[w].doc
           s == source[d]
<1>1. /\ d \in Docs /\ status[d] \in {"sent", "closed"} /\ req[w].touch = OrderFollows(d)
      /\ status \in [Docs -> Statuses] /\ ActiveDependents(d) = {}
  BY RequestsAreApart
  DEF VoidWrite, CalmIInv, IInv, TypeOK, GuardsStillHold, GuardsHold, ReadsStillHold, ReadsHold,
      VoidAllowed, Finalized
<1>2. HasSource(d) => s \in Docs /\ s # d
  BY <1>1, SourcesAreOthers
<1>3. status' = [x \in Docs |->
                   CASE x = d -> "void"
                     [] x # d /\ x = s /\ kind[x] \in ClosedOnConvert -> "sent"
                     [] OTHER -> status[x]]
  BY <1>1, <1>2 DEF VoidWrite, OrderFollows, HasSource
<1>4. Lifecycle!MadeFrom(d) = {}
  BY <1>1 DEF Lifecycle!MadeFrom, Lifecycle!Standing, ActiveDependents, Active
<1>5. Lifecycle!Void(d)
  BY <1>1, <1>3, <1>4 DEF VoidWrite, Lifecycle!Void
<1> QED
  BY <1>1, <1>5 DEF Lifecycle!Next

\* delete takes a draft away, and no row loses its source by it.
LEMMA DeleteImplements ==
  ASSUME CalmIInv, NEW w \in Workers, DeleteWrite(w)
  PROVE  Lifecycle!Next
<1> DEFINE d == req[w].doc
<1>1. d \in Docs /\ status[d] = "draft" /\ ~ req[w].touch
  BY RequestsAreApart DEF DeleteWrite, CalmIInv, ReadsStillHold, ReadsHold, EditSteps
<1>2. source \in [Docs -> Docs \cup {NoDoc}] /\ \A x \in Docs : source[x] # d
  BY <1>1, NothingFromDrafts DEF CalmIInv, IInv, TypeOK
<1>3. source' = source
  BY <1>2 DEF DeleteWrite
<1>4. Lifecycle!Discard(d)
  BY <1>1, <1>3 DEF DeleteWrite, Lifecycle!Discard
<1> QED
  BY <1>1, <1>4 DEF Lifecycle!Next

LEMMA StepImplements ==
  CalmIInv /\ [Next /\ OneRequestPerDraft']_vars => [Lifecycle!Next]_(Lifecycle!vars)
<1> SUFFICES ASSUME CalmIInv, [Next /\ OneRequestPerDraft']_vars
             PROVE  [Lifecycle!Next]_(Lifecycle!vars)
  OBVIOUS
<1> USE DEF Lifecycle!vars
<1>1. ASSUME NEW w \in Workers, Begin(w) \/ Refuse(w) \/ Abort(w) PROVE UNCHANGED Lifecycle!vars
  BY <1>1 DEF Begin, FinalizeBegin, VoidBegin, DeleteBegin, UpdateRead, ConvertBegin, Refuse,
              Abort, Rollback, docVars
<1>2. ASSUME NEW w \in Workers, FinalizeGuard(w) \/ VoidRead(w) \/ DeleteRead(w) \/ UpdateWrite(w)
      PROVE  UNCHANGED Lifecycle!vars
  BY <1>2 DEF FinalizeGuard, VoidRead, DeleteRead, UpdateWrite, docVars
<1>3. ASSUME NEW d \in Docs, PaymentSettles(d) \/ PaymentReleases(d)
      PROVE  UNCHANGED Lifecycle!vars
  BY <1>3 DEF PaymentSettles, PaymentReleases
<1>4. ASSUME NEW w \in Workers, Continue(w) PROVE [Lifecycle!Next]_(Lifecycle!vars)
  BY <1>2, <1>4, ConvertImplements, FinalizeImplements, VoidImplements, DeleteImplements
  DEF Continue
<1>5. ASSUME NEW d \in Roots, NEW k \in RootKinds, NEW q \in 1..MaxQty, Create(d, k, q)
      PROVE  Lifecycle!Next
  BY <1>5, CreateImplements, RootsAssumption, RootKindsAssumption
<1>6. CASE UNCHANGED vars
  BY <1>6 DEF vars
<1> QED
  BY <1>1, <1>3, <1>4, <1>5, <1>6 DEF Next

\* No stale read, half-done request or lost write shows in the documents: on calm
\* schedules the interleaved handlers do what DocumentLifecycle says, one whole
\* request at a time.
THEOREM Implements == CalmSpec => ImplementsLifecycle
  BY CalmInductive, InitImplements, StepImplements, PTL
  DEF CalmSpec, ImplementsLifecycle, Lifecycle!Spec

-----------------------------------------------------------------------------
(* What update and delete refuse, they refuse on calm schedules.               *)

LEMMA StepFixesLines ==
  ASSUME CalmIInv, [Next /\ OneRequestPerDraft']_vars, NEW d \in Docs, status[d] \in Finalized
  PROVE  lines'[d] = lines[d]
<1>1. ASSUME NEW w \in Workers, ConvertWrite(w) PROVE lines'[d] = lines[d]
  <2>1. status[req[w].fresh] = "absent"
    BY <1>1 DEF ConvertWrite, CalmIInv, IInv, FreshRowsAreFree
  <2> QED
    BY <1>1, <2>1 DEF ConvertWrite, Finalized, CalmIInv, IInv, TypeOK
<1>2. ASSUME NEW w \in Workers, UpdateWrite(w) \/ DeleteWrite(w) PROVE lines'[d] = lines[d]
  <2>1. status[req[w].doc] = "draft"
    BY <1>2 DEF UpdateWrite, DeleteWrite, CalmIInv, ReadsStillHold, ReadsHold, EditSteps
  <2> QED
    BY <1>2, <2>1 DEF UpdateWrite, DeleteWrite, Finalized, CalmIInv, IInv, TypeOK
<1>3. ASSUME NEW x \in Roots, NEW k \in RootKinds, NEW q \in 1..MaxQty, Create(x, k, q)
      PROVE  lines'[d] = lines[d]
  BY <1>3 DEF Create, Unused, Finalized, CalmIInv, IInv, TypeOK
<1>4. ASSUME NEW w \in Workers, Begin(w) \/ Refuse(w) \/ Abort(w) PROVE lines' = lines
  BY <1>4 DEF Begin, FinalizeBegin, VoidBegin, DeleteBegin, UpdateRead, ConvertBegin, Refuse,
              Abort, Rollback, docVars
<1>5. ASSUME NEW w \in Workers, FinalizeGuard(w) \/ FinalizeWrite(w) \/ VoidRead(w)
                                \/ VoidWrite(w) \/ DeleteRead(w)
      PROVE  lines' = lines
  BY <1>5 DEF FinalizeGuard, FinalizeWrite, VoidRead, VoidWrite, DeleteRead, docVars
<1>6. ASSUME NEW x \in Docs, PaymentSettles(x) \/ PaymentReleases(x) PROVE lines' = lines
  BY <1>6 DEF PaymentSettles, PaymentReleases
<1>7. CASE UNCHANGED vars
  BY <1>7 DEF vars
<1> QED
  BY <1>1, <1>2, <1>3, <1>4, <1>5, <1>6, <1>7 DEF Next, Continue

\* "Only draft documents can be edited": no step changes the lines of a finalized
\* document (update).
THEOREM LinesAreFixed == CalmSpec => FinalizedLinesAreFixed
<1>1. CalmIInv /\ [Next /\ OneRequestPerDraft']_vars =>
         [\A d \in Docs : status[d] \in Finalized => lines'[d] = lines[d]]_vars
  BY StepFixesLines
<1> QED
  BY <1>1, CalmInductive, PTL DEF CalmSpec, FinalizedLinesAreFixed

LEMMA StepDeletesDrafts ==
  ASSUME CalmIInv, [Next /\ OneRequestPerDraft']_vars, NEW d \in Docs,
         status'[d] = "deleted", status[d] # "deleted"
  PROVE  status[d] = "draft"
<1>1. [Lifecycle!Next]_(Lifecycle!vars) /\ status \in [Docs -> Statuses]
  BY StepImplements DEF CalmIInv, IInv, TypeOK
<1>2. ASSUME NEW x \in Docs, Lifecycle!Finalize(x) PROVE FALSE
  BY <1>1, <1>2 DEF Lifecycle!Finalize
<1>3. ASSUME NEW x \in Docs, Lifecycle!Void(x) PROVE FALSE
  BY <1>1, <1>3 DEF Lifecycle!Void
<1>4. ASSUME NEW x \in Docs, NEW k \in Kinds, NEW s \in Docs \cup {NoDoc}, Lifecycle!Draft(x, k, s)
      PROVE  FALSE
  BY <1>1, <1>4 DEF Lifecycle!Draft
<1>5. ASSUME NEW x \in Docs, Lifecycle!Discard(x) PROVE status[d] = "draft"
  BY <1>1, <1>5 DEF Lifecycle!Discard
<1> QED
  BY <1>1, <1>2, <1>3, <1>4, <1>5 DEF Lifecycle!Next, Lifecycle!vars

\* "Only draft documents can be deleted": no step removes a row that is not a draft
\* (delete).
THEOREM DraftsAreDeleted == CalmSpec => OnlyDraftsAreDeleted
<1>1. CalmIInv /\ [Next /\ OneRequestPerDraft']_vars =>
         [\A d \in Docs :
            status'[d] = "deleted" /\ status[d] # "deleted" => status[d] = "draft"]_vars
  BY StepDeletesDrafts
<1> QED
  BY <1>1, CalmInductive, PTL DEF CalmSpec, OnlyDraftsAreDeleted

=============================================================================
