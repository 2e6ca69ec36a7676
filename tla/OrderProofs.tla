---------------------------- MODULE OrderProofs -----------------------------
(***************************************************************************)
(* The order service: type correctness of its steps, what they do to the   *)
(* ledger and to the rows they have locked, and the theorems that the      *)
(* ledger, the stockLocked column and the stock never tell different       *)
(* stories.                                                                *)
(***************************************************************************)
EXTENDS OrderService, StockRowProofs

Typed == DbTypeOK /\ OrdTypeOK

-----------------------------------------------------------------------------
(* Transactions *)

\* A commit publishes rows, and gives the row locks back.
LEMMA CommitTxType ==
  ASSUME NEW t, DbTypeOK, stock' \in [Sku -> Row], CommitTx(t)
  PROVE  /\ saved' \in [Sku -> Row]
         /\ owner' \in [Sku -> Worker \union Clerk \union {NoTx}]
BY DEF CommitTx, Unlock, DbTypeOK

\* A rollback restores rows.
LEMMA RollbackTxType ==
  ASSUME NEW t, DbTypeOK, RollbackTx(t)
  PROVE  DbTypeOK'
BY DEF RollbackTx, Unlock, DbTypeOK

\* What is done to the stock of an item leaves a row.
LEMMA OutcomesKeepCovered ==
  ASSUME NEW e \in Effect \ {"none"}, NEW r \in Row, NEW q \in Nat,
         NEW out \in Outcomes(e, r, q)
  PROVE  /\ out.row \in Row /\ out.location \in Location
         /\ RowCovered(r) => RowCovered(out.row)
<1>1. CASE e = "lock"
  BY <1>1, LockKeepsCovered DEF Outcomes
<1>2. CASE e = "release"
  BY <1>2, ReleaseKeepsCovered DEF Outcomes
<1>3. CASE e = "deduct"
  BY <1>3, DeductKeepsCovered DEF Outcomes
<1> QED
  BY <1>1, <1>2, <1>3 DEF Effect

-----------------------------------------------------------------------------
(* The order service *)

\* A request that is at an item works for an order, on one of its items.
LEMMA AtItemType ==
  ASSUME OrdTypeOK, NEW w \in Worker, AtItem(w)
  PROVE  /\ req[w] \in OrderRequest
         /\ req[w].effect \in Effect \ {"none"}
         /\ NextItem(w) \in Item
<1>1. req[w] \in OrderRequest
  BY DEF OrdTypeOK, AtItem, Free
<1>2. /\ req[w].order \in Order /\ req[w].next \in Nat \ {0}
      /\ req[w].effect \in Effect
  BY <1>1 DEF OrderRequest
<1>3. Items[req[w].order] \in Seq(Item)
  BY <1>2, OrderAssumption
<1>4. req[w].effect # "none" /\ ~(req[w].next > Len(Items[req[w].order]))
  BY DEF AtItem, ItemsDone
<1>5. req[w].next \in 1..Len(Items[req[w].order])
  BY <1>2, <1>3, <1>4
<1> QED
  BY <1>1, <1>2, <1>3, <1>4, <1>5 DEF NextItem

\* The row an item books is a ledger row.
LEMMA ItemLedgerRowType ==
  ASSUME OrdTypeOK, NEW w \in Worker, AtItem(w), NEW l \in Location
  PROVE  ItemLedgerRow(w, l) \in LedgerRow
<1>1. /\ NextItem(w).sku \in Sku /\ NextItem(w).quantity \in Nat
      /\ req[w].order \in Order
  BY AtItemType DEF Item, OrderRequest
<1> QED
  BY <1>1 DEF ItemLedgerRow, LedgerRow, LedgerKind

\* A request starts with a copy of an order row.
LEMMA StartType ==
  ASSUME Typed, NEW w \in Worker, NEW o \in Order,
         NEW phase \in {"working", "deleting", "patching"},
         NEW copy \in OrderRow, NEW effect \in Effect,
         Start(w, o, phase, copy, effect)
  PROVE  DbTypeOK' /\ OrdTypeOK'
<1>1. Unborn \in OrderRow
  BY DEF Unborn, OrderRow, Status, Source, Type
<1>2. [phase |-> phase, order |-> o, copy |-> copy, effect |-> effect,
       next |-> 1, viewed |-> FALSE, view |-> Unborn, rows |-> <<>>] \in OrderRequest
  BY <1>1 DEF OrderRequest
<1> QED
  BY <1>2 DEF Start, Typed, DbTypeOK, OrdTypeOK, dbVars

\* Whatever request begins, tables and requests keep their shape.
LEMMA BeginType ==
  ASSUME Typed, NEW w \in Worker, Begin(w)
  PROVE  DbTypeOK' /\ OrdTypeOK'
<1>1. PICK o \in Order :
        \/ BeginMiniapp(w, o)
        \/ \E st \in Target : BeginStatus(w, o, st)
        \/ BeginCancel(w, o)
        \/ BeginReceipt(w, o)
        \/ \E source \in PatchSource, type \in PatchType : BeginPatch(w, o, source, type)
        \/ BeginDelete(w, o)
  BY DEF Begin
<1> DEFINE row == orders[o]
<1>2. row \in OrderRow
  BY DEF Typed, OrdTypeOK
<1>3. CASE BeginMiniapp(w, o)
  <2>1. [present |-> TRUE, status |-> "PENDING_CONFIRM", held |-> TRUE,
         source |-> "MINIAPP", type |-> "STANDARD"] \in OrderRow
    BY DEF OrderRow, Status, Source, Type
  <2> QED
    BY <1>3, <2>1, StartType DEF BeginMiniapp, Effect
<1>4. ASSUME NEW st \in Target, BeginStatus(w, o, st)
      PROVE  DbTypeOK' /\ OrdTypeOK'
  <2>1. EffectOf(row, st) \in Effect
    BY DEF EffectOf, Effect
  <2>2. HeldAfter(row, st) \in BOOLEAN
    BY <1>2, Zenon DEF HeldAfter, OrderRow
  <2>3. st \in Status
    BY OrderAssumption
  <2>4. [row EXCEPT !.status = st, !.held = HeldAfter(row, st)] \in OrderRow
    BY <1>2, <2>2, <2>3 DEF OrderRow
  <2> QED
    BY <1>4, <2>1, <2>4, StartType DEF BeginStatus
<1>5. CASE BeginCancel(w, o)
  <2>1. [row EXCEPT !.status = "CANCELLED", !.held = FALSE] \in OrderRow
    BY <1>2 DEF OrderRow, Status
  <2>2. (IF row.held THEN "release" ELSE "none") \in Effect
    BY DEF Effect
  <2> QED
    BY <1>5, <2>1, <2>2, StartType DEF BeginCancel
<1>6. CASE BeginReceipt(w, o)
  <2>1. [row EXCEPT !.status = "COMPLETED"] \in OrderRow
    BY <1>2 DEF OrderRow, Status
  <2> QED
    BY <1>6, <2>1, StartType DEF BeginReceipt, Effect
<1>7. ASSUME NEW source \in PatchSource, NEW type \in PatchType,
             BeginPatch(w, o, source, type)
      PROVE  DbTypeOK' /\ OrdTypeOK'
  <2>1. [row EXCEPT !.source = source, !.type = type] \in OrderRow
    BY <1>2, OrderAssumption DEF OrderRow
  <2> QED
    BY <1>7, <2>1, StartType DEF BeginPatch, Effect
<1>8. CASE BeginDelete(w, o)
  BY <1>2, <1>8, StartType DEF BeginDelete, Effect
<1> QED
  BY <1>1, <1>3, <1>4, <1>5, <1>6, <1>7, <1>8

\* So they do when the stock of one item is moved,
LEMMA StockStepType ==
  ASSUME Typed, NEW w \in Worker, StockStep(w)
  PROVE  DbTypeOK' /\ OrdTypeOK'
<1> DEFINE s == NextItem(w).sku
<1>1. /\ req[w] \in OrderRequest /\ req[w].effect \in Effect \ {"none"}
      /\ s \in Sku /\ NextItem(w).quantity \in Nat
  BY AtItemType DEF Typed, StockStep, Item
<1>2. PICK out \in ItemOutcomes(w) :
        /\ stock' = [stock EXCEPT ![s] = out.row]
        /\ owner' = [owner EXCEPT ![s] = w]
        /\ req' = [req EXCEPT
                     ![w].next = @ + 1,
                     ![w].viewed = TRUE,
                     ![w].view = IF req[w].viewed THEN @ ELSE orders[req[w].order],
                     ![w].rows = Append(@, ItemLedgerRow(w, out.location))]
  BY DEF StockStep
<1>3. stock[s] \in Row
  BY <1>1 DEF Typed, DbTypeOK
<1>4. out.row \in Row /\ out.location \in Location
  BY <1>1, <1>3, OutcomesKeepCovered DEF ItemOutcomes
<1>5. ItemLedgerRow(w, out.location) \in LedgerRow
  BY <1>4, ItemLedgerRowType DEF Typed, StockStep
<1>6. DbTypeOK'
  BY <1>1, <1>2, <1>4 DEF Typed, DbTypeOK, StockStep
<1>7. OrdTypeOK'
  <2> DEFINE n == req[w].next + 1
             v == IF req[w].viewed THEN req[w].view ELSE orders[req[w].order]
             ls == Append(req[w].rows, ItemLedgerRow(w, out.location))
  <2>1. n \in Nat \ {0} /\ v \in OrderRow /\ ls \in Seq(LedgerRow)
    BY <1>1, <1>5 DEF OrderRequest, Typed, OrdTypeOK
  <2>2. req' = [req EXCEPT ![w] = [req[w] EXCEPT !.next = n, !.viewed = TRUE,
                                                 !.view = v, !.rows = ls]]
    BY <1>1, <1>2 DEF Typed, OrdTypeOK, OrderRequest
  <2> HIDE DEF n, v, ls
  <2>3. [req[w] EXCEPT !.next = n, !.viewed = TRUE, !.view = v, !.rows = ls]
          \in OrderRequest
    BY <1>1, <2>1 DEF OrderRequest
  <2> QED
    BY <2>2, <2>3 DEF Typed, OrdTypeOK, StockStep
<1> QED
  BY <1>6, <1>7

\* What save leaves in the orders table is an order row.
LEMMA SavedRowType ==
  ASSUME Typed, NEW w \in Worker, req[w] # Free
  PROVE  req[w].order \in Order /\ SavedRow(w) \in OrderRow
<1>1. req[w] \in OrderRequest
  BY DEF Typed, OrdTypeOK
<1>2. /\ req[w].order \in Order /\ req[w].copy \in OrderRow /\ req[w].view \in OrderRow
      /\ orders[req[w].order] \in OrderRow
  BY <1>1 DEF OrderRequest, Typed, OrdTypeOK
<1>3. \A copy, view, row \in OrderRow : Written(copy, view, row) \in OrderRow
  BY DEF Written, OrderRow
<1> QED
  BY <1>2, <1>3 DEF SavedRow

\* when the order is saved,
LEMMA SaveType ==
  ASSUME Typed, NEW w \in Worker, Save(w)
  PROVE  DbTypeOK' /\ OrdTypeOK'
<1>1. req[w] \in OrderRequest /\ req[w].rows \in Seq(LedgerRow)
  BY DEF Save, Free, Typed, OrdTypeOK, OrderRequest
<1>2. req[w].order \in Order /\ SavedRow(w) \in OrderRow
  BY SavedRowType DEF Save, Free
<1>3. ledger \o req[w].rows \in Seq(LedgerRow)
  BY <1>1 DEF Typed, DbTypeOK
<1>4. /\ saved' \in [Sku -> Row]
      /\ owner' \in [Sku -> Worker \union Clerk \union {NoTx}]
  BY CommitTxType DEF Save, Typed, DbTypeOK
<1>5. DbTypeOK'
  BY <1>3, <1>4 DEF Save, Typed, DbTypeOK
<1>6. OrdTypeOK'
  BY <1>2 DEF Save, Typed, OrdTypeOK
<1> QED
  BY <1>5, <1>6

\* when the transaction is rolled back,
LEMMA AbortType ==
  ASSUME Typed, NEW w \in Worker, Abort(w)
  PROVE  DbTypeOK' /\ OrdTypeOK'
<1>1. DbTypeOK'
  BY RollbackTxType DEF Abort, Typed
<1>2. OrdTypeOK'
  BY DEF Abort, Typed, OrdTypeOK
<1> QED
  BY <1>1, <1>2

\* and in every other step of the order service.
LEMMA OrdStepType ==
  ASSUME Typed, OrdStep
  PROVE  DbTypeOK' /\ OrdTypeOK'
<1>1. ASSUME NEW o \in Order, NEW source \in CreateSource, NEW type \in CreateType,
             NEW st \in CreateStatus, Create(o, source, type, st)
      PROVE  DbTypeOK' /\ OrdTypeOK'
  <2>1. [present |-> TRUE, status |-> st, held |-> FALSE,
         source |-> source, type |-> type] \in OrderRow
    BY OrderAssumption DEF OrderRow
  <2> QED
    BY <1>1, <2>1 DEF Create, Typed, DbTypeOK, OrdTypeOK, dbVars
<1>2. ASSUME NEW w \in Worker, Proceed(w)
      PROVE  DbTypeOK' /\ OrdTypeOK'
  <2>1. CASE StockStep(w)
    BY <2>1, StockStepType
  <2>2. CASE ReadRow(w)
    <3>1. req[w] \in OrderRequest
      BY <2>2 DEF ReadRow, Free, Typed, OrdTypeOK
    <3>2. orders[req[w].order] \in OrderRow
      BY <3>1 DEF OrderRequest, Typed, OrdTypeOK
    <3>3. [req[w] EXCEPT !.viewed = TRUE, !.view = orders[req[w].order]] \in OrderRequest
      BY <3>1, <3>2 DEF OrderRequest
    <3>4. req' = [req EXCEPT ![w] = [req[w] EXCEPT !.viewed = TRUE,
                                                   !.view = orders[req[w].order]]]
      BY <2>2, <3>1 DEF ReadRow, Typed, OrdTypeOK, OrderRequest
    <3> QED
      BY <2>2, <3>3, <3>4 DEF ReadRow, Typed, DbTypeOK, OrdTypeOK, dbVars
  <2>3. CASE Save(w)
    BY <2>3, SaveType
  <2>4. CASE StockFail(w) \/ SaveFail(w) \/ LockWaitFails(w)
    BY <2>4, AbortType DEF StockFail, SaveFail, LockWaitFails
  <2>5. CASE Delete(w)
    <3>1. req[w] \in OrderRequest
      BY <2>5 DEF Delete, Free, Typed, OrdTypeOK
    <3>2. [orders[req[w].order] EXCEPT !.present = FALSE] \in OrderRow
      BY <3>1 DEF OrderRequest, OrderRow, Typed, OrdTypeOK
    <3> QED
      BY <2>5, <3>1, <3>2 DEF Delete, Typed, DbTypeOK, OrdTypeOK, dbVars
  <2>6. CASE Patch(w)
    <3> DEFINE o == req[w].order
               row == [orders[o] EXCEPT !.source = req[w].copy.source,
                                        !.type = req[w].copy.type]
    <3>1. req[w] \in OrderRequest
      BY <2>6 DEF Patch, Free, Typed, OrdTypeOK
    <3>2. o \in Order /\ req[w].copy \in OrderRow /\ orders[o] \in OrderRow
      BY <3>1 DEF OrderRequest, Typed, OrdTypeOK
    <3>3. row \in OrderRow
      BY <3>2 DEF OrderRow
    <3>4. orders' = IF orders[o].present THEN [orders EXCEPT ![o] = row] ELSE orders
      BY <2>6, <3>2 DEF Patch, Typed, OrdTypeOK, OrderRow
    <3> QED
      BY <2>6, <3>2, <3>3, <3>4 DEF Patch, Typed, DbTypeOK, OrdTypeOK, dbVars
  <2> QED
    BY <1>2, <2>1, <2>2, <2>3, <2>4, <2>5, <2>6 DEF Proceed
<1> QED
  BY <1>1, <1>2, BeginType DEF OrdStep

\* The ledger only grows, or marks a row removed.
LEMMA OrdStepLedger ==
  ASSUME Typed, OrdStep
  PROVE  DOMAIN ledger \subseteq DOMAIN ledger'
<1>1. CASE \E w \in Worker : Save(w)
  <2>1. PICK w \in Worker : Save(w)
    BY <1>1
  <2>2. req[w].rows \in Seq(LedgerRow)
    BY <2>1 DEF Save, Free, Typed, OrdTypeOK, OrderRequest
  <2> QED
    BY <2>1, <2>2 DEF Save, Typed, DbTypeOK
<1>2. CASE UNCHANGED ledger
  BY <1>2
<1>3. ASSUME NEW w \in Worker, Begin(w) PROVE UNCHANGED ledger
  <2>1. \E o, phase, copy, effect : Start(w, o, phase, copy, effect)
    BY <1>3, Zenon DEF Begin, BeginMiniapp, BeginStatus, BeginCancel, BeginReceipt,
                       BeginPatch, BeginDelete
  <2> QED
    BY <2>1 DEF Start, dbVars
<1>4. ASSUME NEW w \in Worker, Proceed(w) PROVE Save(w) \/ UNCHANGED ledger
  BY <1>4 DEF Proceed, StockStep, StockFail, ReadRow, SaveFail, LockWaitFails, Delete,
              Patch, Abort, RollbackTx, dbVars
<1>5. ASSUME NEW o \in Order, NEW source, NEW type, NEW st, Create(o, source, type, st)
      PROVE  UNCHANGED ledger
  BY <1>5 DEF Create, dbVars
<1> QED
  BY <1>1, <1>2, <1>3, <1>4, <1>5 DEF OrdStep

-----------------------------------------------------------------------------
(* What a step of the order service is *)

\* What a handler has decided, seen from the order row it decided on: the copy
\* moves stockLocked the way the effect moves the stock, a closed order is not
\* moved at all, and one that has shipped can only be completed.
Fits(op, row) ==
  op.phase = "working" =>
    /\ op.copy.present
    /\ row.present \/ (row = Unborn /\ op.effect = "lock")
    /\ row.status \notin Terminal
    /\ op.effect = "none" => op.copy.held = row.held
    /\ op.effect = "lock" => /\ ~row.held /\ op.copy.held
                             /\ op.copy.status \notin Terminal \union {"SHIPPED"}
    /\ op.effect = "release" => /\ row.held /\ ~op.copy.held
                                /\ op.copy.status \in {"CANCELLED", "REJECTED"}
    /\ op.effect = "deduct" => /\ row.held /\ ~op.copy.held
                               /\ op.copy.status \in {"SHIPPED", "COMPLETED"}
    /\ op.copy.status \in {"SHIPPED", "COMPLETED"} =>
         \/ op.effect = "deduct"
         \/ ~row.held
         \/ row.status = "SHIPPED"
    /\ op.copy.status \in {"CANCELLED", "REJECTED"} => op.effect = "release" \/ ~row.held
    /\ row.status = "SHIPPED" => op.copy.status = "COMPLETED"

\* The request a Begin action leaves behind.
Begun(o, phase, copy, effect) ==
  [phase |-> phase, order |-> o, copy |-> copy, effect |-> effect,
   next |-> 1, viewed |-> FALSE, view |-> Unborn, rows |-> <<>>]

\* What the tables of transitions allow after shipment and after the end.
LEMMA NextOfShipped ==
  ASSUME NEW type \in Type, NEW st \in Status
  PROVE  /\ NextStatus(type, "SHIPPED") = {"COMPLETED"}
         /\ st \in Terminal => NextStatus(type, st) = {}
<1>1. /\ CommonNext["SHIPPED"] = {"COMPLETED"} /\ CommonNext["COMPLETED"] = {}
      /\ CommonNext["CANCELLED"] = {} /\ CommonNext["REJECTED"] = {}
  BY DEF CommonNext, Status
<1>2. NextStatus(type, "SHIPPED") = CommonNext["SHIPPED"]
  BY DEF NextStatus
<1>3. st \in Terminal => NextStatus(type, st) = CommonNext[st]
  BY DEF NextStatus, Terminal
<1> QED
  BY <1>1, <1>2, <1>3 DEF Terminal

\* Every Begin action starts a request that fits the order as it is.
LEMMA BeginShape ==
  ASSUME Typed, NEW w \in Worker, Begin(w)
  PROVE  \E o \in Order, phase \in {"working", "deleting", "patching"},
            copy \in OrderRow, effect \in Effect :
           /\ MayBegin(w, o)
           /\ Start(w, o, phase, copy, effect)
           /\ Fits(Begun(o, phase, copy, effect), orders[o])
<1>1. PICK o \in Order :
        \/ BeginMiniapp(w, o)
        \/ \E st \in Target : BeginStatus(w, o, st)
        \/ BeginCancel(w, o)
        \/ BeginReceipt(w, o)
        \/ \E source \in PatchSource, type \in PatchType : BeginPatch(w, o, source, type)
        \/ BeginDelete(w, o)
  BY DEF Begin
<1> DEFINE row == orders[o]
           Good(phase, copy, effect) ==
             /\ phase \in {"working", "deleting", "patching"}
             /\ copy \in OrderRow /\ effect \in Effect
             /\ MayBegin(w, o)
             /\ Start(w, o, phase, copy, effect)
             /\ Fits(Begun(o, phase, copy, effect), row)
<1>2. row \in OrderRow
  BY DEF Typed, OrdTypeOK
<1>3. SUFFICES \E phase, copy, effect : Good(phase, copy, effect)
  OBVIOUS
<1>4. CASE BeginMiniapp(w, o)
  <2> DEFINE copy == [present |-> TRUE, status |-> "PENDING_CONFIRM", held |-> TRUE,
                      source |-> "MINIAPP", type |-> "STANDARD"]
  <2>1. copy \in OrderRow
    BY DEF OrderRow, Status, Source, Type
  <2>2. Fits(Begun(o, "working", copy, "lock"), row)
    BY <1>4 DEF BeginMiniapp, Fits, Begun, Unborn, Terminal
  <2>3. Good("working", copy, "lock")
    BY <1>4, <2>1, <2>2 DEF BeginMiniapp, Effect
  <2> QED
    BY <2>3
<1>5. ASSUME NEW st \in Target, BeginStatus(w, o, st)
      PROVE  \E phase, copy, effect : Good(phase, copy, effect)
  <2> DEFINE effect == EffectOf(row, st)
             held == HeldAfter(row, st)
             copy == [row EXCEPT !.status = st, !.held = held]
  <2>1. effect \in Effect
    BY DEF EffectOf, Effect
  <2>2. held \in BOOLEAN
    BY <1>2, Zenon DEF HeldAfter, OrderRow
  <2>3. st \in Status
    BY OrderAssumption
  <2>4. /\ effect = "none" => held = row.held
        /\ effect = "lock" => ~row.held /\ held /\ st = "CONFIRMED"
        /\ effect = "release" => row.held /\ ~held /\ st \in {"CANCELLED", "REJECTED"}
        /\ effect = "deduct" => row.held /\ ~held /\ st \in {"SHIPPED", "COMPLETED"}
        /\ st \in {"SHIPPED", "COMPLETED"} => effect = "deduct" \/ ~row.held
        /\ st \in {"CANCELLED", "REJECTED"} => effect = "release" \/ ~row.held
    <3>1. CASE st = "CONFIRMED" /\ row.source # "MINIAPP" /\ ~row.held
      BY <3>1 DEF EffectOf, HeldAfter
    <3>2. CASE st \in {"CANCELLED", "REJECTED"} /\ row.held
      BY <3>2 DEF EffectOf, HeldAfter
    <3>3. CASE st \in {"SHIPPED", "COMPLETED"} /\ row.held
      BY <3>3 DEF EffectOf, HeldAfter
    <3>4. CASE /\ ~(st = "CONFIRMED" /\ row.source # "MINIAPP" /\ ~row.held)
               /\ ~(st \in {"CANCELLED", "REJECTED"} /\ row.held)
               /\ ~(st \in {"SHIPPED", "COMPLETED"} /\ row.held)
      <4>1. effect = "none"
        BY <3>4 DEF EffectOf
      <4>2. held = row.held
        BY <4>1 DEF HeldAfter
      <4> QED
        BY <3>4, <4>1, <4>2
    <3> QED
      BY <3>1, <3>2, <3>3, <3>4
  <2>5. row.present /\ st \in NextStatus(row.type, row.status)
    BY <1>5 DEF BeginStatus
  <2>6. row.status \notin Terminal /\ (row.status = "SHIPPED" => st = "COMPLETED")
    BY <1>2, <2>5, NextOfShipped DEF OrderRow
  <2>7. MayBegin(w, o) /\ Start(w, o, "working", copy, effect)
    BY <1>5 DEF BeginStatus
  <2> HIDE DEF effect, held
  <2>8. copy \in OrderRow /\ copy.status = st /\ copy.held = held /\ copy.present = row.present
    BY <1>2, <2>2, <2>3 DEF OrderRow
  <2> HIDE DEF copy, row
  <2>9. Fits(Begun(o, "working", copy, effect), row)
    BY <2>4, <2>5, <2>6, <2>8 DEF Fits, Begun, Terminal
  <2>10. Good("working", copy, effect)
    BY <2>1, <2>7, <2>8, <2>9
  <2> QED
    BY <2>10
<1>6. CASE BeginCancel(w, o)
  <2> DEFINE copy == [row EXCEPT !.status = "CANCELLED", !.held = FALSE]
             effect == IF row.held THEN "release" ELSE "none"
  <2>1. /\ copy \in OrderRow /\ copy.present = row.present /\ copy.held = FALSE
        /\ copy.status = "CANCELLED"
    BY <1>2 DEF OrderRow, Status
  <2>2. effect \in Effect /\ row.held \in BOOLEAN
    BY <1>2 DEF Effect, OrderRow
  <2>3. /\ row.present /\ row.status = "PENDING_CONFIRM"
        /\ MayBegin(w, o) /\ Start(w, o, "working", copy, effect)
    BY <1>6 DEF BeginCancel
  <2> HIDE DEF copy, row
  <2>4. Fits(Begun(o, "working", copy, effect), row)
    BY <2>1, <2>2, <2>3 DEF Fits, Begun, Terminal
  <2>5. Good("working", copy, effect)
    BY <2>1, <2>2, <2>3, <2>4
  <2> QED
    BY <2>5
<1>7. CASE BeginReceipt(w, o)
  <2> DEFINE copy == [row EXCEPT !.status = "COMPLETED"]
  <2>1. /\ copy \in OrderRow /\ copy.present = row.present /\ copy.held = row.held
        /\ copy.status = "COMPLETED"
    BY <1>2 DEF OrderRow, Status
  <2>2. /\ row.present /\ row.status = "SHIPPED"
        /\ MayBegin(w, o) /\ Start(w, o, "working", copy, "none")
    BY <1>7 DEF BeginReceipt
  <2> HIDE DEF copy, row
  <2>3. Fits(Begun(o, "working", copy, "none"), row)
    BY <2>1, <2>2 DEF Fits, Begun, Terminal
  <2>4. Good("working", copy, "none")
    BY <2>1, <2>2, <2>3 DEF Effect
  <2> QED
    BY <2>4
<1>8. ASSUME NEW source \in PatchSource, NEW type \in PatchType,
             BeginPatch(w, o, source, type)
      PROVE  \E phase, copy, effect : Good(phase, copy, effect)
  <2> DEFINE copy == [row EXCEPT !.source = source, !.type = type]
  <2>1. copy \in OrderRow
    BY <1>2, OrderAssumption DEF OrderRow
  <2>2. MayBegin(w, o) /\ Start(w, o, "patching", copy, "none")
    BY <1>8 DEF BeginPatch
  <2>3. Fits(Begun(o, "patching", copy, "none"), row)
    BY DEF Fits, Begun
  <2>4. Good("patching", copy, "none")
    BY <2>1, <2>2, <2>3 DEF Effect
  <2> QED
    BY <2>4
<1>9. CASE BeginDelete(w, o)
  <2>1. MayBegin(w, o) /\ Start(w, o, "deleting", row, "none")
    BY <1>9 DEF BeginDelete
  <2>2. Fits(Begun(o, "deleting", row, "none"), row)
    BY DEF Fits, Begun
  <2>3. Good("deleting", row, "none")
    BY <1>2, <2>1, <2>2 DEF Effect
  <2> QED
    BY <2>3
<1> QED
  BY <1>1, <1>4, <1>5, <1>6, <1>7, <1>8, <1>9

\* The steps that end a request's transaction without an effect.
LEMMA AbortShape ==
  ASSUME NEW w, StockFail(w) \/ SaveFail(w) \/ LockWaitFails(w)
  PROVE  Abort(w) /\ req[w].phase = "working"
BY DEF StockFail, SaveFail, LockWaitFails, AtItem, Waits

-----------------------------------------------------------------------------
(* What the ledger says of an order and of a SKU *)

HoldOf(o, s) ==
  [e \in LedgerRow |-> IF e.sku = s /\ e.order = o THEN e.hold ELSE 0]
DeltaOf(o, s) ==
  [e \in LedgerRow |-> IF e.sku = s /\ e.order = o THEN e.delta ELSE 0]
HoldIn(s) == [e \in LedgerRow |-> IF e.sku = s THEN e.hold ELSE 0]
DeltaIn(s) ==
  [e \in LedgerRow |-> IF e.sku = s /\ ~e.removed THEN e.delta ELSE 0]

\* Every ledger row is worth an integer.
LEMMA WeightsInt ==
  ASSUME NEW o, NEW s
  PROVE  /\ HoldOf(o, s) \in [LedgerRow -> Int] /\ DeltaOf(o, s) \in [LedgerRow -> Int]
         /\ HoldIn(s) \in [LedgerRow -> Int] /\ DeltaIn(s) \in [LedgerRow -> Int]
<1>1. \A e \in LedgerRow : e.hold \in Int /\ e.delta \in Int
  BY DEF LedgerRow
<1> QED
  BY <1>1 DEF HoldOf, DeltaOf, HoldIn, DeltaIn

\* An element of a sequence is of the sequence's kind.
LEMMA ElementOf ==
  ASSUME NEW E, NEW L \in Seq(E), NEW i \in DOMAIN L
  PROVE  L[i] \in E
OBVIOUS

\* A sum over the ledger rows that pass a test is what all of them are worth when
\* the others are worth nothing.
LEMMA SelectedWorth ==
  ASSUME NEW E, NEW L, L \in Seq(E), NEW value, value \in [E -> Int],
         NEW T, T \subseteq DOMAIN L, NEW f, f \in [T -> Int],
         \A i \in DOMAIN L : value[L[i]] = IF i \in T THEN f[i] ELSE 0
  PROVE  SumFunction(f) = Worth(L, value)
<1> DEFINE S == DOMAIN L
           h == [i \in S |-> value[L[i]]]
<1>1. IsFiniteSet(S) /\ h \in [S -> Int]
  BY WorthDomain
<1>2. \A i \in S : h[i] = value[L[i]]
  OBVIOUS
<1>3. T \subseteq S /\ \A i \in S : value[L[i]] = IF i \in T THEN f[i] ELSE 0
  OBVIOUS
<1>4. Worth(L, value) = SumFunction(h)
  BY DEF Worth
<1> HIDE DEF S, h
<1>5. \A i \in S : h[i] = IF i \in T THEN f[i] ELSE 0
  BY <1>2, <1>3
<1>6. SumFunction(f) = SumFunction(h)
  <2>1. T \subseteq S /\ f \in [T -> Int]
    BY <1>3
  <2> QED
    BY ONLY <1>1, <2>1, <1>5, SumSelected
<1> QED
  BY <1>4, <1>6

\* What holds nothing of interest is worth nothing.
LEMMA WorthZero ==
  ASSUME NEW E, NEW L, L \in Seq(E), NEW value, value \in [E -> Int],
         \A i \in DOMAIN L : value[L[i]] = 0
  PROVE  Worth(L, value) = 0
<1> DEFINE S == DOMAIN L
           h == [i \in S |-> value[L[i]]]
<1>1. IsFiniteSet(S) /\ h \in [S -> Int]
  BY WorthDomain
<1>2. \A i \in S : h[i] = 0
  OBVIOUS
<1>3. Worth(L, value) = SumFunction(h)
  BY DEF Worth
<1> HIDE DEF S, h
<1>4. SumFunction(h) = 0
  BY ONLY <1>1, <1>2, SumZero
<1> QED
  BY <1>3, <1>4

\* OrdLedgerSum is what the ledger is worth to the order.
LEMMA LedgerSums ==
  ASSUME DbTypeOK, NEW o, NEW s \in Sku
  PROVE  /\ OrdLedgerSum(o, s, LAMBDA e : e.hold) = Worth(ledger, HoldOf(o, s))
         /\ OrdLedgerSum(o, s, LAMBDA e : e.delta) = Worth(ledger, DeltaOf(o, s))
<1>1. ledger \in Seq(LedgerRow)
  BY DEF DbTypeOK
<1>2. \A i \in DOMAIN ledger : /\ ledger[i] \in LedgerRow
                               /\ ledger[i].hold \in Int /\ ledger[i].delta \in Int
  <2>1. \A i \in DOMAIN ledger : ledger[i] \in LedgerRow
    BY <1>1, ElementOf
  <2> QED
    BY <2>1 DEF LedgerRow
<1>3. OrdLedgerSum(o, s, LAMBDA e : e.hold) = Worth(ledger, HoldOf(o, s))
  <2> DEFINE T == {j \in DOMAIN ledger : ledger[j].sku = s /\ ledger[j].order = o}
             f == [i \in T |-> ledger[i].hold]
  <2>1. T \in SUBSET DOMAIN ledger /\ f \in [T -> Int]
    BY <1>2
  <2>2. \A i \in DOMAIN ledger : HoldOf(o, s)[ledger[i]] = IF i \in T THEN f[i] ELSE 0
    BY <1>2 DEF HoldOf
  <2>3. OrdLedgerSum(o, s, LAMBDA e : e.hold) = SumFunction(f)
    BY DEF OrdLedgerSum, LedgerSum
  <2> HIDE DEF T, f
  <2>4. SumFunction(f) = Worth(ledger, HoldOf(o, s))
    BY <1>1, <2>1, <2>2, SelectedWorth, WeightsInt
  <2> QED
    BY <2>3, <2>4, Zenon
<1>4. OrdLedgerSum(o, s, LAMBDA e : e.delta) = Worth(ledger, DeltaOf(o, s))
  <2> DEFINE T == {j \in DOMAIN ledger : ledger[j].sku = s /\ ledger[j].order = o}
             f == [i \in T |-> ledger[i].delta]
  <2>1. T \in SUBSET DOMAIN ledger /\ f \in [T -> Int]
    BY <1>2
  <2>2. \A i \in DOMAIN ledger : DeltaOf(o, s)[ledger[i]] = IF i \in T THEN f[i] ELSE 0
    BY <1>2 DEF DeltaOf
  <2>3. OrdLedgerSum(o, s, LAMBDA e : e.delta) = SumFunction(f)
    BY DEF OrdLedgerSum, LedgerSum
  <2> HIDE DEF T, f
  <2>4. SumFunction(f) = Worth(ledger, DeltaOf(o, s))
    BY <1>1, <2>1, <2>2, SelectedWorth, WeightsInt
  <2> QED
    BY <2>3, <2>4, Zenon
<1> QED
  BY <1>3, <1>4

\* LedgerSum is what the ledger is worth to a SKU.
LEMMA LedgerOfSku ==
  ASSUME DbTypeOK, NEW s \in Sku
  PROVE  /\ LedgerSum(s, LAMBDA e : TRUE, LAMBDA e : e.hold) = Worth(ledger, HoldIn(s))
         /\ LedgerSum(s, LAMBDA e : ~e.removed, LAMBDA e : e.delta)
              = Worth(ledger, DeltaIn(s))
<1>1. ledger \in Seq(LedgerRow)
  BY DEF DbTypeOK
<1>2. \A i \in DOMAIN ledger : /\ ledger[i] \in LedgerRow
                               /\ ledger[i].hold \in Int /\ ledger[i].delta \in Int
  <2>1. \A i \in DOMAIN ledger : ledger[i] \in LedgerRow
    BY <1>1, ElementOf
  <2> QED
    BY <2>1 DEF LedgerRow
<1>3. LedgerSum(s, LAMBDA e : TRUE, LAMBDA e : e.hold) = Worth(ledger, HoldIn(s))
  <2> DEFINE T == {j \in DOMAIN ledger : ledger[j].sku = s /\ TRUE}
             f == [i \in T |-> ledger[i].hold]
  <2>1. T \in SUBSET DOMAIN ledger /\ f \in [T -> Int]
    BY <1>2
  <2>2. \A i \in DOMAIN ledger : HoldIn(s)[ledger[i]] = IF i \in T THEN f[i] ELSE 0
    BY <1>2 DEF HoldIn
  <2>3. LedgerSum(s, LAMBDA e : TRUE, LAMBDA e : e.hold) = SumFunction(f)
    BY DEF LedgerSum
  <2> HIDE DEF T, f
  <2>4. SumFunction(f) = Worth(ledger, HoldIn(s))
    BY <1>1, <2>1, <2>2, SelectedWorth, WeightsInt
  <2> QED
    BY <2>3, <2>4, Zenon
<1>4. LedgerSum(s, LAMBDA e : ~e.removed, LAMBDA e : e.delta) = Worth(ledger, DeltaIn(s))
  <2> DEFINE T == {j \in DOMAIN ledger : ledger[j].sku = s /\ ~ledger[j].removed}
             f == [i \in T |-> ledger[i].delta]
  <2>1. T \in SUBSET DOMAIN ledger /\ f \in [T -> Int]
    BY <1>2
  <2>2. \A i \in DOMAIN ledger : DeltaIn(s)[ledger[i]] = IF i \in T THEN f[i] ELSE 0
    BY <1>2 DEF DeltaIn
  <2>3. LedgerSum(s, LAMBDA e : ~e.removed, LAMBDA e : e.delta) = SumFunction(f)
    BY DEF LedgerSum
  <2> HIDE DEF T, f
  <2>4. SumFunction(f) = Worth(ledger, DeltaIn(s))
    BY <1>1, <2>1, <2>2, SelectedWorth, WeightsInt
  <2> QED
    BY <2>3, <2>4, Zenon
<1> QED
  BY <1>3, <1>4

\* What order o asks of s, item by item.
Asked(o, s) ==
  [i \in DOMAIN Items[o] |->
     IF Items[o][i].sku = s THEN Items[o][i].quantity ELSE 0]

\* Need is the sum of what the items ask.
LEMMA NeedIsAsked ==
  ASSUME NEW o \in Order, NEW s \in Sku
  PROVE  /\ Items[o] \in Seq(Item)
         /\ Asked(o, s) \in [DOMAIN Items[o] -> Nat]
         /\ IsFiniteSet(DOMAIN Items[o])
         /\ Need(o, s) = SumFunction(Asked(o, s))
         /\ Need(o, s) \in Nat
<1> DEFINE L == Items[o]
           T == {j \in DOMAIN L : L[j].sku = s}
           f == [i \in T |-> L[i].quantity]
<1>1. L \in Seq(Item)
  BY OrderAssumption
<1>2. \A i \in DOMAIN L : L[i].quantity \in Nat
  <2>1. \A i \in DOMAIN L : L[i] \in Item
    BY <1>1, ElementOf
  <2> QED
    BY <2>1 DEF Item
<1>3. Asked(o, s) \in [DOMAIN L -> Nat]
  BY <1>2 DEF Asked
<1>4. IsFiniteSet(DOMAIN L)
  <2>1. DOMAIN L = 1..Len(L) /\ Len(L) \in Nat
    BY <1>1
  <2> QED
    BY <2>1, FS_Interval
<1>5. T \in SUBSET DOMAIN L /\ f \in [T -> Int]
  BY <1>2
<1>6. \A i \in DOMAIN L : Asked(o, s)[i] = IF i \in T THEN f[i] ELSE 0
  BY DEF Asked
<1>7. Need(o, s) = SumFunction(f)
  BY DEF Need
<1> HIDE DEF T, f, L
<1>8. Asked(o, s) \in [DOMAIN L -> Int]
  BY <1>3
<1>9. SumFunction(f) = SumFunction(Asked(o, s))
  BY <1>4, <1>5, <1>6, <1>8, SumSelected
<1>10. SumFunction(Asked(o, s)) \in Nat
  BY <1>3, <1>4, SumNat
<1>11. Need(o, s) = SumFunction(Asked(o, s))
  BY <1>7, <1>9, Zenon
<1> QED
  BY <1>1, <1>3, <1>4, <1>10, <1>11 DEF L

\* Ledger rows written for each item of o in turn are worth a multiple of what o
\* needs.
LEMMA RowsWorthNeed ==
  ASSUME NEW o \in Order, NEW s \in Sku, NEW L, L \in Seq(LedgerRow),
         DOMAIN L = DOMAIN Items[o],
         NEW value, value \in [LedgerRow -> Int], NEW c \in {-1, 0, 1},
         \A i \in DOMAIN L : value[L[i]] = c * Asked(o, s)[i]
  PROVE  Worth(L, value) = c * Need(o, s)
<1> DEFINE S == DOMAIN Items[o]
           h == [i \in S |-> value[L[i]]]
           d == Asked(o, s)
<1>1. IsFiniteSet(S) /\ d \in [S -> Nat] /\ Need(o, s) = SumFunction(d)
  BY NeedIsAsked
<1>2. Worth(L, value) = SumFunction(h)
  BY DEF Worth
<1>3. h \in [S -> Int]
  <2>1. \A i \in DOMAIN L : L[i] \in LedgerRow
    BY ElementOf
  <2> QED
    BY <2>1
<1>4. \A i \in S : h[i] = c * d[i]
  OBVIOUS
<1>5. d \in [S -> Int]
  BY <1>1
<1> HIDE DEF S, h, d
<1>6. SumFunction(h) = c * SumFunction(d)
  <2>1. IsFiniteSet(S) /\ c \in {-1, 0, 1}
    BY <1>1
  <2> QED
    BY ONLY <2>1, <1>3, <1>4, <1>5, SumScaled
<1> QED
  BY <1>1, <1>2, <1>6

-----------------------------------------------------------------------------
(* The ledger rows of a request *)

\* How an effect moves lockedQuantity and quantity, per unit of an item.
HoldSign(effect) == CASE effect = "lock" -> 1 [] effect = "none" -> 0 [] OTHER -> -1
DeltaSign(effect) == IF effect = "deduct" THEN -1 ELSE 0

\* The ledger row a request has written for an item.
BooksItem(e, op, item) ==
  /\ e.sku = item.sku /\ e.order = op.order /\ ~e.removed
  /\ e.hold = HoldSign(op.effect) * item.quantity
  /\ e.delta = DeltaSign(op.effect) * item.quantity
  /\ e.location \in Location

\* A request has written one ledger row for each item it has been through.
RowsRight(op) ==
  /\ op.next <= Len(Items[op.order]) + 1
  /\ DOMAIN op.rows = 1..(op.next - 1)
  /\ op.effect = "none" \/ op.phase # "working" => op.next = 1
  /\ \A i \in 1..(op.next - 1) : BooksItem(op.rows[i], op, Items[op.order][i])

AllRowsRight == \A w \in Worker : req[w] # Free => RowsRight(req[w])

\* Moving the stock of the next item books that item.
LEMMA StockStepRows ==
  ASSUME Typed, AllRowsRight, NEW w \in Worker, StockStep(w)
  PROVE  AllRowsRight'
<1> DEFINE op == req[w]
           L == Items[op.order]
<1>1. /\ op \in OrderRequest /\ op.effect \in Effect \ {"none"}
      /\ NextItem(w) \in Item
  BY AtItemType DEF Typed, StockStep
<1>2. PICK out \in ItemOutcomes(w) :
        req' = [req EXCEPT
                  ![w].next = @ + 1,
                  ![w].viewed = TRUE,
                  ![w].view = IF req[w].viewed THEN @ ELSE orders[req[w].order],
                  ![w].rows = Append(@, ItemLedgerRow(w, out.location))]
  BY DEF StockStep
<1>3. out.location \in Location
  <2>1. stock[NextItem(w).sku] \in Row /\ NextItem(w).quantity \in Nat
    BY <1>1 DEF Typed, DbTypeOK, Item
  <2> QED
    BY <1>1, <2>1, OutcomesKeepCovered DEF ItemOutcomes
<1> DEFINE e == ItemLedgerRow(w, out.location)
<1>4. e \in LedgerRow
  BY <1>3, ItemLedgerRowType DEF Typed, StockStep
<1>5. BooksItem(e, op, L[op.next])
  <2>1. NextItem(w).quantity \in Int /\ NextItem(w) = L[op.next]
    BY <1>1 DEF Item, NextItem
  <2>2. op.effect \in {"lock", "release", "deduct"}
    BY <1>1 DEF Effect
  <2> QED
    BY <1>3, <2>1, <2>2 DEF ItemLedgerRow, BooksItem, HoldSign, DeltaSign
<1>6. /\ op.next \in Nat \ {0} /\ op.rows \in Seq(LedgerRow)
      /\ Len(L) \in Nat /\ op.next <= Len(L)
  <2>1. op.order \in Order /\ op.next \in Nat \ {0} /\ op.rows \in Seq(LedgerRow)
    BY <1>1 DEF OrderRequest
  <2>2. L \in Seq(Item)
    BY <2>1, OrderAssumption
  <2>3. ~(op.next > Len(L))
    BY DEF StockStep, AtItem, ItemsDone
  <2> QED
    BY <2>1, <2>2, <2>3
<1>7. RowsRight(op)
  BY <1>1 DEF AllRowsRight, OrderRequest, Free
<1>8. /\ req'[w].next = op.next + 1 /\ req'[w].rows = Append(op.rows, e)
      /\ req'[w].order = op.order /\ req'[w].effect = op.effect
      /\ req'[w].phase = op.phase
  BY <1>1, <1>2 DEF Typed, OrdTypeOK, OrderRequest
<1>9. \A v \in Worker \ {w} : req'[v] = req[v]
  BY <1>2 DEF Typed, OrdTypeOK
<1> HIDE DEF e
<1>10. /\ DOMAIN Append(op.rows, e) = 1..op.next
       /\ \A i \in 1..(op.next - 1) : Append(op.rows, e)[i] = op.rows[i]
       /\ Append(op.rows, e)[op.next] = e
  <2>1. Len(op.rows) = op.next - 1
    BY <1>6, <1>7 DEF RowsRight
  <2> QED
    BY <1>4, <1>6, <2>1
<1>11. RowsRight(req[w])'
  <2>1. op.phase = "working" /\ op.effect # "none"
    BY <1>1 DEF StockStep, AtItem
  <2>2. \A i \in 1..op.next : BooksItem(Append(op.rows, e)[i], op, L[i])
    <3>1. \A i \in 1..(op.next - 1) : BooksItem(op.rows[i], op, L[i])
      BY <1>7 DEF RowsRight
    <3>2. \A i \in 1..op.next : i \in 1..(op.next - 1) \/ i = op.next
      BY <1>6
    <3> HIDE DEF op, L
    <3> QED
      BY ONLY <1>5, <1>10, <3>1, <3>2
  <2>3. \A f, item : BooksItem(f, req'[w], item) <=> BooksItem(f, op, item)
    BY <1>8 DEF BooksItem
  <2>4. req'[w].next - 1 = op.next
    BY <1>6, <1>8
  <2>5. req'[w].next <= Len(Items[req'[w].order]) + 1
    BY <1>6, <1>8
  <2>6. DOMAIN req'[w].rows = 1..(req'[w].next - 1)
    BY <1>8, <1>10, <2>4
  <2>7. ~(req'[w].effect = "none" \/ req'[w].phase # "working")
    BY <1>8, <2>1
  <2>8. \A i \in 1..(req'[w].next - 1) :
          BooksItem(req'[w].rows[i], req'[w], Items[req'[w].order][i])
    BY <1>8, <2>2, <2>3, <2>4
  <2> QED
    BY <2>5, <2>6, <2>7, <2>8 DEF RowsRight
<1> QED
  BY <1>9, <1>11 DEF AllRowsRight

\* A request that begins has booked nothing.
LEMMA BegunRows ==
  ASSUME NEW o \in Order, NEW phase, NEW copy, NEW effect
  PROVE  RowsRight(Begun(o, phase, copy, effect))
<1>1. Items[o] \in Seq(Item)
  BY OrderAssumption
<1>2. DOMAIN <<>> = 1..(1 - 1)
  OBVIOUS
<1>3. 1 <= Len(Items[o]) + 1
  BY <1>1
<1> QED
  BY <1>2, <1>3 DEF RowsRight, Begun

\* So every step of the order service leaves rows and items in step.
LEMMA OrdStepRows ==
  ASSUME Typed, AllRowsRight, OrdStep
  PROVE  AllRowsRight'
<1>1. ASSUME UNCHANGED req PROVE AllRowsRight'
  BY <1>1 DEF AllRowsRight
<1>2. ASSUME NEW w \in Worker, req' = [req EXCEPT ![w] = Free] PROVE AllRowsRight'
  <2>1. \A v \in Worker : req'[v] # Free => req'[v] = req[v]
    BY <1>2 DEF Typed, OrdTypeOK
  <2> QED
    BY <2>1 DEF AllRowsRight
<1>3. ASSUME NEW w \in Worker, Begin(w) PROVE AllRowsRight'
  <2>1. PICK o \in Order, phase \in {"working", "deleting", "patching"},
              copy \in OrderRow, effect \in Effect :
          Start(w, o, phase, copy, effect)
    BY <1>3, BeginShape
  <2> DEFINE new == Begun(o, phase, copy, effect)
  <2>2. RowsRight(new)
    BY BegunRows
  <2>3. req' = [req EXCEPT ![w] = new]
    BY <2>1 DEF Start, Begun
  <2> HIDE DEF new
  <2>4. \A v \in Worker : req'[v] = IF v = w THEN new ELSE req[v]
    BY <2>3 DEF Typed, OrdTypeOK
  <2> QED
    BY <2>2, <2>4 DEF AllRowsRight
<1>4. ASSUME NEW w \in Worker, ReadRow(w) PROVE AllRowsRight'
  <2>1. req[w] \in OrderRequest /\ req[w] # Free
    BY <1>4 DEF ReadRow, Free, Typed, OrdTypeOK
  <2>2. /\ req'[w].next = req[w].next /\ req'[w].rows = req[w].rows
        /\ req'[w].order = req[w].order /\ req'[w].effect = req[w].effect
        /\ req'[w].phase = req[w].phase
    BY <1>4, <2>1 DEF ReadRow, Typed, OrdTypeOK, OrderRequest
  <2>3. RowsRight(req[w])
    BY <2>1 DEF AllRowsRight
  <2>4. RowsRight(req'[w])
    BY <2>2, <2>3 DEF RowsRight, BooksItem
  <2>5. \A v \in Worker \ {w} : req'[v] = req[v]
    BY <1>4 DEF ReadRow, Typed, OrdTypeOK
  <2> QED
    BY <2>4, <2>5 DEF AllRowsRight
<1>5. ASSUME NEW w \in Worker, Proceed(w) PROVE AllRowsRight'
  BY <1>2, <1>4, <1>5, StockStepRows
     DEF Proceed, StockFail, Save, SaveFail, LockWaitFails, Delete, Patch, Abort
<1> QED
  BY <1>1, <1>3, <1>5 DEF OrdStep, Create

\* When a request has been through its items, its rows are worth what the order
\* needs, for the order and for nobody else.
LEMMA DoneRowsWorth ==
  ASSUME Typed, AllRowsRight, NEW w \in Worker, req[w].phase = "working", ItemsDone(w),
         NEW o \in Order, NEW s \in Sku
  PROVE  LET op == req[w]
         IN  /\ Worth(op.rows, HoldIn(s)) = HoldSign(op.effect) * Need(op.order, s)
             /\ Worth(op.rows, DeltaIn(s)) = DeltaSign(op.effect) * Need(op.order, s)
             /\ Worth(op.rows, HoldOf(o, s)) =
                  IF o = op.order THEN HoldSign(op.effect) * Need(o, s) ELSE 0
             /\ Worth(op.rows, DeltaOf(o, s)) =
                  IF o = op.order THEN DeltaSign(op.effect) * Need(o, s) ELSE 0
<1> DEFINE op == req[w]
           L == op.rows
           c == HoldSign(op.effect)
           d == DeltaSign(op.effect)
<1>1. op \in OrderRequest /\ op # Free
  BY DEF Typed, OrdTypeOK, Free
<1>2. /\ op.order \in Order /\ L \in Seq(LedgerRow) /\ op.effect \in Effect
      /\ op.next \in Nat \ {0}
  BY <1>1 DEF OrderRequest
<1>3. RowsRight(op)
  BY <1>1 DEF AllRowsRight
<1>4. c \in {-1, 0, 1} /\ d \in {-1, 0, 1}
  BY <1>2 DEF HoldSign, DeltaSign, Effect
<1>5. Items[op.order] \in Seq(Item) /\ Need(op.order, s) \in Nat /\ Need(o, s) \in Nat
  BY <1>2, NeedIsAsked
<1>6. CASE op.effect = "none"
  <2>1. DOMAIN L = {}
    BY <1>3, <1>6 DEF RowsRight
  <2>2. \A value : Worth(L, value) = 0
    BY <2>1, SumEmpty DEF Worth
  <2>3. c = 0 /\ d = 0
    BY <1>6 DEF HoldSign, DeltaSign
  <2> HIDE DEF op, L, c, d
  <2> QED
    BY <1>5, <2>2, <2>3 DEF op, L, c, d
<1>7. CASE op.effect # "none"
  <2>1. DOMAIN L = DOMAIN Items[op.order]
    <3>1. op.next > Len(Items[op.order])
      BY <1>7 DEF ItemsDone
    <3>2. op.next - 1 = Len(Items[op.order])
      BY <1>2, <1>3, <1>5, <3>1 DEF RowsRight
    <3> QED
      BY <1>3, <1>5, <3>2 DEF RowsRight
  <2>2. ASSUME NEW i \in DOMAIN L
        PROVE  /\ L[i] \in LedgerRow
               /\ L[i].order = op.order /\ ~L[i].removed
               /\ L[i].hold = c * Items[op.order][i].quantity
               /\ L[i].delta = d * Items[op.order][i].quantity
               /\ L[i].sku = Items[op.order][i].sku
    BY <1>2, <1>3, ElementOf DEF RowsRight, BooksItem
  <2>3. \A i \in DOMAIN L : c * 0 = 0 /\ d * 0 = 0
    BY <1>4
  <2> HIDE DEF op, L, c, d
  <2>4. \A i \in DOMAIN L :
          /\ HoldIn(s)[L[i]] = c * Asked(op.order, s)[i]
          /\ DeltaIn(s)[L[i]] = d * Asked(op.order, s)[i]
          /\ HoldOf(op.order, s)[L[i]] = c * Asked(op.order, s)[i]
          /\ DeltaOf(op.order, s)[L[i]] = d * Asked(op.order, s)[i]
          /\ o # op.order => HoldOf(o, s)[L[i]] = 0 /\ DeltaOf(o, s)[L[i]] = 0
    BY <2>1, <2>2, <2>3 DEF HoldIn, DeltaIn, HoldOf, DeltaOf, Asked
  <2>5. Worth(L, HoldIn(s)) = c * Need(op.order, s)
    <3>1. \A i \in DOMAIN L : HoldIn(s)[L[i]] = c * Asked(op.order, s)[i]
      BY <2>4
    <3>2. HoldIn(s) \in [LedgerRow -> Int] /\ c \in {-1, 0, 1}
      BY <1>4, WeightsInt
    <3>3. op.order \in Order /\ L \in Seq(LedgerRow) /\ s \in Sku
      BY <1>2
    <3> QED
      BY ONLY <2>1, <3>1, <3>2, <3>3, RowsWorthNeed
  <2>6. Worth(L, DeltaIn(s)) = d * Need(op.order, s)
    <3>1. \A i \in DOMAIN L : DeltaIn(s)[L[i]] = d * Asked(op.order, s)[i]
      BY <2>4
    <3>2. DeltaIn(s) \in [LedgerRow -> Int] /\ d \in {-1, 0, 1}
      BY <1>4, WeightsInt
    <3>3. op.order \in Order /\ L \in Seq(LedgerRow) /\ s \in Sku
      BY <1>2
    <3> QED
      BY ONLY <2>1, <3>1, <3>2, <3>3, RowsWorthNeed
  <2>7. Worth(L, HoldOf(op.order, s)) = c * Need(op.order, s)
    <3>1. \A i \in DOMAIN L : HoldOf(op.order, s)[L[i]] = c * Asked(op.order, s)[i]
      BY <2>4
    <3>2. HoldOf(op.order, s) \in [LedgerRow -> Int] /\ c \in {-1, 0, 1}
      BY <1>4, WeightsInt
    <3>3. op.order \in Order /\ L \in Seq(LedgerRow) /\ s \in Sku
      BY <1>2
    <3> QED
      BY ONLY <2>1, <3>1, <3>2, <3>3, RowsWorthNeed
  <2>8. Worth(L, DeltaOf(op.order, s)) = d * Need(op.order, s)
    <3>1. \A i \in DOMAIN L : DeltaOf(op.order, s)[L[i]] = d * Asked(op.order, s)[i]
      BY <2>4
    <3>2. DeltaOf(op.order, s) \in [LedgerRow -> Int] /\ d \in {-1, 0, 1}
      BY <1>4, WeightsInt
    <3>3. op.order \in Order /\ L \in Seq(LedgerRow) /\ s \in Sku
      BY <1>2
    <3> QED
      BY ONLY <2>1, <3>1, <3>2, <3>3, RowsWorthNeed
  <2>9. o # op.order => Worth(L, HoldOf(o, s)) = 0 /\ Worth(L, DeltaOf(o, s)) = 0
    BY <1>2, <2>4, WeightsInt, WorthZero
  <2> QED
    BY <2>5, <2>6, <2>7, <2>8, <2>9 DEF op, L, c, d
<1> QED
  BY <1>6, <1>7

-----------------------------------------------------------------------------
(* One request per order at a time *)

\* No two requests are in flight for one order.
Alone ==
  \A v, w \in Worker :
    req[v] # Free /\ req[w] # Free /\ req[v].order = req[w].order => v = w

\* While a request is in flight, the order row stays as the request has read it.
Steady ==
  \A w \in Worker :
    req[w] # Free =>
      /\ Fits(req[w], orders[req[w].order])
      /\ req[w].viewed => req[w].view = orders[req[w].order]

\* A request in flight works for an order, with a copy of an order row.
LEMMA RequestType ==
  ASSUME Typed, NEW w \in Worker, req[w] # Free
  PROVE  /\ req[w] \in OrderRequest
         /\ req[w].order \in Order /\ req[w].copy \in OrderRow
         /\ orders[req[w].order] \in OrderRow
         /\ req[w].rows \in Seq(LedgerRow) /\ req[w].effect \in Effect
<1>1. req[w] \in OrderRequest
  BY DEF Typed, OrdTypeOK
<1> QED
  BY <1>1 DEF Typed, OrdTypeOK, OrderRequest

\* A step that lets the request of w go, and changes no order but its own, leaves
\* the other requests as they are.
LEMMA OthersSteady ==
  ASSUME Typed, Alone, Steady, NEW w \in Worker, req[w] # Free,
         req' = [req EXCEPT ![w] = Free],
         \A o \in Order \ {req[w].order} : orders'[o] = orders[o]
  PROVE  Alone' /\ Steady'
<1>1. \A v \in Worker : req'[v] # Free => v # w /\ req'[v] = req[v]
  BY DEF Typed, OrdTypeOK
<1>2. Alone'
  BY <1>1 DEF Alone
<1>3. ASSUME NEW v \in Worker, req'[v] # Free
      PROVE  orders'[req'[v].order] = orders[req[v].order] /\ req'[v] = req[v]
  <2>1. v # w /\ req'[v] = req[v] /\ req[v] # Free
    BY <1>1, <1>3
  <2>2. req[v].order \in Order /\ req[v].order # req[w].order
    BY <2>1, RequestType DEF Alone
  <2> QED
    BY <2>1, <2>2
<1>4. Steady'
  BY <1>1, <1>3 DEF Steady
<1> QED
  BY <1>2, <1>4

\* With one request per order, what save leaves is the copy the handler made.
LEMMA SaveIsCopy ==
  ASSUME Typed, Steady, NEW w \in Worker, Save(w)
  PROVE  /\ req[w] # Free /\ req[w].order \in Order
         /\ orders' = [orders EXCEPT ![req[w].order] = req[w].copy]
<1> DEFINE op == req[w]
           row == orders[op.order]
<1>1. op # Free
  BY DEF Save, Free
<1>2. /\ op.order \in Order /\ op.copy \in OrderRow /\ row \in OrderRow
  BY <1>1, RequestType
<1>3. op.viewed /\ op.phase = "working" /\ orders' = [orders EXCEPT ![op.order] = SavedRow(w)]
  BY DEF Save
<1>4. op.view = row /\ op.copy.present
  BY <1>1, <1>3 DEF Steady, Fits
<1>5. row.present => Written(op.copy, row, row) = op.copy
  <2> DEFINE c == op.copy
  <2>1. c = [present |-> TRUE, status |-> c.status, held |-> c.held,
             source |-> c.source, type |-> c.type]
    BY <1>2, <1>4 DEF OrderRow
  <2>2. Written(c, row, row) =
          [present |-> TRUE, status |-> c.status, held |-> c.held,
           source |-> c.source, type |-> c.type]
    BY DEF Written
  <2> QED
    BY <2>1, <2>2
<1>6. SavedRow(w) = op.copy
  BY <1>4, <1>5 DEF SavedRow
<1> QED
  BY <1>1, <1>2, <1>3, <1>6

\* Each step keeps a request alone with its order.
LEMMA OrdStepSteady ==
  ASSUME ~Overlap, Typed, Alone, Steady, OrdStep
  PROVE  Alone' /\ Steady'
<1>1. ASSUME NEW w \in Worker, Begin(w) PROVE Alone' /\ Steady'
  <2>1. PICK o \in Order, phase \in {"working", "deleting", "patching"},
              copy \in OrderRow, effect \in Effect :
          /\ MayBegin(w, o)
          /\ Start(w, o, phase, copy, effect)
          /\ Fits(Begun(o, phase, copy, effect), orders[o])
    BY <1>1, BeginShape
  <2> DEFINE new == Begun(o, phase, copy, effect)
  <2>2. req' = [req EXCEPT ![w] = new] /\ UNCHANGED orders
    BY <2>1 DEF Start, Begun
  <2>3. new.order = o /\ ~new.viewed /\ Fits(new, orders[o])
    BY <2>1 DEF Begun
  <2>4. \A v \in Worker : req[v] # Free => req[v].order # o
    BY <2>1 DEF MayBegin, InFlight
  <2> HIDE DEF new
  <2>5. \A v \in Worker : req'[v] = IF v = w THEN new ELSE req[v]
    BY <2>2 DEF Typed, OrdTypeOK
  <2>6. Alone'
    BY <2>3, <2>4, <2>5 DEF Alone
  <2>7. Steady'
    BY <2>2, <2>3, <2>5 DEF Steady
  <2> QED
    BY <2>6, <2>7
<1>2. ASSUME NEW o \in Order, NEW source, NEW type, NEW st, Create(o, source, type, st)
      PROVE  Alone' /\ Steady'
  <2>1. UNCHANGED req /\ \A v \in Worker : req[v] # Free => req[v].order # o
    BY <1>2 DEF Create, InFlight
  <2>2. \A p \in Order \ {o} : orders'[p] = orders[p]
    BY <1>2 DEF Create, Typed, OrdTypeOK
  <2>3. \A v \in Worker : req[v] # Free => orders'[req[v].order] = orders[req[v].order]
    BY <2>1, <2>2, RequestType
  <2> QED
    BY <2>1, <2>3 DEF Alone, Steady
<1>3. ASSUME NEW w \in Worker, StockStep(w) \/ ReadRow(w) PROVE Alone' /\ Steady'
  <2> DEFINE op == req[w]
             row == orders[op.order]
  <2>1. op # Free
    BY <1>3 DEF StockStep, AtItem, ReadRow, Free
  <2>2. op \in OrderRequest
    BY <2>1, RequestType
  <2>3. UNCHANGED orders
    BY <1>3 DEF StockStep, ReadRow
  <2>4. op.viewed => op.view = row
    BY <2>1 DEF Steady
  <2>5. /\ req'[w].order = op.order /\ req'[w].effect = op.effect
        /\ req'[w].phase = op.phase /\ req'[w].copy = op.copy
        /\ req'[w].view = row
    <3>1. CASE StockStep(w)
      <4>1. PICK rows, next :
              req' = [req EXCEPT
                        ![w].next = next,
                        ![w].viewed = TRUE,
                        ![w].view = IF req[w].viewed THEN @ ELSE orders[req[w].order],
                        ![w].rows = rows]
        BY <3>1 DEF StockStep
      <4> QED
        BY <2>2, <2>4, <4>1 DEF Typed, OrdTypeOK, OrderRequest
    <3>2. CASE ReadRow(w)
      BY <2>2, <3>2 DEF ReadRow, Typed, OrdTypeOK, OrderRequest
    <3> QED
      BY <1>3, <3>1, <3>2
  <2>6. \A v \in Worker \ {w} : req'[v] = req[v]
    <3>1. \E x : req' = [req EXCEPT ![w] = x]
      BY <1>3, Zenon DEF StockStep, ReadRow
    <3> QED
      BY <3>1 DEF Typed, OrdTypeOK
  <2>7. Fits(op, row)
    BY <2>1 DEF Steady
  <2>8. Fits(req'[w], row)
    BY <2>5, <2>7 DEF Fits
  <2>9. Alone'
    BY <2>1, <2>5, <2>6 DEF Alone
  <2> HIDE DEF op, row
  <2>10. Steady'
    <3> SUFFICES ASSUME NEW v \in Worker, req'[v] # Free
                 PROVE  /\ Fits(req'[v], orders[req'[v].order])
                        /\ req'[v].viewed => req'[v].view = orders[req'[v].order]
      BY <2>3 DEF Steady
    <3>1. CASE v = w
      BY <2>5, <2>8, <3>1 DEF op, row
    <3>2. CASE v # w
      BY <2>6, <3>2 DEF Steady
    <3> QED
      BY <3>1, <3>2
  <2> QED
    BY <2>9, <2>10
<1>4. ASSUME NEW w \in Worker, Save(w) PROVE Alone' /\ Steady'
  <2>1. /\ req[w] # Free /\ req[w].order \in Order
        /\ orders' = [orders EXCEPT ![req[w].order] = req[w].copy]
    BY <1>4, SaveIsCopy
  <2>2. \A o \in Order \ {req[w].order} : orders'[o] = orders[o]
    BY <2>1 DEF Typed, OrdTypeOK
  <2> QED
    BY <1>4, <2>1, <2>2, OthersSteady DEF Save
<1>5. ASSUME NEW w \in Worker, StockFail(w) \/ SaveFail(w) \/ LockWaitFails(w)
      PROVE  Alone' /\ Steady'
  <2>1. Abort(w) /\ req[w] # Free
    BY <1>5, AbortShape DEF Free
  <2> QED
    BY <2>1, OthersSteady DEF Abort
<1>6. ASSUME NEW w \in Worker, Delete(w) \/ Patch(w) PROVE Alone' /\ Steady'
  <2>1. req[w] # Free /\ req' = [req EXCEPT ![w] = Free]
    BY <1>6 DEF Delete, Patch, Free
  <2>2. \A o \in Order \ {req[w].order} : orders'[o] = orders[o]
    BY <1>6 DEF Delete, Patch, Typed, OrdTypeOK
  <2> QED
    BY <2>1, <2>2, OthersSteady
<1> QED
  BY <1>1, <1>2, <1>3, <1>4, <1>5, <1>6 DEF OrdStep, Proceed

-----------------------------------------------------------------------------
(* An order row and what the ledger says of the order *)

Sold(L, o) == \A s \in Sku : Worth(L, DeltaOf(o, s)) = -Need(o, s)
Unsold(L, o) == \A s \in Sku : Worth(L, DeltaOf(o, s)) = 0

\* The row of o and the ledger L agree: what is held is what stockLocked says, what
\* is sold was sold once, to an order that has shipped, and a mini-program order
\* holds its stock until it is closed or sold.
Agrees(L, o, row) ==
  /\ \A s \in Sku : Worth(L, HoldOf(o, s)) = IF row.held THEN Need(o, s) ELSE 0
  /\ Unsold(L, o) \/ (Sold(L, o) /\ row.status \in {"SHIPPED", "COMPLETED"} /\ ~row.held)
  /\ row.present /\ row.status \in Terminal \union {"SHIPPED"} => ~row.held
  /\ o \in MiniappOrder /\ row.present =>
       IF row.status \in {"SHIPPED", "COMPLETED"} THEN Sold(L, o)
       ELSE row.held \/ row.status \in {"CANCELLED", "REJECTED"}

BooksRight == \A o \in Order : Agrees(ledger, o, orders[o])

\* It depends on what the ledger is worth to the order only.
LEMMA AgreesKept ==
  ASSUME NEW o, NEW row, NEW L, NEW M, Agrees(L, o, row),
         \A s \in Sku : /\ Worth(M, HoldOf(o, s)) = Worth(L, HoldOf(o, s))
                        /\ Worth(M, DeltaOf(o, s)) = Worth(L, DeltaOf(o, s))
  PROVE  Agrees(M, o, row)
<1>1. Unsold(M, o) <=> Unsold(L, o)
  BY DEF Unsold
<1>2. Sold(M, o) <=> Sold(L, o)
  BY DEF Sold
<1> QED
  BY <1>1, <1>2 DEF Agrees

\* What a request that fits its order makes of the agreement.
LEMMA AgreesAfter ==
  ASSUME NEW o \in Order, NEW row \in OrderRow, NEW op, op.copy \in OrderRow,
         op.effect \in Effect, op.phase = "working", Fits(op, row),
         NEW L \in Seq(LedgerRow), NEW M \in Seq(LedgerRow), Agrees(L, o, row),
         o \in MiniappOrder => row.present \/ op.effect = "lock",
         \A s \in Sku :
           /\ Worth(M, HoldOf(o, s)) =
                Worth(L, HoldOf(o, s)) + HoldSign(op.effect) * Need(o, s)
           /\ Worth(M, DeltaOf(o, s)) =
                Worth(L, DeltaOf(o, s)) + DeltaSign(op.effect) * Need(o, s)
  PROVE  Agrees(M, o, op.copy)
<1> DEFINE c == op.copy
<1>0. /\ row.held \in BOOLEAN /\ row.status \in Status /\ c.held \in BOOLEAN
      /\ c.status \in Status
  BY DEF OrderRow
<1>1. \A s \in Sku : Need(o, s) \in Nat
  BY NeedIsAsked
<1>2. \A s \in Sku : Worth(L, DeltaOf(o, s)) \in Int /\ Worth(L, HoldOf(o, s)) \in Int
  BY WorthInt, WeightsInt
<1>3. CASE op.effect = "lock"
  <2>1. ~row.held /\ c.held /\ c.status \notin Terminal \union {"SHIPPED"}
    BY <1>3 DEF Fits
  <2>2. row.status \notin {"SHIPPED", "COMPLETED"}
    BY <2>1 DEF Fits, Terminal
  <2>3. Unsold(L, o)
    BY <2>2 DEF Agrees
  <2>4. Unsold(M, o)
    BY <1>3, <2>3, <1>1 DEF Unsold, DeltaSign
  <2>5. \A s \in Sku : Worth(M, HoldOf(o, s)) = Need(o, s)
    BY <1>1, <1>3, <2>1 DEF Agrees, HoldSign
  <2> QED
    BY <2>1, <2>4, <2>5 DEF Agrees, Terminal
<1>4. CASE op.effect = "release"
  <2>1. row.held /\ ~c.held /\ c.status \in {"CANCELLED", "REJECTED"}
    BY <1>4 DEF Fits
  <2>2. Unsold(L, o)
    BY <2>1 DEF Agrees
  <2>3. Unsold(M, o)
    BY <1>1, <1>4, <2>2 DEF Unsold, DeltaSign
  <2>4. \A s \in Sku : Worth(M, HoldOf(o, s)) = 0
    BY <1>1, <1>4, <2>1 DEF Agrees, HoldSign
  <2> QED
    BY <2>1, <2>3, <2>4 DEF Agrees
<1>5. CASE op.effect = "deduct"
  <2>1. row.held /\ ~c.held /\ c.status \in {"SHIPPED", "COMPLETED"}
    BY <1>5 DEF Fits
  <2>2. Unsold(L, o)
    BY <2>1 DEF Agrees
  <2>3. Sold(M, o)
    BY <1>1, <1>5, <2>2 DEF Unsold, Sold, DeltaSign
  <2>4. \A s \in Sku : Worth(M, HoldOf(o, s)) = 0
    BY <1>1, <1>5, <2>1 DEF Agrees, HoldSign
  <2> QED
    BY <2>1, <2>3, <2>4 DEF Agrees
<1>6. CASE op.effect = "none"
  <2>1. /\ c.held = row.held /\ row.present /\ row.status \notin Terminal
        /\ row.status = "SHIPPED" => c.status = "COMPLETED"
        /\ c.status \in {"SHIPPED", "COMPLETED"} => ~row.held \/ row.status = "SHIPPED"
        /\ c.status \in {"CANCELLED", "REJECTED"} => ~row.held
    BY <1>6 DEF Fits
  <2>2. \A s \in Sku : /\ Worth(M, HoldOf(o, s)) = Worth(L, HoldOf(o, s))
                       /\ Worth(M, DeltaOf(o, s)) = Worth(L, DeltaOf(o, s))
    BY <1>1, <1>2, <1>6 DEF HoldSign, DeltaSign
  <2>3. Agrees(M, o, row)
    BY <2>2, AgreesKept
  <2> QED
    BY <2>1, <2>3 DEF Agrees, Terminal
<1> QED
  BY <1>3, <1>4, <1>5, <1>6 DEF Effect

\* Save moves the agreement to the row it writes.
LEMMA SaveBooks ==
  ASSUME Typed, AllRowsRight, Steady, BooksRight, NEW w \in Worker, Save(w)
  PROVE  BooksRight'
<1> DEFINE op == req[w]
           row == orders[op.order]
<1>1. /\ op # Free /\ op.order \in Order
      /\ orders' = [orders EXCEPT ![op.order] = op.copy]
  BY SaveIsCopy
<1>2. /\ op \in OrderRequest /\ op.copy \in OrderRow /\ row \in OrderRow
      /\ op.rows \in Seq(LedgerRow) /\ op.effect \in Effect
      /\ ledger \in Seq(LedgerRow)
  BY <1>1, RequestType DEF Typed, DbTypeOK
<1>3. ledger' = ledger \o op.rows /\ op.phase = "working" /\ ItemsDone(w)
  BY DEF Save
<1>4. ledger' \in Seq(LedgerRow)
  BY <1>2, <1>3
<1>5. \A o \in Order, s \in Sku :
        /\ Worth(ledger', HoldOf(o, s)) = Worth(ledger, HoldOf(o, s)) +
             (IF o = op.order THEN HoldSign(op.effect) * Need(o, s) ELSE 0)
        /\ Worth(ledger', DeltaOf(o, s)) = Worth(ledger, DeltaOf(o, s)) +
             (IF o = op.order THEN DeltaSign(op.effect) * Need(o, s) ELSE 0)
  <2> SUFFICES ASSUME NEW o \in Order, NEW s \in Sku
               PROVE  /\ Worth(ledger', HoldOf(o, s)) = Worth(ledger, HoldOf(o, s)) +
                           (IF o = op.order THEN HoldSign(op.effect) * Need(o, s) ELSE 0)
                      /\ Worth(ledger', DeltaOf(o, s)) = Worth(ledger, DeltaOf(o, s)) +
                           (IF o = op.order THEN DeltaSign(op.effect) * Need(o, s) ELSE 0)
    OBVIOUS
  <2>1. /\ Worth(op.rows, HoldOf(o, s)) =
             IF o = op.order THEN HoldSign(op.effect) * Need(o, s) ELSE 0
        /\ Worth(op.rows, DeltaOf(o, s)) =
             IF o = op.order THEN DeltaSign(op.effect) * Need(o, s) ELSE 0
    BY <1>3, DoneRowsWorth
  <2>2. \A v \in [LedgerRow -> Int] :
          Worth(ledger \o op.rows, v) = Worth(ledger, v) + Worth(op.rows, v)
    BY <1>2, WorthConcat
  <2> QED
    BY <1>3, <2>1, <2>2, WeightsInt
<1>6. ASSUME NEW o \in Order, o # op.order
      PROVE  Agrees(ledger', o, orders'[o])
  <2>1. orders'[o] = orders[o] /\ Agrees(ledger, o, orders[o])
    BY <1>1, <1>6 DEF BooksRight, Typed, OrdTypeOK
  <2>2. \A s \in Sku : /\ Worth(ledger, HoldOf(o, s)) \in Int
                       /\ Worth(ledger, DeltaOf(o, s)) \in Int
    BY <1>2, WorthInt, WeightsInt
  <2>3. \A s \in Sku : /\ Worth(ledger', HoldOf(o, s)) = Worth(ledger, HoldOf(o, s))
                       /\ Worth(ledger', DeltaOf(o, s)) = Worth(ledger, DeltaOf(o, s))
    BY <1>5, <1>6, <2>2
  <2> QED
    BY <2>1, <2>3, AgreesKept
<1>7. Agrees(ledger', op.order, op.copy)
  <2>1. Fits(op, row) /\ Agrees(ledger, op.order, row)
    BY <1>1 DEF Steady, BooksRight
  <2>2. row.present \/ op.effect = "lock"
    BY <1>3, <2>1 DEF Fits
  <2>3. \A s \in Sku :
          /\ Worth(ledger', HoldOf(op.order, s)) =
               Worth(ledger, HoldOf(op.order, s)) + HoldSign(op.effect) * Need(op.order, s)
          /\ Worth(ledger', DeltaOf(op.order, s)) =
               Worth(ledger, DeltaOf(op.order, s)) + DeltaSign(op.effect) * Need(op.order, s)
    BY <1>1, <1>5
  <2> HIDE DEF op, row
  <2> QED
    BY <1>1, <1>2, <1>3, <1>4, <2>1, <2>2, <2>3, AgreesAfter
<1>8. orders'[op.order] = op.copy
  BY <1>1 DEF Typed, OrdTypeOK
<1> QED
  BY <1>6, <1>7, <1>8 DEF BooksRight

\* No other step of the order service touches it: BeginDelete and BeginPatch end in
\* rows that agree with the ledger as it is.
LEMMA OrdStepBooks ==
  ASSUME ~Overlap, Typed, AllRowsRight, Steady, BooksRight, OrdStep
  PROVE  BooksRight'
<1>1. ASSUME UNCHANGED <<ledger, orders>> PROVE BooksRight'
  BY <1>1 DEF BooksRight
<1>2. ASSUME NEW w \in Worker, Begin(w) PROVE BooksRight'
  <2>1. \E o, phase, copy, effect : Start(w, o, phase, copy, effect)
    BY <1>2, BeginShape
  <2> QED
    BY <1>1, <2>1 DEF Start, dbVars
<1>3. ASSUME NEW o \in Order, NEW row, UNCHANGED ledger,
             orders' = [orders EXCEPT ![o] = row], Agrees(ledger, o, row)
      PROVE  BooksRight'
  <2>1. \A p \in Order : orders'[p] = IF p = o THEN row ELSE orders[p]
    BY <1>3 DEF Typed, OrdTypeOK
  <2>2. ASSUME NEW p \in Order PROVE Agrees(ledger, p, orders'[p])
    BY <1>3, <2>1 DEF BooksRight
  <2> QED
    BY <1>3, <2>2 DEF BooksRight
<1>4. ASSUME NEW o \in Order, NEW source, NEW type, NEW st, Create(o, source, type, st)
      PROVE  BooksRight'
  <2> DEFINE row == [present |-> TRUE, status |-> st, held |-> FALSE,
                     source |-> source, type |-> type]
  <2>1. /\ orders[o] = Unborn /\ o \notin MiniappOrder /\ UNCHANGED ledger
        /\ orders' = [orders EXCEPT ![o] = row]
    BY <1>4 DEF Create, dbVars
  <2>2. Agrees(ledger, o, Unborn)
    BY <2>1 DEF BooksRight
  <2>3. Agrees(ledger, o, row)
    BY <2>1, <2>2 DEF Agrees, Unborn
  <2> HIDE DEF row
  <2> QED
    BY <1>3, <2>1, <2>3
<1>5. ASSUME NEW w \in Worker, Delete(w) PROVE BooksRight'
  <2> DEFINE o == req[w].order
             row == [orders[o] EXCEPT !.present = FALSE]
  <2>1. o \in Order /\ orders[o] \in OrderRow
    BY <1>5, RequestType DEF Delete, Free
  <2>2. UNCHANGED ledger /\ orders' = [orders EXCEPT ![o] = row]
    BY <1>5 DEF Delete, dbVars
  <2>3. row.held = orders[o].held /\ row.status = orders[o].status /\ ~row.present
    BY <2>1 DEF OrderRow
  <2>4. Agrees(ledger, o, orders[o])
    BY <2>1 DEF BooksRight
  <2> HIDE DEF row, o
  <2>5. Agrees(ledger, o, row)
    BY <2>3, <2>4 DEF Agrees
  <2> QED
    BY <1>3, <2>1, <2>2, <2>5
<1>6. ASSUME NEW w \in Worker, Patch(w) PROVE BooksRight'
  <2> DEFINE o == req[w].order
             row == [orders[o] EXCEPT !.source = req[w].copy.source,
                                      !.type = req[w].copy.type]
  <2>1. o \in Order /\ orders[o] \in OrderRow
    BY <1>6, RequestType DEF Patch, Free
  <2>2. UNCHANGED ledger /\ \/ orders' = [orders EXCEPT ![o] = row]
                            \/ UNCHANGED orders
    BY <1>6, <2>1 DEF Patch, dbVars, Typed, OrdTypeOK
  <2>3. /\ row.held = orders[o].held /\ row.status = orders[o].status
        /\ row.present = orders[o].present
    BY <2>1 DEF OrderRow
  <2>4. Agrees(ledger, o, orders[o])
    BY <2>1 DEF BooksRight
  <2> HIDE DEF row, o
  <2>5. Agrees(ledger, o, row)
    BY <2>3, <2>4 DEF Agrees
  <2> QED
    BY <1>1, <1>3, <2>1, <2>2, <2>5
<1>7. ASSUME NEW w \in Worker,
             StockStep(w) \/ ReadRow(w) \/ StockFail(w) \/ SaveFail(w) \/ LockWaitFails(w)
      PROVE  BooksRight'
  BY <1>1, <1>7, AbortShape DEF StockStep, ReadRow, Abort, RollbackTx, dbVars
<1>8. ASSUME NEW w \in Worker, Save(w) PROVE BooksRight'
  BY <1>8, SaveBooks
<1> QED
  BY <1>2, <1>4, <1>5, <1>6, <1>7, <1>8 DEF OrdStep, Proceed

\* What the order side of the ledger rests on.
OrderBooks == AllRowsRight /\ Alone /\ Steady /\ BooksRight

\* With one request per order, every step keeps the books.
LEMMA OrdStepOrderBooks ==
  ASSUME ~Overlap, Typed, OrderBooks, OrdStep
  PROVE  OrderBooks'
BY OrdStepRows, OrdStepSteady, OrdStepBooks DEF OrderBooks

\* A crash ends every request; tables and ledger stay.
LEMMA CrashOrderBooks ==
  ASSUME OrderBooks, req' = [w \in Worker |-> Free], UNCHANGED <<ledger, orders>>
  PROVE  OrderBooks'
BY DEF OrderBooks, AllRowsRight, Alone, Steady, BooksRight

\* At the start no order and no request is there.
LEMMA StartOrderBooks ==
  ASSUME DbInit, OrdInit
  PROVE  Typed /\ OrderBooks
<1>1. Typed
  <2>1. DbTypeOK
    BY StockDbAssumption DEF DbInit, DbTypeOK, LocationStatus
  <2>2. OrdTypeOK
    BY DEF OrdInit, OrdTypeOK, Unborn, OrderRow, Status, Source, Type
  <2> QED
    BY <2>1, <2>2 DEF Typed
<1>2. AllRowsRight /\ Alone /\ Steady
  BY DEF OrdInit, AllRowsRight, Alone, Steady
<1>3. \A o \in Order : orders[o] = Unborn
  BY DEF OrdInit
<1>4. ledger = <<>>
  BY DEF DbInit
<1>5. \A v : Worth(<<>>, v) = 0
  BY WorthEmpty
<1>6. BooksRight
  BY <1>3, <1>4, <1>5 DEF BooksRight, Agrees, Unsold, Unborn
<1> QED
  BY <1>1, <1>2, <1>6 DEF OrderBooks

\* The properties are what the books say.
LEMMA BooksTell ==
  ASSUME Typed, OrderBooks
  PROVE  HoldMatchesLedger /\ StatusTellsStock /\ DeductedAtMostOnce
<1>1. DbTypeOK /\ \A o \in Order : Agrees(ledger, o, orders[o])
  BY DEF Typed, OrderBooks, BooksRight
<1>2. \A o \in Order, s \in Sku :
        /\ OrdLedgerSum(o, s, LAMBDA e : e.hold) = Worth(ledger, HoldOf(o, s))
        /\ OrdLedgerSum(o, s, LAMBDA e : e.delta) = Worth(ledger, DeltaOf(o, s))
  BY <1>1, LedgerSums
<1>3. \A o \in Order, s \in Sku : Need(o, s) \in Nat
  BY NeedIsAsked
<1>4. HoldMatchesLedger
  BY <1>1, <1>2 DEF HoldMatchesLedger, Agrees
<1>5. DeductedAtMostOnce
  <2> SUFFICES ASSUME NEW o \in Order, NEW s \in Sku
               PROVE  -OrdLedgerSum(o, s, LAMBDA e : e.delta) <= Need(o, s)
    BY DEF DeductedAtMostOnce
  <2>1. Worth(ledger, DeltaOf(o, s)) \in {0, -Need(o, s)}
    BY <1>1 DEF Agrees, Sold, Unsold
  <2>2. OrdLedgerSum(o, s, LAMBDA e : e.delta) = Worth(ledger, DeltaOf(o, s))
    BY <1>2
  <2> HIDE DEF OrdLedgerSum
  <2> QED
    BY <1>3, <2>1, <2>2
<1>6. ClosedHoldsNothing
  BY <1>1 DEF ClosedHoldsNothing, Agrees
<1>7. ShippedIsDeducted
  <2> SUFFICES ASSUME NEW o \in MiniappOrder, NEW s \in Sku, orders[o].present,
                      orders[o].status \in {"SHIPPED", "COMPLETED"}
               PROVE  -OrdLedgerSum(o, s, LAMBDA e : e.delta) = Need(o, s)
    BY DEF ShippedIsDeducted
  <2>1. o \in Order
    BY OrderAssumption
  <2>2. Worth(ledger, DeltaOf(o, s)) = -Need(o, s)
    BY <1>1, <2>1 DEF Agrees, Sold
  <2>3. OrdLedgerSum(o, s, LAMBDA e : e.delta) = Worth(ledger, DeltaOf(o, s))
    BY <1>2, <2>1
  <2>4. Need(o, s) \in Nat
    BY <1>3, <2>1
  <2> QED
    BY <2>2, <2>3, <2>4
<1> QED
  BY <1>4, <1>5, <1>6, <1>7 DEF StatusTellsStock

\* No step moves an order that is closed, whatever request is under way.
LEMMA OrdStepFinal ==
  ASSUME Typed, Steady, OrdStep, NEW o \in Order,
         orders[o].present, orders[o].status \in Terminal
  PROVE  orders'[o].status = orders[o].status
<1>1. ASSUME NEW w \in Worker, Begin(w) PROVE UNCHANGED orders
  <2>1. \E p, phase, copy, effect : Start(w, p, phase, copy, effect)
    BY <1>1, BeginShape
  <2> QED
    BY <2>1 DEF Start
<1>2. ASSUME NEW p \in Order, NEW source, NEW type, NEW st, Create(p, source, type, st)
      PROVE  orders'[o].status = orders[o].status
  <2>1. p # o
    BY <1>2 DEF Create, Unborn
  <2> QED
    BY <1>2, <2>1 DEF Create
<1>3. ASSUME NEW w \in Worker, Save(w)
      PROVE  orders'[o].status = orders[o].status
  <2>1. /\ req[w] # Free /\ req[w].order \in Order
        /\ orders' = [orders EXCEPT ![req[w].order] = req[w].copy]
    BY <1>3, SaveIsCopy
  <2>2. Fits(req[w], orders[req[w].order]) /\ req[w].phase = "working"
    BY <1>3, <2>1 DEF Steady, Save
  <2>3. req[w].order # o
    BY <2>2 DEF Fits
  <2> QED
    BY <2>1, <2>3
<1>4. ASSUME NEW w \in Worker, Delete(w) \/ Patch(w)
      PROVE  orders'[o].status = orders[o].status
  <2>1. orders[o] \in OrderRow
    BY DEF Typed, OrdTypeOK
  <2> QED
    BY <1>4, <2>1 DEF Delete, Patch, Typed, OrdTypeOK, OrderRow
<1>5. ASSUME NEW w \in Worker,
             StockStep(w) \/ ReadRow(w) \/ StockFail(w) \/ SaveFail(w) \/ LockWaitFails(w)
      PROVE  UNCHANGED orders
  BY <1>5, AbortShape DEF StockStep, ReadRow, Abort
<1> QED
  BY <1>1, <1>2, <1>3, <1>4, <1>5 DEF OrdStep, Proceed

-----------------------------------------------------------------------------
(* Row locks, and what is written but not yet committed *)

\* An effect moves the totals of a row and its location rows by the same amounts.
LEMMA OutcomesTotals ==
  ASSUME NEW e \in Effect \ {"none"}, NEW r \in Row, NEW q \in Nat,
         NEW out \in Outcomes(e, r, q)
  PROVE  /\ out.row.exists = r.exists /\ out.row.home = r.home
         /\ out.row.quantity = r.quantity + DeltaSign(e) * q
         /\ out.row.locked = r.locked + HoldSign(e) * q
         /\ QuantityAt(out.row) = QuantityAt(r) + DeltaSign(e) * q
         /\ LockedAt(out.row) = LockedAt(r) + HoldSign(e) * q
<1>0. FreeAt(r) \in [Location -> Int] /\ HeldAt(r) \in [Location -> Int]
  BY Capacities
<1>1. CASE e = "lock"
  <2>1. out \in Passes(r, FreeAt(r), q, 0, 1)
    BY <1>1 DEF Outcomes, LockOutcomes
  <2>2. HoldSign(e) = 1 /\ DeltaSign(e) = 0
    BY <1>1 DEF HoldSign, DeltaSign
  <2> QED
    BY <1>0, <2>1, <2>2, PassesTotals
<1>2. CASE e = "release"
  <2>1. out \in Passes(r, HeldAt(r), q, 0, -1)
    BY <1>2 DEF Outcomes, ReleaseOutcomes
  <2>2. HoldSign(e) = -1 /\ DeltaSign(e) = 0
    BY <1>2 DEF HoldSign, DeltaSign
  <2> QED
    BY <1>0, <2>1, <2>2, PassesTotals
<1>3. CASE e = "deduct"
  <2>1. out \in Passes(r, HeldAt(r), q, -1, -1)
    BY <1>3 DEF Outcomes, DeductOutcomes
  <2>2. HoldSign(e) = -1 /\ DeltaSign(e) = -1
    BY <1>3 DEF HoldSign, DeltaSign
  <2> QED
    BY <1>0, <2>1, <2>2, PassesTotals
<1> QED
  BY <1>1, <1>2, <1>3 DEF Effect

\* The ledger rows a worker has written and not committed.
Rows(w) == IF req[w] = Free THEN <<>> ELSE req[w].rows

\* A worker that holds a row lock is at work.
HoldersWork ==
  \A w \in Worker, s \in Sku :
    owner[s] = w => req[w] # Free /\ req[w].phase = "working"

\* What a worker has written shows in the rows it has locked, and in no other.
Pending ==
  /\ \A s \in Sku : owner[s] \notin Worker => stock[s] = saved[s]
  /\ \A w \in Worker, s \in Sku :
       /\ Worth(Rows(w), HoldIn(s)) =
            IF owner[s] = w THEN stock[s].locked - saved[s].locked ELSE 0
       /\ Worth(Rows(w), DeltaIn(s)) =
            IF owner[s] = w THEN stock[s].quantity - saved[s].quantity ELSE 0

Locking == HoldersWork /\ Pending

\* Workers and clerks are different, and nobody is neither.
LEMMA NobodyElse == NoTx \notin Worker /\ NoTx \notin Clerk /\ Worker \intersect Clerk = {}
BY StockDbAssumption

\* What is compared in Pending are numbers.
LEMMA RowsType ==
  ASSUME Typed, NEW w \in Worker, NEW s \in Sku
  PROVE  /\ Rows(w) \in Seq(LedgerRow)
         /\ stock[s].locked \in Int /\ saved[s].locked \in Int
         /\ stock[s].quantity \in Int /\ saved[s].quantity \in Int
<1>1. Rows(w) \in Seq(LedgerRow)
  BY RequestType DEF Rows
<1> QED
  BY <1>1 DEF Typed, DbTypeOK, Row

\* One more row of the ledger.
LEMMA RowsAppend ==
  ASSUME NEW L, L \in Seq(LedgerRow), NEW e, e \in LedgerRow, NEW s
  PROVE  /\ Worth(Append(L, e), HoldIn(s)) = Worth(L, HoldIn(s)) + HoldIn(s)[e]
         /\ Worth(Append(L, e), DeltaIn(s)) = Worth(L, DeltaIn(s)) + DeltaIn(s)[e]
         /\ Worth(L, HoldIn(s)) \in Int /\ Worth(L, DeltaIn(s)) \in Int
<1>1. HoldIn(s) \in [LedgerRow -> Int] /\ DeltaIn(s) \in [LedgerRow -> Int]
  BY WeightsInt
<1>2. \A v \in [LedgerRow -> Int] :
        Worth(Append(L, e), v) = Worth(L, v) + v[e] /\ Worth(L, v) \in Int
  BY WorthAppend, WorthInt
<1> QED
  BY <1>1, <1>2

\* The step that moves the stock of an item writes a row it locks, and books what it
\* writes.
LEMMA StockStepLocking ==
  ASSUME Typed, AllRowsRight, Locking, NEW w \in Worker, StockStep(w)
  PROVE  Locking'
<1> DEFINE op == req[w]
           item == NextItem(w)
           k == item.sku
<1>1. /\ op \in OrderRequest /\ op.effect \in Effect \ {"none"}
      /\ k \in Sku /\ item.quantity \in Nat /\ CanLock(w, k) /\ op # Free
      /\ op.phase = "working"
  BY AtItemType DEF Typed, StockStep, AtItem, Item, Free
<1>2. PICK out \in ItemOutcomes(w) :
        /\ stock' = [stock EXCEPT ![k] = out.row]
        /\ owner' = [owner EXCEPT ![k] = w]
        /\ req' = [req EXCEPT
                     ![w].next = @ + 1,
                     ![w].viewed = TRUE,
                     ![w].view = IF req[w].viewed THEN @ ELSE orders[req[w].order],
                     ![w].rows = Append(@, ItemLedgerRow(w, out.location))]
  BY DEF StockStep
<1>3. stock[k] \in Row
  BY <1>1 DEF Typed, DbTypeOK
<1>4. /\ out.location \in Location
      /\ out.row.quantity = stock[k].quantity + DeltaSign(op.effect) * item.quantity
      /\ out.row.locked = stock[k].locked + HoldSign(op.effect) * item.quantity
  BY <1>1, <1>3, OutcomesKeepCovered, OutcomesTotals DEF ItemOutcomes
<1> DEFINE e == ItemLedgerRow(w, out.location)
<1>5. /\ e \in LedgerRow /\ e.sku = k /\ ~e.removed
      /\ e.hold = HoldSign(op.effect) * item.quantity
      /\ e.delta = DeltaSign(op.effect) * item.quantity
  <2>1. e \in LedgerRow
    BY <1>4, ItemLedgerRowType DEF Typed, StockStep
  <2>2. op.effect \in {"lock", "release", "deduct"}
    BY <1>1 DEF Effect
  <2> QED
    BY <1>1, <2>1, <2>2 DEF ItemLedgerRow, HoldSign, DeltaSign
<1>6. /\ Rows(w)' = Append(Rows(w), e) /\ req'[w] # Free
      /\ req'[w].phase = "working"
  <2>1. req'[w].rows = Append(op.rows, e) /\ req'[w].phase = op.phase
    BY <1>1, <1>2 DEF Typed, OrdTypeOK, OrderRequest
  <2>2. req'[w] # Free
    BY <1>1, <2>1 DEF Typed, OrdTypeOK, OrderRequest, Free
  <2> QED
    BY <1>1, <2>1, <2>2 DEF Rows
<1>7. \A v \in Worker \ {w} : req'[v] = req[v] /\ Rows(v)' = Rows(v)
  BY <1>2 DEF Typed, OrdTypeOK, Rows
<1>8. /\ \A s \in Sku \ {k} : stock'[s] = stock[s] /\ owner'[s] = owner[s]
      /\ stock'[k] = out.row /\ owner'[k] = w /\ saved' = saved
  BY <1>1, <1>2 DEF StockStep, Typed, DbTypeOK
<1>9. HoldersWork'
  BY <1>6, <1>7, <1>8 DEF Locking, HoldersWork
<1>10. ASSUME NEW s \in Sku, owner'[s] \notin Worker PROVE stock'[s] = saved'[s]
  BY <1>8, <1>10 DEF Locking, Pending
<1>11. ASSUME NEW v \in Worker, NEW s \in Sku
       PROVE  /\ Worth(Rows(v)', HoldIn(s)) =
                   IF owner'[s] = v THEN stock'[s].locked - saved'[s].locked ELSE 0
              /\ Worth(Rows(v)', DeltaIn(s)) =
                   IF owner'[s] = v THEN stock'[s].quantity - saved'[s].quantity ELSE 0
  <2>0. /\ Worth(Rows(v), HoldIn(s)) =
             IF owner[s] = v THEN stock[s].locked - saved[s].locked ELSE 0
        /\ Worth(Rows(v), DeltaIn(s)) =
             IF owner[s] = v THEN stock[s].quantity - saved[s].quantity ELSE 0
    BY DEF Locking, Pending
  <2>1. CASE v # w
    <3>1. owner'[s] = v <=> owner[s] = v
      BY <1>1, <1>8, <2>1, NobodyElse DEF CanLock
    <3>2. owner[s] = v => stock'[s] = stock[s]
      BY <1>1, <1>8, <2>1, NobodyElse DEF CanLock
    <3>3. Rows(v)' = Rows(v)
      BY <1>7, <2>1
    <3> HIDE DEF e, op, item
    <3> QED
      BY <2>0, <3>1, <3>2, <3>3, <1>8
  <2>2. CASE v = w /\ s # k
    <3>1. HoldIn(s)[e] = 0 /\ DeltaIn(s)[e] = 0
      BY <1>5, <2>2 DEF HoldIn, DeltaIn
    <3>2. Rows(w) \in Seq(LedgerRow)
      BY RowsType
    <3>3. stock'[s] = stock[s] /\ owner'[s] = owner[s] /\ saved'[s] = saved[s]
      BY <1>8, <2>2
    <3>4. Rows(v)' = Append(Rows(w), e) /\ v = w
      BY <1>6, <2>2
    <3> HIDE DEF e, op, item
    <3>5. /\ Worth(Append(Rows(w), e), HoldIn(s)) = Worth(Rows(w), HoldIn(s))
          /\ Worth(Append(Rows(w), e), DeltaIn(s)) = Worth(Rows(w), DeltaIn(s))
      BY <1>5, <3>1, <3>2, RowsAppend
    <3> QED
      BY <2>0, <3>3, <3>4, <3>5
  <2>3. CASE v = w /\ s = k
    <3>1. HoldIn(s)[e] = e.hold /\ DeltaIn(s)[e] = e.delta /\ e.hold \in Int /\ e.delta \in Int
      BY <1>5, <2>3 DEF HoldIn, DeltaIn, LedgerRow
    <3>2. Rows(w) \in Seq(LedgerRow)
      BY RowsType
    <3>3. /\ Worth(Rows(w), HoldIn(s)) = stock[s].locked - saved[s].locked
          /\ Worth(Rows(w), DeltaIn(s)) = stock[s].quantity - saved[s].quantity
      <4>1. CASE owner[s] = w
        BY <2>0, <2>3, <4>1
      <4>2. CASE owner[s] = NoTx
        <5>1. stock[s] = saved[s] /\ owner[s] # w
          BY <4>2, NobodyElse DEF Locking, Pending
        <5> QED
          BY <2>0, <2>3, <5>1, RowsType
      <4> QED
        BY <1>1, <2>3, <4>1, <4>2 DEF CanLock
    <3>4. /\ stock'[s].locked = stock[s].locked + e.hold
          /\ stock'[s].quantity = stock[s].quantity + e.delta
          /\ saved'[s] = saved[s] /\ owner'[s] = w
      BY <1>4, <1>5, <1>8, <2>3
    <3>5. /\ stock[s].locked \in Int /\ saved[s].locked \in Int
          /\ stock[s].quantity \in Int /\ saved[s].quantity \in Int
      BY RowsType
    <3>6. Rows(v)' = Append(Rows(w), e) /\ v = w
      BY <1>6, <2>3
    <3> HIDE DEF e, op, item
    <3>7. /\ Worth(Append(Rows(w), e), HoldIn(s)) = Worth(Rows(w), HoldIn(s)) + e.hold
          /\ Worth(Append(Rows(w), e), DeltaIn(s)) = Worth(Rows(w), DeltaIn(s)) + e.delta
      BY <1>5, <3>1, <3>2, RowsAppend
    <3> QED
      BY <3>1, <3>3, <3>4, <3>5, <3>6, <3>7
  <2> QED
    BY <2>1, <2>2, <2>3
<1>12. Pending'
  <2>1. \A v \in Worker, s \in Sku : HoldIn(s)' = HoldIn(s) /\ DeltaIn(s)' = DeltaIn(s)
    BY DEF HoldIn, DeltaIn
  <2> QED
    BY <1>10, <1>11, <2>1 DEF Pending
<1> QED
  BY <1>9, <1>12 DEF Locking

\* A worker that ends its transaction: what it wrote is committed or undone.
LEMMA WorkerDoneLocking ==
  ASSUME Typed, Locking, NEW w \in Worker, req' = [req EXCEPT ![w] = Free],
         \A s \in Sku :
           /\ owner'[s] = IF owner[s] = w THEN NoTx ELSE owner[s]
           /\ owner[s] = w => stock'[s] = saved'[s]
           /\ owner[s] # w => stock'[s] = stock[s] /\ saved'[s] = saved[s]
  PROVE  Locking'
<1>1. \A v \in Worker : req'[v] = IF v = w THEN Free ELSE req[v]
  BY DEF Typed, OrdTypeOK
<1>2. HoldersWork'
  BY <1>1, NobodyElse DEF Locking, HoldersWork
<1>3. ASSUME NEW s \in Sku, owner'[s] \notin Worker PROVE stock'[s] = saved'[s]
  BY <1>3 DEF Locking, Pending
<1>4. ASSUME NEW v \in Worker, NEW s \in Sku
      PROVE  /\ Worth(Rows(v)', HoldIn(s)) =
                  IF owner'[s] = v THEN stock'[s].locked - saved'[s].locked ELSE 0
             /\ Worth(Rows(v)', DeltaIn(s)) =
                  IF owner'[s] = v THEN stock'[s].quantity - saved'[s].quantity ELSE 0
  <2>1. CASE v = w
    <3>1. Rows(v)' = <<>> /\ owner'[s] # v
      BY <1>1, <2>1, NobodyElse DEF Rows
    <3> QED
      BY <3>1, WorthEmpty
  <2>2. CASE v # w
    <3>1. Rows(v)' = Rows(v)
      BY <1>1, <2>2 DEF Rows
    <3>2. owner'[s] = v <=> owner[s] = v
      BY <2>2, NobodyElse
    <3>3. owner[s] = v => stock'[s] = stock[s] /\ saved'[s] = saved[s]
      BY <2>2
    <3>4. /\ Worth(Rows(v), HoldIn(s)) =
               IF owner[s] = v THEN stock[s].locked - saved[s].locked ELSE 0
          /\ Worth(Rows(v), DeltaIn(s)) =
               IF owner[s] = v THEN stock[s].quantity - saved[s].quantity ELSE 0
      BY DEF Locking, Pending
    <3> QED
      BY <3>1, <3>2, <3>3, <3>4
  <2> QED
    BY <2>1, <2>2
<1>5. \A s \in Sku : HoldIn(s)' = HoldIn(s) /\ DeltaIn(s)' = DeltaIn(s)
  BY DEF HoldIn, DeltaIn
<1>6. Pending'
  BY <1>3, <1>4, <1>5 DEF Pending
<1> QED
  BY <1>2, <1>6 DEF Locking

\* A step that leaves the rows and the locks alone, and of each request what it
\* has written.
LEMMA SameLocking ==
  ASSUME Locking, UNCHANGED <<stock, saved, owner>>,
         \A v \in Worker : /\ Rows(v)' = Rows(v)
                           /\ req[v] # Free /\ req[v].phase = "working" =>
                                req'[v] # Free /\ req'[v].phase = "working"
  PROVE  Locking'
<1>1. HoldersWork'
  BY DEF Locking, HoldersWork
<1>2. \A s \in Sku : HoldIn(s)' = HoldIn(s) /\ DeltaIn(s)' = DeltaIn(s)
  BY DEF HoldIn, DeltaIn
<1>3. Pending'
  BY <1>2 DEF Locking, Pending
<1> QED
  BY <1>1, <1>3 DEF Locking

\* So every step of the order service shows what is pending in what is locked.
LEMMA OrdStepLocking ==
  ASSUME Typed, AllRowsRight, Locking, OrdStep
  PROVE  Locking'
<1>1. ASSUME NEW w \in Worker, Begin(w) PROVE Locking'
  <2>1. PICK o, phase, copy, effect : MayBegin(w, o) /\ Start(w, o, phase, copy, effect)
    BY <1>1, BeginShape
  <2> DEFINE new == Begun(o, phase, copy, effect)
  <2>2. /\ req[w] = Free /\ req' = [req EXCEPT ![w] = new]
        /\ UNCHANGED <<stock, saved, owner>>
    BY <2>1 DEF MayBegin, Start, Begun, dbVars
  <2>3. new.rows = <<>>
    BY DEF Begun
  <2> HIDE DEF new
  <2>4. \A v \in Worker : req'[v] = IF v = w THEN new ELSE req[v]
    BY <2>2 DEF Typed, OrdTypeOK
  <2>5. \A v \in Worker : Rows(v)' = Rows(v)
    BY <2>2, <2>3, <2>4 DEF Rows
  <2> QED
    BY <2>2, <2>4, <2>5, SameLocking
<1>2. ASSUME NEW o \in Order, NEW source, NEW type, NEW st, Create(o, source, type, st)
      PROVE  Locking'
  <2>1. UNCHANGED <<stock, saved, owner, req>>
    BY <1>2 DEF Create, dbVars
  <2>2. \A v \in Worker : Rows(v)' = Rows(v)
    BY <2>1 DEF Rows
  <2> QED
    BY <2>1, <2>2, SameLocking
<1>3. ASSUME NEW w \in Worker, ReadRow(w) PROVE Locking'
  <2>1. req[w] \in OrderRequest /\ req[w] # Free
    BY <1>3, RequestType DEF ReadRow, Free
  <2>2. /\ req'[w].rows = req[w].rows /\ req'[w].phase = req[w].phase
        /\ req'[w] # Free
    BY <1>3, <2>1 DEF ReadRow, Typed, OrdTypeOK, OrderRequest, Free
  <2>3. \A v \in Worker \ {w} : req'[v] = req[v]
    BY <1>3 DEF ReadRow, Typed, OrdTypeOK
  <2>4. \A v \in Worker : Rows(v)' = Rows(v)
    BY <2>1, <2>2, <2>3 DEF Rows
  <2>5. UNCHANGED <<stock, saved, owner>>
    BY <1>3 DEF ReadRow, dbVars
  <2> QED
    BY <2>2, <2>3, <2>4, <2>5, SameLocking
<1>4. ASSUME NEW w \in Worker, Save(w) PROVE Locking'
  <2>1. req' = [req EXCEPT ![w] = Free]
    BY <1>4 DEF Save
  <2>2. \A s \in Sku :
          /\ owner'[s] = IF owner[s] = w THEN NoTx ELSE owner[s]
          /\ owner[s] = w => stock'[s] = saved'[s]
          /\ owner[s] # w => stock'[s] = stock[s] /\ saved'[s] = saved[s]
    BY <1>4 DEF Save, CommitTx, Unlock
  <2> QED
    BY <2>1, <2>2, WorkerDoneLocking
<1>5. ASSUME NEW w \in Worker, StockFail(w) \/ SaveFail(w) \/ LockWaitFails(w)
      PROVE  Locking'
  <2>1. Abort(w)
    BY <1>5, AbortShape
  <2>2. \A s \in Sku :
          /\ owner'[s] = IF owner[s] = w THEN NoTx ELSE owner[s]
          /\ owner[s] = w => stock'[s] = saved'[s]
          /\ owner[s] # w => stock'[s] = stock[s] /\ saved'[s] = saved[s]
    BY <2>1 DEF Abort, RollbackTx, Unlock
  <2> QED
    BY <2>1, <2>2, WorkerDoneLocking DEF Abort
<1>6. ASSUME NEW w \in Worker, Delete(w) \/ Patch(w) PROVE Locking'
  <2>1. /\ req' = [req EXCEPT ![w] = Free] /\ req[w].phase # "working"
        /\ UNCHANGED <<stock, saved, owner>>
    BY <1>6 DEF Delete, Patch, dbVars
  <2>2. \A s \in Sku : owner[s] # w
    BY <2>1 DEF Locking, HoldersWork
  <2> QED
    BY <2>1, <2>2, WorkerDoneLocking
<1> QED
  BY <1>1, <1>2, <1>3, <1>4, <1>5, <1>6, StockStepLocking DEF OrdStep, Proceed

-----------------------------------------------------------------------------
(* What is committed *)

\* The ledger explains the committed holds, and the committed stock.
HoldsExplained ==
  \A s \in Sku : saved[s].locked = StartRow[s].locked + Worth(ledger, HoldIn(s))
StockExplained ==
  \A s \in Sku : saved[s].quantity = StartRow[s].quantity + Worth(ledger, DeltaIn(s))

\* Total and location rows move together.
AddsUp(r) ==
  /\ LockedAt(r) = r.locked
  /\ r.home # NoLocation \/ ~r.exists => QuantityAt(r) = r.quantity

AllAddUp == \A s \in Sku : AddsUp(stock[s]) /\ AddsUp(saved[s])

\* Save publishes what the ledger rows of the request say.
LEMMA SavedMoves ==
  ASSUME Typed, AllRowsRight, Locking, NEW w \in Worker, Save(w), NEW s \in Sku
  PROVE  /\ saved'[s].locked =
              saved[s].locked + HoldSign(req[w].effect) * Need(req[w].order, s)
         /\ saved'[s].quantity =
              saved[s].quantity + DeltaSign(req[w].effect) * Need(req[w].order, s)
         /\ saved'[s].locked = saved[s].locked + Worth(req[w].rows, HoldIn(s))
         /\ saved'[s].quantity = saved[s].quantity + Worth(req[w].rows, DeltaIn(s))
<1>1. /\ req[w] # Free /\ req[w].phase = "working" /\ ItemsDone(w)
      /\ saved'[s] = IF owner[s] = w THEN stock[s] ELSE saved[s]
  BY DEF Save, CommitTx, Free
<1>2. /\ Worth(req[w].rows, HoldIn(s)) =
           IF owner[s] = w THEN stock[s].locked - saved[s].locked ELSE 0
      /\ Worth(req[w].rows, DeltaIn(s)) =
           IF owner[s] = w THEN stock[s].quantity - saved[s].quantity ELSE 0
  BY <1>1 DEF Locking, Pending, Rows
<1>3. req[w].order \in Order
  BY <1>1, RequestType
<1>4. /\ Worth(req[w].rows, HoldIn(s)) = HoldSign(req[w].effect) * Need(req[w].order, s)
      /\ Worth(req[w].rows, DeltaIn(s)) = DeltaSign(req[w].effect) * Need(req[w].order, s)
  BY <1>1, <1>3, DoneRowsWorth
<1>5. /\ stock[s].locked \in Int /\ saved[s].locked \in Int
      /\ stock[s].quantity \in Int /\ saved[s].quantity \in Int
  BY RowsType
<1>6. /\ saved'[s].locked = saved[s].locked + Worth(req[w].rows, HoldIn(s))
      /\ saved'[s].quantity = saved[s].quantity + Worth(req[w].rows, DeltaIn(s))
  BY <1>1, <1>2, <1>5
<1> QED
  BY <1>4, <1>6

\* Every step but Save leaves ledger and committed stock alone.
LEMMA OrdStepCommits ==
  ASSUME Typed, OrdStep
  PROVE  UNCHANGED <<ledger, saved>> \/ \E w \in Worker : Save(w)
<1>1. ASSUME NEW w \in Worker, Begin(w) PROVE UNCHANGED <<ledger, saved>>
  <2>1. \E o, phase, copy, effect : Start(w, o, phase, copy, effect)
    BY <1>1, BeginShape
  <2> QED
    BY <2>1 DEF Start, dbVars
<1>2. ASSUME NEW o \in Order, NEW source, NEW type, NEW st, Create(o, source, type, st)
      PROVE  UNCHANGED <<ledger, saved>>
  BY <1>2 DEF Create, dbVars
<1>3. ASSUME NEW w \in Worker, Proceed(w) PROVE Save(w) \/ UNCHANGED <<ledger, saved>>
  BY <1>3 DEF Proceed, StockStep, StockFail, ReadRow, SaveFail, LockWaitFails, Delete,
              Patch, Abort, RollbackTx, dbVars
<1> QED
  BY <1>1, <1>2, <1>3 DEF OrdStep

\* Every step commits the stock that the ledger rows it commits account for.
LEMMA OrdStepExplained ==
  ASSUME Typed, AllRowsRight, Locking, OrdStep
  PROVE  (HoldsExplained => HoldsExplained') /\ (StockExplained => StockExplained')
<1>1. CASE UNCHANGED <<ledger, saved>>
  <2>1. \A s \in Sku : HoldIn(s)' = HoldIn(s) /\ DeltaIn(s)' = DeltaIn(s)
    BY DEF HoldIn, DeltaIn
  <2> QED
    BY <1>1, <2>1 DEF HoldsExplained, StockExplained
<1>2. ASSUME NEW w \in Worker, Save(w)
      PROVE  (HoldsExplained => HoldsExplained') /\ (StockExplained => StockExplained')
  <2>1. ledger' = ledger \o req[w].rows /\ req[w] # Free
    BY <1>2 DEF Save, Free
  <2>2. ledger \in Seq(LedgerRow) /\ req[w].rows \in Seq(LedgerRow)
    BY <2>1, RequestType DEF Typed, DbTypeOK
  <2>3. \A v \in [LedgerRow -> Int] :
          /\ Worth(ledger \o req[w].rows, v) = Worth(ledger, v) + Worth(req[w].rows, v)
          /\ Worth(ledger, v) \in Int /\ Worth(req[w].rows, v) \in Int
    BY <2>2, WorthConcat, WorthInt
  <2>4. ASSUME NEW s \in Sku
        PROVE  /\ saved[s].locked = StartRow[s].locked + Worth(ledger, HoldIn(s)) =>
                    saved'[s].locked = StartRow[s].locked + Worth(ledger', HoldIn(s))
               /\ saved[s].quantity = StartRow[s].quantity + Worth(ledger, DeltaIn(s)) =>
                    saved'[s].quantity = StartRow[s].quantity + Worth(ledger', DeltaIn(s))
    <3>1. /\ Worth(ledger', HoldIn(s)) =
               Worth(ledger, HoldIn(s)) + Worth(req[w].rows, HoldIn(s))
          /\ Worth(ledger', DeltaIn(s)) =
               Worth(ledger, DeltaIn(s)) + Worth(req[w].rows, DeltaIn(s))
          /\ Worth(ledger, HoldIn(s)) \in Int /\ Worth(req[w].rows, HoldIn(s)) \in Int
          /\ Worth(ledger, DeltaIn(s)) \in Int /\ Worth(req[w].rows, DeltaIn(s)) \in Int
      BY <2>1, <2>3, WeightsInt
    <3>2. /\ saved'[s].locked = saved[s].locked + Worth(req[w].rows, HoldIn(s))
          /\ saved'[s].quantity = saved[s].quantity + Worth(req[w].rows, DeltaIn(s))
      BY <1>2, SavedMoves
    <3>3. StartRow[s].locked \in Int /\ StartRow[s].quantity \in Int
      BY StockDbAssumption DEF Row
    <3> QED
      BY <3>1, <3>2, <3>3
  <2>5. \A s \in Sku : HoldIn(s)' = HoldIn(s) /\ DeltaIn(s)' = DeltaIn(s)
    BY DEF HoldIn, DeltaIn
  <2> QED
    BY <2>4, <2>5 DEF HoldsExplained, StockExplained
<1> QED
  BY <1>1, <1>2, OrdStepCommits

\* Every step moves totals and location rows together.
LEMMA OrdStepAddUp ==
  ASSUME Typed, AllAddUp, OrdStep
  PROVE  AllAddUp'
<1>1. ASSUME \A s \in Sku : stock'[s] \in {stock[s], saved[s]} /\ saved'[s] \in {stock[s], saved[s]}
      PROVE  AllAddUp'
  BY <1>1 DEF AllAddUp
<1>2. ASSUME NEW w \in Worker, StockStep(w) PROVE AllAddUp'
  <2> DEFINE k == NextItem(w).sku
             q == NextItem(w).quantity
             e == req[w].effect
  <2>1. /\ e \in Effect \ {"none"} /\ k \in Sku /\ q \in Nat /\ stock[k] \in Row
    BY <1>2, AtItemType DEF Typed, DbTypeOK, StockStep, Item
  <2>2. PICK out \in ItemOutcomes(w) : stock' = [stock EXCEPT ![k] = out.row]
    BY <1>2 DEF StockStep
  <2>3. /\ out.row.exists = stock[k].exists /\ out.row.home = stock[k].home
        /\ out.row.quantity = stock[k].quantity + DeltaSign(e) * q
        /\ out.row.locked = stock[k].locked + HoldSign(e) * q
        /\ QuantityAt(out.row) = QuantityAt(stock[k]) + DeltaSign(e) * q
        /\ LockedAt(out.row) = LockedAt(stock[k]) + HoldSign(e) * q
    BY <2>1, OutcomesTotals DEF ItemOutcomes
  <2>4. AddsUp(stock[k])
    BY <2>1 DEF AllAddUp
  <2> HIDE DEF k, q, e
  <2>5. AddsUp(out.row)
    BY <2>3, <2>4 DEF AddsUp
  <2>6. \A s \in Sku : stock'[s] = IF s = k THEN out.row ELSE stock[s]
    BY <2>2 DEF Typed, DbTypeOK
  <2>7. saved' = saved
    BY <1>2 DEF StockStep
  <2> QED
    BY <2>5, <2>6, <2>7 DEF AllAddUp
<1>3. ASSUME NEW w \in Worker, Save(w) PROVE AllAddUp'
  <2>1. \A s \in Sku : stock'[s] = stock[s] /\ saved'[s] \in {stock[s], saved[s]}
    BY <1>3 DEF Save, CommitTx
  <2> QED
    BY <1>1, <2>1
<1>4. ASSUME NEW w \in Worker, StockFail(w) \/ SaveFail(w) \/ LockWaitFails(w)
      PROVE  AllAddUp'
  <2>1. \A s \in Sku : saved'[s] = saved[s] /\ stock'[s] \in {stock[s], saved[s]}
    BY <1>4, AbortShape DEF Abort, RollbackTx
  <2> QED
    BY <1>1, <2>1
<1>5. ASSUME NEW w \in Worker, Begin(w) PROVE UNCHANGED <<stock, saved>>
  <2>1. \E o, phase, copy, effect : Start(w, o, phase, copy, effect)
    BY <1>5, BeginShape
  <2> QED
    BY <2>1 DEF Start, dbVars
<1>6. ASSUME UNCHANGED <<stock, saved>> PROVE AllAddUp'
  BY <1>6 DEF AllAddUp
<1>7. ASSUME NEW w \in Worker, ReadRow(w) \/ Delete(w) \/ Patch(w)
      PROVE  UNCHANGED <<stock, saved>>
  BY <1>7 DEF ReadRow, Delete, Patch, dbVars
<1>8. ASSUME NEW o \in Order, NEW source, NEW type, NEW st, Create(o, source, type, st)
      PROVE  UNCHANGED <<stock, saved>>
  BY <1>8 DEF Create, dbVars
<1> QED
  BY <1>2, <1>3, <1>4, <1>5, <1>6, <1>7, <1>8 DEF OrdStep, Proceed

-----------------------------------------------------------------------------
(* Nothing is promised beyond what is there *)

\* Ending a transaction, either way, moves covered rows about.
LEMMA CommitTxCovered ==
  ASSUME NEW t, StockCovered, \A s \in Sku : RowCovered(stock'[s]), CommitTx(t)
  PROVE  StockCovered'
BY DEF CommitTx, StockCovered

\* A rollback goes back to covered rows.
LEMMA RollbackTxCovered ==
  ASSUME NEW t, StockCovered, RollbackTx(t)
  PROVE  StockCovered'
BY DEF RollbackTx, StockCovered

\* Locking, releasing and deducting keep the row they work on covered.
LEMMA StockStepCovered ==
  ASSUME Typed, StockCovered, NEW w \in Worker, StockStep(w)
  PROVE  StockCovered'
<1> DEFINE s == NextItem(w).sku
<1>1. /\ req[w].effect \in Effect \ {"none"}
      /\ s \in Sku /\ NextItem(w).quantity \in Nat
  BY AtItemType DEF Typed, StockStep, Item
<1>2. PICK out \in ItemOutcomes(w) : stock' = [stock EXCEPT ![s] = out.row]
  BY DEF StockStep
<1>3. stock[s] \in Row /\ stock \in [Sku -> Row] /\ RowCovered(stock[s])
  BY <1>1 DEF Typed, DbTypeOK, StockCovered
<1>4. RowCovered(out.row)
  BY <1>1, <1>3, OutcomesKeepCovered DEF ItemOutcomes
<1> QED
  BY <1>2, <1>3, <1>4 DEF StockStep, StockCovered

\* Every step of the order service keeps every row covered.
LEMMA OrdStepCovered ==
  ASSUME Typed, StockCovered, OrdStep
  PROVE  StockCovered'
<1>1. ASSUME UNCHANGED <<stock, saved>> PROVE StockCovered'
  BY <1>1 DEF StockCovered
<1>2. ASSUME NEW w \in Worker, Begin(w) PROVE UNCHANGED <<stock, saved>>
  <2>1. \E o, phase, copy, effect : Start(w, o, phase, copy, effect)
    BY <1>2, BeginShape
  <2> QED
    BY <2>1 DEF Start, dbVars
<1>3. ASSUME NEW w \in Worker, Proceed(w) PROVE StockCovered'
  <2>1. CASE StockStep(w)
    BY <2>1, StockStepCovered
  <2>2. CASE Save(w)
    <3>1. \A s \in Sku : RowCovered(stock'[s])
      BY <2>2 DEF Save, StockCovered
    <3> QED
      BY <2>2, <3>1, CommitTxCovered DEF Save
  <2>3. CASE StockFail(w) \/ SaveFail(w) \/ LockWaitFails(w)
    BY <2>3, AbortShape, RollbackTxCovered DEF Abort
  <2>4. CASE ReadRow(w) \/ Delete(w) \/ Patch(w)
    BY <2>4, <1>1 DEF ReadRow, Delete, Patch, dbVars
  <2> QED
    BY <1>3, <2>1, <2>2, <2>3, <2>4 DEF Proceed
<1>4. ASSUME NEW o \in Order, NEW source, NEW type, NEW st, Create(o, source, type, st)
      PROVE  UNCHANGED <<stock, saved>>
  BY <1>4 DEF Create, dbVars
<1> QED
  BY <1>1, <1>2, <1>3, <1>4 DEF OrdStep

-----------------------------------------------------------------------------
(* What is locked is what the orders hold *)

\* What the orders whose stockLocked is set need of s.
HeldNeed(s) == [o \in Order |-> IF orders[o].held THEN Need(o, s) ELSE 0]

\* lockedQuantity is what the orders hold, over what was locked at the start.
Promises == \A s \in Sku : saved[s].locked = StartRow[s].locked + SumFunction(HeldNeed(s))

\* What the orders hold is a number.
LEMMA HeldNeedType ==
  ASSUME Typed, IsFiniteSet(Order), NEW s \in Sku
  PROVE  HeldNeed(s) \in [Order -> Int] /\ SumFunction(HeldNeed(s)) \in Int
<1>1. \A o \in Order : Need(o, s) \in Nat
  BY NeedIsAsked
<1>2. HeldNeed(s) \in [Order -> Int]
  BY <1>1 DEF HeldNeed
<1> QED
  BY <1>2, SumInt

\* Without a change of stockLocked or of what is committed.
LEMMA PromisesKept ==
  ASSUME Promises, UNCHANGED saved, \A o \in Order : orders'[o].held = orders[o].held
  PROVE  Promises'
<1>1. \A s \in Sku : HeldNeed(s)' = HeldNeed(s)
  BY DEF HeldNeed, Need
<1> QED
  BY <1>1 DEF Promises

\* save changes stockLocked by what its effect did to the stock.
LEMMA SaveHeld ==
  ASSUME Typed, Steady, NEW w \in Worker, Save(w)
  PROVE  LET o == req[w].order
         IN  /\ o \in Order /\ req[w].copy \in OrderRow /\ req[w].effect \in Effect
             /\ orders' = [orders EXCEPT ![o] = req[w].copy]
             /\ orders' \in [Order -> OrderRow]
             /\ HoldSign(req[w].effect) =
                  (IF orders'[o].held THEN 1 ELSE 0) - (IF orders[o].held THEN 1 ELSE 0)
             /\ req[w].effect = "deduct" => orders[o].held /\ ~orders'[o].held
             /\ req[w].effect = "release" => orders[o].held /\ ~orders'[o].held
             /\ req[w].effect = "lock" => ~orders[o].held /\ orders'[o].held
             /\ req[w].effect = "none" => orders'[o].held = orders[o].held
<1> DEFINE op == req[w]
           o == op.order
<1>1. op # Free /\ o \in Order /\ orders' = [orders EXCEPT ![o] = op.copy]
  BY SaveIsCopy
<1>2. op.copy \in OrderRow /\ orders[o] \in OrderRow /\ op.effect \in Effect
  BY <1>1, RequestType
<1>3. orders'[o] = op.copy /\ orders' \in [Order -> OrderRow]
  BY <1>1, <1>2 DEF Typed, OrdTypeOK
<1>4. Fits(op, orders[o]) /\ op.phase = "working"
  BY <1>1 DEF Steady, Save
<1>5. op.copy.held \in BOOLEAN /\ orders[o].held \in BOOLEAN
  BY <1>2 DEF OrderRow
<1>6. CASE op.effect = "lock"
  BY <1>1, <1>2, <1>3, <1>4, <1>6 DEF Fits, HoldSign
<1>7. CASE op.effect \in {"release", "deduct"}
  BY <1>1, <1>2, <1>3, <1>4, <1>7 DEF Fits, HoldSign
<1>8. CASE op.effect = "none"
  BY <1>1, <1>2, <1>3, <1>4, <1>5, <1>8 DEF Fits, HoldSign
<1> QED
  BY <1>2, <1>6, <1>7, <1>8 DEF Effect

\* Save moves lockedQuantity by what its order holds more, or less.
LEMMA SavePromises ==
  ASSUME Typed, IsFiniteSet(Order), AllRowsRight, Steady, Locking, Promises,
         NEW w \in Worker, Save(w)
  PROVE  Promises'
<1> DEFINE o == req[w].order
           c == HoldSign(req[w].effect)
<1>1. /\ o \in Order /\ orders' = [orders EXCEPT ![o] = req[w].copy]
      /\ orders' \in [Order -> OrderRow]
      /\ c = (IF orders'[o].held THEN 1 ELSE 0) - (IF orders[o].held THEN 1 ELSE 0)
  BY SaveHeld
<1>2. SUFFICES ASSUME NEW s \in Sku
               PROVE  saved'[s].locked = StartRow[s].locked + SumFunction(HeldNeed(s)')
  BY DEF Promises
<1> DEFINE f == HeldNeed(s)
           h == HeldNeed(s)'
<1>3. saved'[s].locked = saved[s].locked + c * Need(o, s)
  BY SavedMoves
<1>4. saved[s].locked = StartRow[s].locked + SumFunction(f)
  BY DEF Promises
<1>5. h = [p \in Order |-> IF orders'[p].held THEN Need(p, s) ELSE 0]
  BY DEF HeldNeed, Need
<1>6. \A p \in Order : Need(p, s) \in Nat
  BY NeedIsAsked
<1>7. f \in [Order -> Int] /\ h \in [Order -> Int] /\ SumFunction(f) \in Int
  BY <1>5, <1>6, HeldNeedType
<1>8. \A p \in Order \ {o} : h[p] = f[p]
  BY <1>1, <1>5 DEF HeldNeed, Typed, OrdTypeOK
<1>9. /\ h[o] = IF orders'[o].held THEN Need(o, s) ELSE 0
      /\ f[o] = IF orders[o].held THEN Need(o, s) ELSE 0
  BY <1>1, <1>5 DEF HeldNeed
<1>10. StartRow[s].locked \in Int /\ Need(o, s) \in Nat
  BY <1>1, <1>6, StockDbAssumption DEF Row
<1>0. c \in {-1, 0, 1} /\ IsFiniteSet(Order) /\ o \in Order
  BY <1>1 DEF HoldSign
<1>14. f \in [Order -> Int]
  BY <1>7
<1>15. h \in [Order -> Int]
  BY <1>7
<1> HIDE DEF f, h, c, o
<1>11. SumFunction(h) = SumFunction(f) - f[o] + h[o]
  BY ONLY <1>0, <1>8, <1>14, <1>15, SumChange
<1>12. h[o] - f[o] = c * Need(o, s)
  <2>1. CASE orders'[o].held /\ ~orders[o].held
    BY <1>1, <1>9, <1>10, <2>1
  <2>2. CASE ~orders'[o].held /\ orders[o].held
    BY <1>1, <1>9, <1>10, <2>2
  <2>3. CASE orders'[o].held <=> orders[o].held
    BY <1>1, <1>9, <1>10, <2>3
  <2> QED
    BY <2>1, <2>2, <2>3
<1>13. f[o] \in Int /\ h[o] \in Int
  BY <1>1, <1>7
<1>16. saved'[s].locked = StartRow[s].locked + SumFunction(h)
  BY <1>0, <1>3, <1>4, <1>7, <1>10, <1>11, <1>12, <1>13
<1> QED
  BY <1>16 DEF h

\* Only save changes stockLocked of an order.
LEMMA OrdStepHeld ==
  ASSUME Typed, OrdStep, ~ \E w \in Worker : Save(w)
  PROVE  \A o \in Order : orders'[o].held = orders[o].held
<1>1. ASSUME NEW w \in Worker, Begin(w) PROVE UNCHANGED orders
  <2>1. \E o, phase, copy, effect : Start(w, o, phase, copy, effect)
    BY <1>1, BeginShape
  <2> QED
    BY <2>1 DEF Start
<1>2. ASSUME NEW p \in Order, NEW source, NEW type, NEW st, Create(p, source, type, st)
      PROVE  \A o \in Order : orders'[o].held = orders[o].held
  <2>1. \A o \in Order \ {p} : orders'[o] = orders[o]
    BY <1>2 DEF Create, Typed, OrdTypeOK
  <2>2. orders'[p].held = FALSE /\ orders[p].held = FALSE
    BY <1>2 DEF Create, Unborn, Typed, OrdTypeOK
  <2> QED
    BY <2>1, <2>2
<1>3. ASSUME NEW w \in Worker, Delete(w) \/ Patch(w)
      PROVE  \A o \in Order : orders'[o].held = orders[o].held
  <2>1. \A o \in Order : orders[o] \in OrderRow
    BY DEF Typed, OrdTypeOK
  <2> QED
    BY <1>3, <2>1 DEF Delete, Patch, Typed, OrdTypeOK, OrderRow
<1>4. ASSUME NEW w \in Worker,
             StockStep(w) \/ ReadRow(w) \/ StockFail(w) \/ SaveFail(w) \/ LockWaitFails(w)
      PROVE  UNCHANGED orders
  BY <1>4, AbortShape DEF StockStep, ReadRow, Abort
<1> QED
  BY <1>1, <1>2, <1>3, <1>4 DEF OrdStep, Proceed

\* So in every step lockedQuantity stays what the orders hold.
LEMMA OrdStepPromises ==
  ASSUME Typed, IsFiniteSet(Order), AllRowsRight, Steady, Locking, Promises, OrdStep
  PROVE  Promises'
<1>1. CASE \E w \in Worker : Save(w)
  BY <1>1, SavePromises
<1>2. CASE ~ \E w \in Worker : Save(w)
  BY <1>2, OrdStepCommits, OrdStepHeld, PromisesKept
<1> QED
  BY <1>1, <1>2

-----------------------------------------------------------------------------
(* The reservation book *)

Holding == {o \in Order : orders[o].held}

\* The book adds up as the order service does.
LEMMA BookSum ==
  ASSUME NEW f
  PROVE  Book!SumFunction(f) = SumFunction(f)
BY DEF Book!SumFunction, Book!SumFunctionOnSet, Book!FoldFunctionOnSet,
       Book!MapThenFoldSet, SumFunction, SumFunctionOnSet, FoldFunctionOnSet,
       MapThenFoldSet

\* What the book has promised is what HeldNeed adds up.
LEMMA PromisedIsHeld ==
  ASSUME Typed, IsFiniteSet(Order), NEW s \in Sku
  PROVE  Book!Promised(s) = SumFunction(HeldNeed(s))
<1> DEFINE T == Holding
           f == [o \in T |-> Need(o, s)]
           h == HeldNeed(s)
<1>1. Book!Promised(s) = SumFunction(f)
  <2>1. \A o \in T : [p \in Order |-> [t \in Sku |-> Need(p, t)]][o][s] = Need(o, s)
    BY DEF Holding
  <2>2. [o \in T |-> [p \in Order |-> [t \in Sku |-> Need(p, t)]][o][s]] = f
    BY <2>1
  <2>3. Book!Promised(s) = Book!SumFunction(f)
    BY <2>2, Zenon DEF Book!Promised, Holding
  <2> QED
    BY <2>3, BookSum, Zenon
<1>2. T \in SUBSET Order /\ f \in [T -> Int]
  BY NeedIsAsked DEF Holding
<1>3. IsFiniteSet(Order) /\ h \in [Order -> Int]
  BY HeldNeedType
<1>4. \A o \in Order : h[o] = IF o \in T THEN f[o] ELSE 0
  BY DEF HeldNeed, Holding
<1> HIDE DEF T, f, h
<1>5. SumFunction(f) = SumFunction(h)
  <2>1. IsFiniteSet(Order) /\ T \in SUBSET Order
    BY <1>2, <1>3
  <2>2. f \in [T -> Int]
    BY <1>2
  <2>3. h \in [Order -> Int]
    BY <1>3
  <2> QED
    BY ONLY <2>1, <2>2, <2>3, <1>4, SumSelected
<1> QED
  BY <1>1, <1>5 DEF h

\* What is promised and more is locked, and what is locked is there.
LEMMA PromisedIsThere ==
  ASSUME Typed, IsFiniteSet(Order), Promises, StockCovered, NEW s \in Sku
  PROVE  /\ Book!Promised(s) \in Int /\ Book!Promised(s) <= saved[s].locked
         /\ saved[s].locked <= saved[s].quantity
         /\ saved[s].locked \in Int /\ saved[s].quantity \in Int
<1>1. Book!Promised(s) = SumFunction(HeldNeed(s)) /\ SumFunction(HeldNeed(s)) \in Int
  BY PromisedIsHeld, HeldNeedType
<1>2. saved[s].locked = StartRow[s].locked + SumFunction(HeldNeed(s))
  BY DEF Promises
<1>3. StartRow[s].locked \in Int /\ 0 <= StartRow[s].locked
  BY StockDbAssumption DEF Row, RowCovered, Covered
<1>4. saved[s].locked \in Int /\ saved[s].quantity \in Int
  BY RowsType DEF Typed, DbTypeOK, Row
<1>5. saved[s].locked <= saved[s].quantity
  BY DEF StockCovered, RowCovered, Covered
<1> QED
  BY <1>1, <1>2, <1>3, <1>4, <1>5

\* The three moves of an order are the book's.
LEMMA MoveOfBook ==
  ASSUME NEW p \in Order, Book!Reserve(p) \/ Book!Release(p) \/ Book!Ship(p)
  PROVE  Book!OrderMove
BY DEF Book!OrderMove

\* The order whose request is saved makes a move of the book, or none.
LEMMA SaveMovesBook ==
  ASSUME Typed, IsFiniteSet(Order), AllRowsRight, Steady, Locking, Promises,
         StockCovered, StockCovered', NEW w \in Worker, Save(w)
  PROVE  Book!OrderMove \/ UNCHANGED Book!bookVars
<1>0. PICK o \in Order : o = req[w].order
  BY SaveHeld
<1> DEFINE e == req[w].effect
           onHand == [s \in Sku |-> saved[s].quantity]
           need == [p \in Order |-> [s \in Sku |-> Need(p, s)]]
<1>1. /\ o \in Order /\ e \in Effect
      /\ orders' = [orders EXCEPT ![o] = req[w].copy]
      /\ e \in {"deduct", "release"} => orders[o].held /\ ~orders'[o].held
      /\ e = "lock" => ~orders[o].held /\ orders'[o].held
      /\ e = "none" => orders'[o].held = orders[o].held
  BY <1>0, SaveHeld
<1>2. \A p \in Order \ {o} : orders'[p] = orders[p]
  BY <1>1 DEF Typed, OrdTypeOK
<1>3. \A s \in Sku :
        /\ saved'[s].quantity = saved[s].quantity + DeltaSign(e) * Need(o, s)
        /\ saved'[s].locked = saved[s].locked + HoldSign(e) * Need(o, s)
  BY <1>0, SavedMoves
<1>4. \A s \in Sku : Need(o, s) \in Nat /\ need[o][s] = Need(o, s)
  BY <1>1, NeedIsAsked
<1>5. \A s \in Sku : /\ saved[s].locked \in Int /\ saved[s].quantity \in Int
                     /\ Book!Promised(s) \in Int /\ Book!Promised(s) <= saved[s].locked
  BY PromisedIsThere
<1>6. \A s \in Sku : saved'[s].locked <= saved'[s].quantity
  BY DEF StockCovered, RowCovered, Covered
<1>7. e # "deduct" => onHand' = onHand
  <2> SUFFICES ASSUME e # "deduct", NEW s \in Sku
               PROVE  saved'[s].quantity = saved[s].quantity
    OBVIOUS
  <2>1. DeltaSign(e) = 0
    BY DEF DeltaSign
  <2>2. Need(o, s) \in Nat /\ saved[s].quantity \in Int
    BY <1>4, <1>5
  <2>3. saved'[s].quantity = saved[s].quantity + DeltaSign(e) * Need(o, s)
    BY <1>3
  <2> QED
    BY ONLY <2>1, <2>2, <2>3
<1>8. CASE e = "lock"
  <2>1. Holding' = Holding \union {o} /\ o \notin Holding
    BY <1>1, <1>2, <1>8 DEF Holding
  <2>2. ASSUME NEW s \in Sku PROVE saved[s].quantity - Book!Promised(s) >= need[o][s]
    <3> DEFINE p == Book!Promised(s)
               n == Need(o, s)
    <3>1. /\ n \in Nat /\ need[o][s] = n /\ p \in Int /\ p <= saved[s].locked
          /\ saved[s].locked \in Int /\ saved[s].quantity \in Int
          /\ saved'[s].locked <= saved'[s].quantity
      BY <1>4, <1>5, <1>6
    <3>2. /\ saved'[s].quantity = saved[s].quantity + 0 * n
          /\ saved'[s].locked = saved[s].locked + 1 * n
      BY <1>3, <1>8 DEF DeltaSign, HoldSign
    <3> HIDE DEF p, n
    <3>3. saved[s].quantity - p >= n
      BY ONLY <3>1, <3>2
    <3> QED
      BY <3>1, <3>3 DEF p
  <2>3. Book!Reserve(o)
    BY <1>7, <1>8, <2>1, <2>2 DEF Book!Reserve, Holding
  <2>4. Book!OrderMove
    BY <1>1, <2>3, MoveOfBook
  <2> QED
    BY <2>4
<1>9. CASE e = "release"
  <2>1. Holding' = Holding \ {o} /\ o \in Holding
    BY <1>1, <1>2, <1>9 DEF Holding
  <2>2. Book!Release(o)
    BY <1>7, <1>9, <2>1 DEF Book!Release, Holding
  <2>3. Book!OrderMove
    BY <1>1, <2>2, MoveOfBook
  <2> QED
    BY <2>3
<1>10. CASE e = "deduct"
  <2>1. Holding' = Holding \ {o} /\ o \in Holding
    BY <1>1, <1>2, <1>10 DEF Holding
  <2>2. ASSUME NEW s \in Sku PROVE saved'[s].quantity = saved[s].quantity - Need(o, s)
    <3>1. Need(o, s) \in Nat /\ saved[s].quantity \in Int
      BY <1>4, <1>5
    <3>2. saved'[s].quantity = saved[s].quantity + (-1) * Need(o, s)
      BY <1>3, <1>10 DEF DeltaSign
    <3> QED
      BY ONLY <3>1, <3>2
  <2>3. onHand' = [s \in Sku |-> onHand[s] - need[o][s]]
    BY <1>4, <2>2
  <2>4. Book!Ship(o)
    BY <2>1, <2>3 DEF Book!Ship, Holding
  <2>5. Book!OrderMove
    BY <1>1, <2>4, MoveOfBook
  <2> QED
    BY <2>5
<1>11. CASE e = "none"
  <2>1. Holding' = Holding
    BY <1>1, <1>2, <1>11 DEF Holding
  <2>2. UNCHANGED Book!bookVars
    BY <1>7, <1>11, <2>1 DEF Book!bookVars, Holding
  <2> QED
    BY <2>2
<1> QED
  BY <1>1, <1>8, <1>9, <1>10, <1>11 DEF Effect

\* So does every step of the order service.
LEMMA OrdStepMovesBook ==
  ASSUME Typed, IsFiniteSet(Order), AllRowsRight, Steady, Locking, Promises,
         StockCovered, StockCovered', OrdStep
  PROVE  Book!OrderMove \/ UNCHANGED Book!bookVars
<1>1. CASE \E w \in Worker : Save(w)
  BY <1>1, SaveMovesBook
<1>2. CASE ~ \E w \in Worker : Save(w)
  <2>1. UNCHANGED saved /\ \A o \in Order : orders'[o].held = orders[o].held
    BY <1>2, OrdStepCommits, OrdStepHeld
  <2>2. Holding' = Holding
    BY <2>1 DEF Holding
  <2> QED
    BY <2>1, <2>2 DEF Book!bookVars, Holding
<1> QED
  BY <1>1, <1>2

-----------------------------------------------------------------------------
(* Start, crash and standing still *)

\* Requests and locks gone, nothing is pending.
LEMMA AllFreeLocking ==
  ASSUME \A w \in Worker : req[w] = Free, \A s \in Sku : owner[s] \notin Worker,
         \A s \in Sku : stock[s] = saved[s] /\ saved[s] \in Row
  PROVE  Locking
<1>1. \A w \in Worker : Rows(w) = <<>>
  BY DEF Rows
<1>2. \A v : Worth(<<>>, v) = 0
  BY WorthEmpty
<1>3. Pending
  BY <1>1, <1>2 DEF Pending
<1> QED
  BY <1>3 DEF Locking, HoldersWork

LEMMA CrashLocking ==
  ASSUME Typed, RollbackAll, req' = [w \in Worker |-> Free]
  PROVE  Locking'
<1>1. \A w \in Worker : req'[w] = Free
  OBVIOUS
<1>2. \A s \in Sku : owner'[s] \notin Worker
  BY NobodyElse DEF RollbackAll
<1>3. \A s \in Sku : stock'[s] = saved'[s] /\ saved'[s] \in Row
  BY DEF RollbackAll, Typed, DbTypeOK
<1>4. \A w \in Worker : Rows(w)' = <<>>
  BY <1>1 DEF Rows
<1>5. \A v : Worth(<<>>, v) = 0
  BY WorthEmpty
<1>6. \A s \in Sku : HoldIn(s)' = HoldIn(s) /\ DeltaIn(s)' = DeltaIn(s)
  BY DEF HoldIn, DeltaIn
<1>7. Pending'
  BY <1>2, <1>3, <1>4, <1>5, <1>6 DEF Pending
<1> QED
  BY <1>1, <1>2, <1>7 DEF Locking, HoldersWork

\* What a crash leaves of the stock and of the books.
LEMMA CrashKeeps ==
  ASSUME Typed, RollbackAll, req' = [w \in Worker |-> Free], UNCHANGED orders
  PROVE  /\ Typed'
         /\ AllRowsRight'
         /\ StockCovered => StockCovered'
         /\ HoldsExplained => HoldsExplained'
         /\ StockExplained => StockExplained'
         /\ AllAddUp => AllAddUp'
         /\ Promises => Promises'
<1>1. Typed'
  BY DEF Typed, RollbackAll, DbTypeOK, OrdTypeOK
<1>2. AllRowsRight'
  BY DEF AllRowsRight
<1>3. StockCovered => StockCovered'
  BY DEF RollbackAll, StockCovered
<1>4. UNCHANGED <<saved, ledger>> /\ stock' = saved
  BY DEF RollbackAll
<1>5. \A s \in Sku : HoldIn(s)' = HoldIn(s) /\ DeltaIn(s)' = DeltaIn(s)
  BY DEF HoldIn, DeltaIn
<1>6. (HoldsExplained => HoldsExplained') /\ (StockExplained => StockExplained')
  BY <1>4, <1>5 DEF HoldsExplained, StockExplained
<1>7. AllAddUp => AllAddUp'
  BY <1>4 DEF AllAddUp
<1>8. Promises => Promises'
  BY <1>4, PromisesKept
<1> QED
  BY <1>1, <1>2, <1>3, <1>6, <1>7, <1>8

LEMMA StartKeeps ==
  ASSUME DbInit, OrdInit
  PROVE  /\ Typed /\ OrderBooks /\ Locking /\ StockCovered
         /\ HoldsExplained /\ StockExplained
         /\ IsFiniteSet(Order) => Promises
<1>1. Typed /\ OrderBooks
  BY StartOrderBooks
<1>2. saved = StartRow /\ stock = StartRow /\ ledger = <<>>
  BY DEF DbInit
<1>3. Locking
  <2>1. \A s \in Sku : owner[s] \notin Worker
    BY NobodyElse DEF DbInit
  <2>2. \A s \in Sku : stock[s] = saved[s] /\ saved[s] \in Row
    BY <1>2, StockDbAssumption
  <2>3. \A w \in Worker : req[w] = Free
    BY DEF OrdInit
  <2> QED
    BY <2>1, <2>2, <2>3, AllFreeLocking
<1>4. StockCovered
  BY <1>2, StockDbAssumption DEF StockCovered
<1>5. HoldsExplained /\ StockExplained
  <2>1. \A v : Worth(<<>>, v) = 0
    BY WorthEmpty
  <2>2. \A s \in Sku : StartRow[s].locked \in Int /\ StartRow[s].quantity \in Int
    BY StockDbAssumption DEF Row
  <2> QED
    BY <1>2, <2>1, <2>2 DEF HoldsExplained, StockExplained
<1>6. ASSUME IsFiniteSet(Order), NEW s \in Sku
      PROVE  saved[s].locked = StartRow[s].locked + SumFunction(HeldNeed(s))
  <2>1. HeldNeed(s) \in [Order -> Int]
    BY <1>1, <1>6, HeldNeedType
  <2>2. \A o \in Order : HeldNeed(s)[o] = 0
    BY DEF HeldNeed, OrdInit, Unborn
  <2>3. SumFunction(HeldNeed(s)) = 0
    BY <1>6, <2>1, <2>2, SumZero
  <2>4. StartRow[s].locked \in Int
    BY StockDbAssumption DEF Row
  <2> QED
    BY <1>2, <2>3, <2>4
<1> QED
  BY <1>1, <1>3, <1>4, <1>5, <1>6 DEF Promises

\* A step of somebody else, or none.
LEMMA StillKeeps ==
  ASSUME UNCHANGED ordVars
  PROVE  /\ Typed => Typed'
         /\ AllRowsRight => AllRowsRight'
         /\ OrderBooks => OrderBooks'
         /\ Locking => Locking'
         /\ StockCovered => StockCovered'
         /\ HoldsExplained => HoldsExplained'
         /\ StockExplained => StockExplained'
         /\ AllAddUp => AllAddUp'
         /\ Promises => Promises'
<1>1. UNCHANGED <<stock, saved, owner, ledger, status, orders, req>>
  BY DEF ordVars, dbVars
<1>2. \A s \in Sku : HoldIn(s)' = HoldIn(s) /\ DeltaIn(s)' = DeltaIn(s)
  BY DEF HoldIn, DeltaIn
<1>3. \A o \in Order, s \in Sku : HoldOf(o, s)' = HoldOf(o, s) /\ DeltaOf(o, s)' = DeltaOf(o, s)
  BY DEF HoldOf, DeltaOf
<1>4. \A w \in Worker : Rows(w)' = Rows(w)
  BY <1>1 DEF Rows
<1>5. (Typed => Typed') /\ (AllRowsRight => AllRowsRight')
  BY <1>1 DEF Typed, DbTypeOK, OrdTypeOK, AllRowsRight
<1>6. (Alone => Alone') /\ (Steady => Steady')
  BY <1>1 DEF Alone, Steady
<1>7. BooksRight => BooksRight'
  BY <1>1 DEF BooksRight
<1>8. OrderBooks => OrderBooks'
  BY <1>5, <1>6, <1>7 DEF OrderBooks
<1>9. Locking => Locking'
  BY <1>1, <1>4, SameLocking
<1>10. (StockCovered => StockCovered') /\ (AllAddUp => AllAddUp')
  BY <1>1 DEF StockCovered, AllAddUp
<1>11. (HoldsExplained => HoldsExplained') /\ (StockExplained => StockExplained')
  BY <1>1, <1>2 DEF HoldsExplained, StockExplained
<1>12. Promises => Promises'
  BY <1>1, PromisesKept
<1> QED
  BY <1>5, <1>8, <1>9, <1>10, <1>11, <1>12

-----------------------------------------------------------------------------
(* The theorems about the order service on its own *)

\* True however many requests are in flight for one order ...
OrdInv == Typed /\ AllRowsRight /\ Locking /\ StockCovered /\ HoldsExplained /\ StockExplained

\* ... and when there is one at a time.
LoneInv == OrdInv /\ OrderBooks /\ Promises

\* OrdInv is inductive.
LEMMA OrdNextInv == OrdInv /\ [OrdNext]_ordVars => OrdInv'
<1> SUFFICES ASSUME OrdInv, [OrdNext]_ordVars PROVE OrdInv'
  OBVIOUS
<1>1. /\ Typed /\ AllRowsRight /\ Locking /\ StockCovered
      /\ HoldsExplained /\ StockExplained
  BY DEF OrdInv
<1>2. CASE OrdStep
  <2>1. Typed'
    BY <1>1, <1>2, OrdStepType DEF Typed
  <2>2. AllRowsRight' /\ Locking' /\ StockCovered'
    BY <1>1, <1>2, OrdStepRows, OrdStepLocking, OrdStepCovered
  <2>3. HoldsExplained' /\ StockExplained'
    BY <1>1, <1>2, OrdStepExplained
  <2> QED
    BY <2>1, <2>2, <2>3 DEF OrdInv
<1>3. CASE OrdCrash
  BY <1>1, <1>3, CrashKeeps, CrashLocking DEF OrdCrash, OrdInv
<1>4. CASE UNCHANGED ordVars
  BY <1>1, <1>4, StillKeeps DEF OrdInv
<1> QED
  BY <1>2, <1>3, <1>4 DEF OrdNext

\* So is LoneInv, while no two requests are in flight for one order.
LEMMA LoneNextInv ==
  ASSUME ~Overlap, IsFiniteSet(Order)
  PROVE  LoneInv /\ [OrdNext]_ordVars => LoneInv'
<1> SUFFICES ASSUME LoneInv, [OrdNext]_ordVars PROVE LoneInv'
  OBVIOUS
<1>1. OrdInv /\ OrderBooks /\ Promises /\ Typed /\ AllRowsRight /\ Locking /\ Steady
  BY DEF LoneInv, OrdInv, OrderBooks
<1>2. OrdInv'
  BY <1>1, OrdNextInv
<1>3. CASE OrdStep
  BY <1>1, <1>2, <1>3, OrdStepOrderBooks, OrdStepPromises DEF LoneInv
<1>4. CASE OrdCrash
  BY <1>1, <1>2, <1>4, CrashOrderBooks, CrashKeeps DEF OrdCrash, RollbackAll, LoneInv
<1>5. CASE UNCHANGED ordVars
  BY <1>1, <1>2, <1>5, StillKeeps DEF LoneInv
<1> QED
  BY <1>3, <1>4, <1>5 DEF OrdNext

\* Explained, in the words of the model.
LEMMA ExplainedTells ==
  ASSUME Typed
  PROVE  /\ HoldsExplained => LedgerExplainsHolds
         /\ StockExplained => LedgerExplainsStock
<1>1. \A s \in Sku :
        /\ LedgerSum(s, LAMBDA e : TRUE, LAMBDA e : e.hold) = Worth(ledger, HoldIn(s))
        /\ LedgerSum(s, LAMBDA e : ~e.removed, LAMBDA e : e.delta)
             = Worth(ledger, DeltaIn(s))
  BY LedgerOfSku DEF Typed
<1>2. HoldsExplained => LedgerExplainsHolds
  BY <1>1, Zenon DEF HoldsExplained, LedgerExplainsHolds
<1>3. StockExplained => LedgerExplainsStock
  BY <1>1, Zenon DEF StockExplained, LedgerExplainsStock
<1> QED
  BY <1>2, <1>3

\* However many requests pile up on an order, whatever they do to its row, and
\* wherever the server dies: the audit rows of the ledger account for every unit of
\* quantity and of lockedQuantity, and no row has more locked than is there.  This
\* is what lock / release / deductOrderItemsStock owe to the row locks and to one
\* transaction around stock, ledger and order; it is not owed to the order's status.
THEOREM OrdersLeaveAccounts ==
  OrdSpec => [](LedgerExplainsHolds /\ LedgerExplainsStock /\ StockCovered)
<1>1. OrdStart => OrdInv
  BY StartKeeps DEF OrdStart, OrdInv, OrderBooks
<1>2. OrdInv => LedgerExplainsHolds /\ LedgerExplainsStock /\ StockCovered
  BY ExplainedTells DEF OrdInv
<1> QED
  BY <1>1, <1>2, OrdNextInv, PTL DEF OrdSpec

\* While no two requests are in flight for one order, the committed quantity and the
\* stockLocked column behave as the reservation book: an order reserves all it needs
\* or nothing and only what nobody else was promised, and its reservation ends once.
\* LoneInv is needed for it: save writes the copy the handler made of the row
\* (Steady), after every item has been locked (AllRowsRight, Pending), and
\* lockedQuantity is what the holding orders need (Promises).
THEOREM OrdersKeepBook ==
  ASSUME ~Overlap, IsFiniteSet(Order)
  PROVE  OrdSpec => KeepsBook
<1>1. OrdStart => LoneInv
  BY StartKeeps DEF OrdStart, LoneInv, OrdInv, OrderBooks
<1>2. OrdStart => Book!BookInit
  <2> SUFFICES ASSUME OrdStart PROVE Book!BookInit
    OBVIOUS
  <2>1. \A o \in Order : ~orders[o].held
    BY DEF OrdStart, OrdInit, Unborn
  <2>2. \A s \in Sku : saved[s].quantity >= 0
    BY StockDbAssumption DEF OrdStart, DbInit, RowCovered, Covered, Row
  <2> QED
    BY <2>1, <2>2 DEF Book!BookInit
<1>3. LoneInv /\ [OrdNext]_ordVars => [Book!OrderMove]_(Book!bookVars)
  <2> SUFFICES ASSUME LoneInv, [OrdNext]_ordVars
               PROVE  Book!OrderMove \/ UNCHANGED Book!bookVars
    OBVIOUS
  <2>1. LoneInv' /\ StockCovered'
    BY LoneNextInv DEF LoneInv, OrdInv
  <2>2. CASE OrdStep
    BY <2>1, <2>2, OrdStepMovesBook DEF LoneInv, OrdInv, OrderBooks
  <2>3. CASE OrdCrash \/ UNCHANGED ordVars
    <3>1. UNCHANGED <<saved, orders>>
      BY <2>3 DEF OrdCrash, RollbackAll, ordVars, dbVars
    <3> QED
      BY <3>1 DEF Book!bookVars
  <2> QED
    BY <2>2, <2>3 DEF OrdNext
<1>4. LoneInv /\ [OrdNext]_ordVars => LoneInv'
  BY LoneNextInv
<1> QED
  BY <1>1, <1>2, <1>3, <1>4, PTL DEF OrdSpec, KeepsBook, Book!BookSpec
=============================================================================
