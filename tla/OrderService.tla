---------------------------- MODULE OrderService ----------------------------
(***************************************************************************)
(* OrderService: creating, moving, cancelling, patching and deleting       *)
(* orders, and what each does to the stock the order holds.                *)
(*                                                                         *)
(* Every handler reads the order outside its transaction (the Begin        *)
(* actions), decides on that copy, and only then opens the transaction:    *)
(* one StockStep per order item, which waits for the SKU's row lock, and   *)
(* at the end manager.save(order).  save reads the order row again, in the *)
(* transaction's view (ReadRow, or the first StockStep), and writes those  *)
(* columns in which the copy differs from what it read (Save); it inserts  *)
(* the row when the view has none.                                         *)
(***************************************************************************)
EXTENDS StockDb

CONSTANTS
  Items,          \* [Order -> sequence of items with a SKU and a quantity > 0]
  CreateStatus,   \* statuses an admin creates orders with
  CreateSource, CreateType,
  MiniappOrder,   \* orders that come from the mini-program
  Target,         \* statuses updateStatus is asked for
  PatchSource,    \* sources and types update() is asked to set
  PatchType,
  Overlap,        \* may two requests be in flight for one order?
  DeleteHeld      \* may the deleted order be one that holds stock?

Source == {"MINIAPP", "WEBSITE", "ADMIN"}
Type == {"STANDARD", "CUSTOM"}

Status ==
  {"PENDING_CONFIRM", "PENDING_REVIEW", "REJECTED", "CONFIRMED", "PROCESSING",
   "STOCK_LOCKED", "OUT_OF_STOCK", "PENDING_SCHEDULE", "SCHEDULED", "PRODUCING",
   "PRODUCED", "PENDING_SHIPMENT", "SHIPPED", "COMPLETED", "CANCELLED"}

Item == [sku : Sku, quantity : Nat \ {0}]

ASSUME OrderAssumption ==
  /\ Items \in [Order -> Seq(Item)]
  /\ CreateStatus \subseteq Status
  /\ CreateSource \subseteq Source
  /\ CreateType \subseteq Type
  /\ MiniappOrder \subseteq Order
  /\ Target \subseteq Status
  /\ PatchSource \subseteq Source
  /\ PatchType \subseteq Type
  /\ Overlap \in BOOLEAN
  /\ DeleteHeld \in BOOLEAN

Terminal == {"COMPLETED", "CANCELLED", "REJECTED"}

\* getTransitionMap: what both kinds of order share ...
CommonNext ==
  [s \in Status |->
     CASE s = "PROCESSING"       -> {"COMPLETED", "CANCELLED"}
       [] s = "STOCK_LOCKED"     -> {"PENDING_SHIPMENT", "CANCELLED"}
       [] s = "OUT_OF_STOCK"     -> {"PENDING_SCHEDULE", "CANCELLED"}
       [] s = "PENDING_SCHEDULE" -> {"SCHEDULED", "CANCELLED"}
       [] s = "SCHEDULED"        -> {"PRODUCING", "CANCELLED"}
       [] s = "PRODUCING"        -> {"PRODUCED", "CANCELLED"}
       [] s = "PRODUCED"         -> {"PENDING_SHIPMENT", "CANCELLED"}
       [] s = "PENDING_SHIPMENT" -> {"SHIPPED", "CANCELLED"}
       [] s = "SHIPPED"          -> {"COMPLETED"}
       [] OTHER                  -> {}]

\* Fault: a cancelled order can be confirmed again.
NextStatusReopening(type, s) ==
  CASE s = "CANCELLED"       -> {"CONFIRMED"}
    [] s = "PENDING_CONFIRM" -> {"CONFIRMED", "REJECTED", "CANCELLED"}
    [] s = "CONFIRMED"       -> {"PENDING_SHIPMENT", "CANCELLED"}
    [] OTHER                 -> CommonNext[s]

\* ... and where they differ.
NextStatus(type, s) ==
  CASE s = "PENDING_CONFIRM" /\ type = "CUSTOM" ->
         {"PENDING_REVIEW", "REJECTED", "CANCELLED"}
    [] s = "PENDING_REVIEW" /\ type = "CUSTOM" ->
         {"PENDING_SCHEDULE", "REJECTED", "CANCELLED"}
    [] s = "CONFIRMED" /\ type = "CUSTOM" ->
         {"PROCESSING", "PENDING_SCHEDULE", "CANCELLED"}
    [] s = "PENDING_CONFIRM" /\ type = "STANDARD" ->
         {"CONFIRMED", "REJECTED", "OUT_OF_STOCK", "CANCELLED"}
    [] s = "PENDING_REVIEW" /\ type = "STANDARD" ->
         {"CONFIRMED", "REJECTED", "CANCELLED"}
    [] s = "CONFIRMED" /\ type = "STANDARD" ->
         {"PROCESSING", "PENDING_SHIPMENT", "CANCELLED"}
    [] OTHER -> CommonNext[s]

Deletable == {"PENDING_CONFIRM", "PENDING_REVIEW", "REJECTED", "CANCELLED"}

-----------------------------------------------------------------------------
VARIABLES
  orders,   \* the orders table; present = FALSE: no such row (any more)
  req       \* the order-service requests

ordVars == <<dbVars, orders, req>>

\* held is the column stockLocked.
OrderRow == [present : BOOLEAN, status : Status, held : BOOLEAN,
             source : Source, type : Type]

Unborn == [present |-> FALSE, status |-> "PENDING_CONFIRM", held |-> FALSE,
           source |-> "ADMIN", type |-> "STANDARD"]

Effect == {"none", "lock", "release", "deduct"}

Free == [phase |-> "free"]

OrderRequest ==
  [phase : {"working", "deleting", "patching"}, order : Order,
   copy : OrderRow,             \* the entity as read, then as it will be saved
   effect : Effect,             \* what is done to the stock of the items
   next : Nat \ {0},            \* index of the next item
   viewed : BOOLEAN,            \* has the transaction's view been fixed?
   view : OrderRow,             \* the order row in that view
   rows : Seq(LedgerRow)]       \* ledger rows written, not yet committed

OrdTypeOK ==
  /\ orders \in [Order -> OrderRow]
  /\ req \in [Worker -> OrderRequest \union {Free}]

OrdInit ==
  /\ orders = [o \in Order |-> Unborn]
  /\ req = [w \in Worker |-> Free]

-----------------------------------------------------------------------------
InFlight(o) == {w \in Worker : req[w] # Free /\ req[w].order = o}

\* A request for order o may start at worker w.
MayBegin(w, o) ==
  /\ req[w] = Free
  /\ Overlap \/ InFlight(o) = {}
  /\ Len(ledger) < MaxLedger

Start(w, o, phase, copy, effect) ==
  /\ req' = [req EXCEPT ![w] =
               [phase |-> phase, order |-> o, copy |-> copy, effect |-> effect,
                next |-> 1, viewed |-> FALSE, view |-> Unborn, rows |-> <<>>]]
  /\ UNCHANGED <<dbVars, orders>>

\* create(): the caller chooses source, type and even the status.
Create(o, source, type, st) ==
  /\ orders[o] = Unborn /\ o \notin MiniappOrder /\ InFlight(o) = {}
  /\ orders' = [orders EXCEPT ![o] =
                  [present |-> TRUE, status |-> st, held |-> FALSE,
                   source |-> source, type |-> type]]
  /\ UNCHANGED <<dbVars, req>>

\* createMiniappOrder(): one item; the stock is looked at without a lock.
BeginMiniapp(w, o) ==
  /\ o \in MiniappOrder /\ Len(Items[o]) = 1
  /\ orders[o] = Unborn /\ InFlight(o) = {}
  /\ MayBegin(w, o)
  /\ LET item == Items[o][1]
         r == saved[item.sku]
     IN  r.exists /\ r.quantity - r.locked >= item.quantity
  /\ Start(w, o, "working",
           [present |-> TRUE, status |-> "PENDING_CONFIRM", held |-> TRUE,
            source |-> "MINIAPP", type |-> "STANDARD"], "lock")

\* Fault: stock is deducted on completion only.
EffectOfCompleted(row, st) ==
  CASE st = "CONFIRMED" /\ row.source # "MINIAPP" /\ ~row.held -> "lock"
    [] st \in {"CANCELLED", "REJECTED"} /\ row.held            -> "release"
    [] st = "COMPLETED" /\ row.held                            -> "deduct"
    [] OTHER                                                   -> "none"

\* updateStatus(): what the copy of the order leads to.
EffectOf(row, st) ==
  CASE st = "CONFIRMED" /\ row.source # "MINIAPP" /\ ~row.held -> "lock"
    [] st \in {"CANCELLED", "REJECTED"} /\ row.held            -> "release"
    [] st \in {"SHIPPED", "COMPLETED"} /\ row.held             -> "deduct"
    [] OTHER                                                   -> "none"

\* Fault: stockLocked is not cleared.
HeldAfterSticky(row, st) == row.held \/ EffectOf(row, st) = "lock"

HeldAfter(row, st) ==
  CASE EffectOf(row, st) = "lock"                  -> TRUE
    [] EffectOf(row, st) \in {"release", "deduct"} -> FALSE
    [] OTHER                                       -> row.held

BeginStatus(w, o, st) ==
  /\ MayBegin(w, o)
  /\ orders[o].present
  /\ st \in NextStatus(orders[o].type, orders[o].status)
  /\ ~(orders[o].source = "MINIAPP" /\ st = "OUT_OF_STOCK")
  /\ Start(w, o, "working",
           [orders[o] EXCEPT !.status = st, !.held = HeldAfter(orders[o], st)],
           EffectOf(orders[o], st))

\* cancelMiniappOrder()
BeginCancel(w, o) ==
  /\ MayBegin(w, o)
  /\ orders[o].present /\ orders[o].source = "MINIAPP"
  /\ orders[o].status = "PENDING_CONFIRM"
  /\ Start(w, o, "working", [orders[o] EXCEPT !.status = "CANCELLED", !.held = FALSE],
           IF orders[o].held THEN "release" ELSE "none")

\* confirmMiniappReceipt()
BeginReceipt(w, o) ==
  /\ MayBegin(w, o)
  /\ orders[o].present /\ orders[o].source = "MINIAPP"
  /\ orders[o].status = "SHIPPED"
  /\ Start(w, o, "working", [orders[o] EXCEPT !.status = "COMPLETED"], "none")

\* update(): the status check, before the UPDATE of the other columns.
BeginPatch(w, o, source, type) ==
  /\ MayBegin(w, o)
  /\ orders[o].present /\ orders[o].status \notin Terminal
  /\ Start(w, o, "patching", [orders[o] EXCEPT !.source = source, !.type = type], "none")

\* remove(): the status check, before the DELETE.
BeginDelete(w, o) ==
  /\ MayBegin(w, o)
  /\ orders[o].present /\ orders[o].status \in Deletable
  /\ DeleteHeld \/ ~orders[o].held
  /\ Start(w, o, "deleting", orders[o], "none")

-----------------------------------------------------------------------------
ItemsDone(w) == req[w].effect = "none" \/ req[w].next > Len(Items[req[w].order])

NextItem(w) == Items[req[w].order][req[w].next]

Outcomes(effect, r, q) ==
  CASE effect = "lock"    -> LockOutcomes(r, q)
    [] effect = "release" -> ReleaseOutcomes(r, q)
    [] effect = "deduct"  -> DeductOutcomes(r, q)

ItemOutcomes(w) ==
  Outcomes(req[w].effect, stock[NextItem(w).sku], NextItem(w).quantity)

\* The ledger row of an item: STOCK_LOCK, STOCK_RELEASE or OUTBOUND_SALES.
ItemLedgerRow(w, location) ==
  LET q == NextItem(w).quantity
      e == req[w].effect
  IN  [sku |-> NextItem(w).sku,
       kind |-> CASE e = "lock" -> "STOCK_LOCK" [] e = "release" -> "STOCK_RELEASE"
                  [] OTHER -> "OUTBOUND",
       delta |-> IF e = "deduct" THEN -q ELSE 0,
       hold |-> IF e = "lock" THEN q ELSE -q,
       location |-> location, order |-> req[w].order, removed |-> FALSE]

\* The next item waits for a row lock.
Waits(w) ==
  /\ req[w].phase = "working" /\ ~ItemsDone(w)
  /\ ~CanLock(w, NextItem(w).sku)

AtItem(w) ==
  /\ req[w].phase = "working" /\ ~ItemsDone(w)
  /\ CanLock(w, NextItem(w).sku)

\* lock / release / deductOrderItemsStock, one turn of the loop.
StockStep(w) ==
  /\ AtItem(w)
  /\ \E out \in ItemOutcomes(w) :
       /\ stock' = [stock EXCEPT ![NextItem(w).sku] = out.row]
       /\ owner' = [owner EXCEPT ![NextItem(w).sku] = w]
       /\ req' = [req EXCEPT
                    ![w].next = @ + 1,
                    ![w].viewed = TRUE,
                    ![w].view = IF req[w].viewed THEN @ ELSE orders[req[w].order],
                    ![w].rows = Append(@, ItemLedgerRow(w, out.location))]
  /\ UNCHANGED <<saved, ledger, status, orders>>

\* Nothing is done to stock: the view is fixed by the SELECT of save.
ReadRow(w) ==
  /\ req[w].phase = "working" /\ ItemsDone(w) /\ ~req[w].viewed
  /\ req' = [req EXCEPT ![w].viewed = TRUE, ![w].view = orders[req[w].order]]
  /\ UNCHANGED <<dbVars, orders>>

\* A column is written when the copy differs from the view.
Written(copy, view, row) ==
  [present |-> TRUE,
   status |-> IF copy.status = view.status THEN row.status ELSE copy.status,
   held |-> IF copy.held = view.held THEN row.held ELSE copy.held,
   source |-> IF copy.source = view.source THEN row.source ELSE copy.source,
   type |-> IF copy.type = view.type THEN row.type ELSE copy.type]

\* The row save leaves behind: INSERT, UPDATE, or an UPDATE that matches no row.
SavedRow(w) ==
  LET row == orders[req[w].order]
  IN  IF ~req[w].view.present THEN req[w].copy
      ELSE IF row.present THEN Written(req[w].copy, req[w].view, row)
      ELSE row

\* The INSERT of a row that is already there again.
DuplicateKey(w) == ~req[w].view.present /\ orders[req[w].order].present

\* save, the flow log and the commit.
Save(w) ==
  /\ req[w].phase = "working" /\ ItemsDone(w) /\ req[w].viewed
  /\ ~DuplicateKey(w)
  /\ orders' = [orders EXCEPT ![req[w].order] = SavedRow(w)]
  /\ ledger' = ledger \o req[w].rows
  /\ stock' = stock
  /\ CommitTx(w)
  /\ req' = [req EXCEPT ![w] = Free]
  /\ UNCHANGED status

Abort(w) ==
  /\ RollbackTx(w)
  /\ req' = [req EXCEPT ![w] = Free]
  /\ UNCHANGED orders

\* Fault: the error is caught, and the connection given back without a rollback.
StockFailKeepingWrites(w) ==
  /\ AtItem(w) /\ ItemOutcomes(w) = {}
  /\ Unlock(w)
  /\ req' = [req EXCEPT ![w] = Free]
  /\ UNCHANGED <<stock, saved, ledger, status, orders>>

\* Fault: the item is tried again until there is stock for it.
StockFailPolling(w) ==
  AtItem(w) /\ ItemOutcomes(w) = {} /\ UNCHANGED ordVars

\* BusinessException: the stock or the hold is too small.
StockFail(w) == AtItem(w) /\ ItemOutcomes(w) = {} /\ Abort(w)

SaveFail(w) ==
  /\ req[w].phase = "working" /\ ItemsDone(w) /\ req[w].viewed
  /\ DuplicateKey(w)
  /\ Abort(w)

\* The engine picks a deadlock victim, or the lock wait times out.
LockWaitFails(w) == Waits(w) /\ Abort(w)

\* DELETE by id; stock and ledger are not touched.
Delete(w) ==
  /\ req[w].phase = "deleting"
  /\ orders' = [orders EXCEPT ![req[w].order].present = FALSE]
  /\ req' = [req EXCEPT ![w] = Free]
  /\ UNCHANGED dbVars

\* UPDATE of the patched columns by id.
Patch(w) ==
  /\ req[w].phase = "patching"
  /\ orders' = IF orders[req[w].order].present
               THEN [orders EXCEPT ![req[w].order].source = req[w].copy.source,
                                   ![req[w].order].type = req[w].copy.type]
               ELSE orders
  /\ req' = [req EXCEPT ![w] = Free]
  /\ UNCHANGED dbVars

Begin(w) ==
  \E o \in Order :
    \/ BeginMiniapp(w, o)
    \/ \E st \in Target : BeginStatus(w, o, st)
    \/ BeginCancel(w, o)
    \/ BeginReceipt(w, o)
    \/ \E source \in PatchSource, type \in PatchType : BeginPatch(w, o, source, type)
    \/ BeginDelete(w, o)

\* What the event loop and the database do with a request that has begun.
Proceed(w) ==
  \/ StockStep(w) \/ StockFail(w) \/ ReadRow(w) \/ Save(w) \/ SaveFail(w)
  \/ LockWaitFails(w) \/ Delete(w) \/ Patch(w)

OrdStep ==
  \/ \E o \in Order, source \in CreateSource, type \in CreateType,
        st \in CreateStatus : Create(o, source, type, st)
  \/ \E w \in Worker : Begin(w) \/ Proceed(w)

\* The server dies; its transactions roll back, its requests are gone.
OrdCrash == RollbackAll /\ req' = [w \in Worker |-> Free] /\ UNCHANGED orders

OrdNext == OrdStep \/ OrdCrash

OrdStart == DbInit /\ OrdInit

OrdSpec == OrdStart /\ [][OrdNext]_ordVars

\* A request that has begun goes on: its promise is awaited, MySQL answers or
\* times out.  Nothing makes a client send a request.
OrdFairSpec == OrdSpec /\ \A w \in Worker : WF_ordVars(Proceed(w))

-----------------------------------------------------------------------------
\* What order o asks of SKU s.
Need(o, s) ==
  SumFunction([i \in {j \in DOMAIN Items[o] : Items[o][j].sku = s}
                 |-> Items[o][i].quantity])

OrdLedgerSum(o, s, Field(_)) == LedgerSum(s, LAMBDA e : e.order = o, Field)

(* stockLocked tells the truth: the audit rows of an order add up to what   *)
(* it needs while stockLocked = 1 and to nothing otherwise, so a hold is    *)
(* taken, released or deducted exactly once however the order moves.        *)
HoldMatchesLedger ==
  \A o \in Order, s \in Sku :
    OrdLedgerSum(o, s, LAMBDA e : e.hold) = IF orders[o].held THEN Need(o, s) ELSE 0

(* An order takes its quantity out of stock at most once.                   *)
DeductedAtMostOnce ==
  \A o \in Order, s \in Sku : -OrdLedgerSum(o, s, LAMBDA e : e.delta) <= Need(o, s)

(* An order that is cancelled, rejected or shipped keeps nothing locked.    *)
ClosedHoldsNothing ==
  \A o \in Order :
    orders[o].present /\ orders[o].status \in Terminal \union {"SHIPPED"}
      => ~orders[o].held

(* A mini-program order that was shipped has left the stock: the ledger     *)
(* books the whole of every item as sold.                                   *)
ShippedIsDeducted ==
  \A o \in MiniappOrder, s \in Sku :
    orders[o].present /\ orders[o].status \in {"SHIPPED", "COMPLETED"}
      => -OrdLedgerSum(o, s, LAMBDA e : e.delta) = Need(o, s)

(* What became of an order's stock can be read off its status: shipped, and  *)
(* its goods have left; closed, and it holds nothing.                        *)
StatusTellsStock == ShippedIsDeducted /\ ClosedHoldsNothing

(* A completed, cancelled or rejected order never gets another status.      *)
TerminalIsFinal ==
  [][\A o \in Order :
       orders[o].present /\ orders[o].status \in Terminal
         => orders'[o].status = orders[o].status]_ordVars

(* Every request comes to an end, however the row locks of several orders   *)
(* wait for each other.                                                     *)
RequestsEnd == \A w \in Worker : req[w] # Free ~> req[w] = Free

\* The order service does what an abstract reservation book does.
Book == INSTANCE Reservation
          WITH onHand <- [s \in Sku |-> saved[s].quantity],
               holding <- {o \in Order : orders[o].held},
               need <- [o \in Order |-> [s \in Sku |-> Need(o, s)]]

(* The committed stock and the stockLocked column implement the book.       *)
KeepsBook == Book!BookSpec
=============================================================================
