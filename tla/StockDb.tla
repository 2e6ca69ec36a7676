------------------------------ MODULE StockDb -------------------------------
(***************************************************************************)
(* The part of the MySQL database that the inventory service and the order *)
(* service share for one tenant: stock rows, the row locks that            *)
(* `pessimistic_write` takes, the audit ledger `inventory_transactions`    *)
(* and the status of the warehouse locations.                              *)
(*                                                                         *)
(* A transaction writes `stock` in place and holds the row lock of every   *)
(* SKU it wrote until it commits; `saved` is the committed image, the one  *)
(* a plain SELECT of another connection reads and a rollback restores.     *)
(* Every writer of a SKU's location rows locks its inventory row first, so *)
(* one lock per SKU stands for the lock on all of them.                    *)
(***************************************************************************)
EXTENDS StockRow, Sequences

CONSTANTS
  Sku,         \* product codes
  Order, NoOrder,
  Worker,      \* order-service requests in flight
  Clerk,       \* inventory-service requests in flight
  NoTx,
  StartRow,    \* the stock rows the run starts from
  MaxLedger    \* no request starts once the ledger has this many rows

ASSUME StockDbAssumption ==
  /\ StartRow \in [Sku -> Row]
  /\ \A s \in Sku : RowCovered(StartRow[s])
  /\ NoTx \notin Worker \union Clerk
  /\ Worker \intersect Clerk = {}
  /\ NoOrder \notin Order
  /\ MaxLedger \in Nat

VARIABLES
  stock,    \* stock rows as the transactions in progress have written them
  saved,    \* stock rows as committed
  owner,    \* holder of each SKU's row lock
  ledger,   \* inventory_transactions, oldest first
  status    \* status of each location; "GONE" once deleted

dbVars == <<stock, saved, owner, ledger, status>>

LedgerKind == {"INBOUND", "OUTBOUND", "ADJUSTMENT", "STOCK_LOCK", "STOCK_RELEASE"}

\* delta is afterQty - beforeQty of the stock total for the kinds that move
\* stock; hold is the change of lockedQuantity the row stands for.
LedgerRow == [sku : Sku, kind : LedgerKind, delta : Int, hold : Int,
              location : Location \union {NoLocation},
              order : Order \union {NoOrder}, removed : BOOLEAN]

LocationStatus ==
  {"AVAILABLE", "OCCUPIED", "LOCKED", "RESERVED", "DISABLED", "GONE"}

DbTypeOK ==
  /\ stock \in [Sku -> Row]
  /\ saved \in [Sku -> Row]
  /\ owner \in [Sku -> Worker \union Clerk \union {NoTx}]
  /\ ledger \in Seq(LedgerRow)
  /\ status \in [Location -> LocationStatus]

DbInit ==
  /\ stock = StartRow
  /\ saved = StartRow
  /\ owner = [s \in Sku |-> NoTx]
  /\ ledger = <<>>
  /\ status = [l \in Location |->
                 IF \E s \in Sku : StartRow[s].at[l].quantity > 0
                 THEN "OCCUPIED" ELSE "AVAILABLE"]

-----------------------------------------------------------------------------
\* SELECT ... FOR UPDATE returns to t at once: the row is free or already t's.
CanLock(t, s) == owner[s] \in {NoTx, t}

Unlock(t) == owner' = [s \in Sku |-> IF owner[s] = t THEN NoTx ELSE owner[s]]

CommitTx(t) ==
  /\ saved' = [s \in Sku |-> IF owner[s] = t THEN stock'[s] ELSE saved[s]]
  /\ Unlock(t)

RollbackTx(t) ==
  /\ stock' = [s \in Sku |-> IF owner[s] = t THEN saved[s] ELSE stock[s]]
  /\ Unlock(t)
  /\ UNCHANGED <<saved, ledger, status>>

\* The process dies: MySQL rolls every open transaction back.
RollbackAll ==
  /\ stock' = saved
  /\ owner' = [s \in Sku |-> NoTx]
  /\ UNCHANGED <<saved, ledger, status>>

-----------------------------------------------------------------------------
\* Sum of a field of the ledger rows of SKU s that pass Test.
LedgerSum(s, Test(_), Field(_)) ==
  SumFunction([i \in {j \in DOMAIN ledger : ledger[j].sku = s /\ Test(ledger[j])}
                 |-> Field(ledger[i])])

AtSum(r, Field(_)) == SumFunction([l \in Location |-> Field(r.at[l])])

(* No row is ever promised or shipped beyond what is there: lockedQuantity  *)
(* stays within quantity in every inventory row and in every location row,  *)
(* inside transactions as well as after them.  Each of lock, release,       *)
(* deduct, outbound, adjust and the undo of a ledger row has its own guard. *)
StockCovered == \A s \in Sku : RowCovered(stock[s]) /\ RowCovered(saved[s])

(* The holds on the location rows of a SKU add up to the hold on its        *)
(* inventory row: lock, release and deduct move both by the same amount,    *)
(* and the manual operations move neither.                                  *)
LocationHoldsAddUp ==
  \A s \in Sku : AtSum(saved[s], LAMBDA c : c.locked) = saved[s].locked

(* A row nobody has locked shows no trace of an unfinished or failed        *)
(* transaction: what later transactions read is what was committed.         *)
NoDirtyRows == \A s \in Sku : owner[s] = NoTx => stock[s] = saved[s]

(* The ledger explains the stock: every change of a SKU's quantity is the   *)
(* sum of the ledger rows that are still there.                             *)
LedgerExplainsStock ==
  \A s \in Sku :
    saved[s].quantity =
      StartRow[s].quantity + LedgerSum(s, LAMBDA e : ~e.removed, LAMBDA e : e.delta)

(* The ledger explains the holds: STOCK_LOCK rows, less STOCK_RELEASE rows  *)
(* and the sales of orders, add up to lockedQuantity.                       *)
LedgerExplainsHolds ==
  \A s \in Sku :
    saved[s].locked =
      StartRow[s].locked + LedgerSum(s, LAMBDA e : TRUE, LAMBDA e : e.hold)
=============================================================================
