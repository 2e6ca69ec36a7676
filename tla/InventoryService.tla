-------------------------- MODULE InventoryService --------------------------
(***************************************************************************)
(* InventoryService: inbound, outbound, adjust and removeTransaction, and  *)
(* the plain create / update / remove of inventory rows.                   *)
(*                                                                         *)
(* inbound, outbound and adjust lock the SKU's inventory row first; their  *)
(* first plain SELECT, which fixes the REPEATABLE READ view of the         *)
(* transaction, comes after it (Open).  removeTransaction reads the ledger *)
(* row before it locks anything (ReadEntry), so its view is older.  The    *)
(* rest of each is one step (Commit): only rows it has locked change       *)
(* under it, and everything else it reads is in the view.                  *)
(*                                                                         *)
(* batchInbound and batchOutbound call inbound and outbound item by item,  *)
(* each in a transaction of its own: they are sequences of these actions.  *)
(***************************************************************************)
EXTENDS StockDb

CONSTANTS
  Amount,          \* quantities a caller asks for
  ManualLocation,  \* locationIds a caller names; NoLocation: none given
  MaxRemove        \* removals of ledger rows in flight at the same time

ASSUME InventoryAssumption ==
  /\ Amount \subseteq Nat \ {0}
  /\ ManualLocation \subseteq Location \union {NoLocation}
  /\ MaxRemove \in Nat

VARIABLE inv   \* the inventory-service requests

Kind == {"INBOUND", "OUTBOUND", "ADJUSTMENT_IN", "ADJUSTMENT_OUT", "REMOVE"}

\* What the transaction's read view says of the location it works on.
View == [status : LocationStatus, othersHere : BOOLEAN]

Idle == [phase |-> "idle"]

Request ==
  [phase : {"read", "open"}, kind : Kind, sku : Sku, quantity : Nat,
   location : Location \union {NoLocation},   \* as named by the caller or the
                                              \* ledger row; not yet defaulted
   entry : Nat,                               \* ledger row to remove
   view : View]

InvTypeOK ==
  /\ inv \in [Clerk -> Request \union {Idle}]
  /\ \A c \in Clerk :
       inv[c] # Idle /\ inv[c].kind = "REMOVE" => inv[c].entry \in DOMAIN ledger

InvInit == inv = [c \in Clerk |-> Idle]

-----------------------------------------------------------------------------
ViewOf(l, s) ==
  [status |-> IF l = NoLocation THEN "AVAILABLE" ELSE status[l],
   othersHere |-> /\ l # NoLocation
                  /\ \E t \in Sku \ {s} : saved[t].at[l].quantity > 0]

\* The location a request works on: removeTransaction takes the ledger row's,
\* the others fall back to the default location of the row.
WorkLocation(op) ==
  IF op.kind = "REMOVE" \/ ~stock[op.sku].exists
  THEN op.location
  ELSE EffectiveLocation(stock[op.sku], op.location)

\* Fault: taking a ledger row back books it once more.
DeltaRepeated(op) ==
  CASE op.kind \in {"INBOUND", "ADJUSTMENT_IN"}   -> op.quantity
    [] op.kind \in {"OUTBOUND", "ADJUSTMENT_OUT"} -> -op.quantity
    [] op.kind = "REMOVE"                         -> ledger[op.entry].delta

Delta(op) ==
  CASE op.kind \in {"INBOUND", "ADJUSTMENT_IN"}   -> op.quantity
    [] op.kind \in {"OUTBOUND", "ADJUSTMENT_OUT"} -> -op.quantity
    [] op.kind = "REMOVE"                         -> -ledger[op.entry].delta

\* changeLocationStock does not throw.
LocationAccepts(op) ==
  LET l == WorkLocation(op)
  IN  /\ CellAccepts(stock[op.sku], l, Delta(op))
      /\ l # NoLocation /\ Delta(op) # 0 => op.view.status \notin {"DISABLED", "GONE"}

\* The checks each operation makes on the inventory row it has locked.
TotalAccepts(op) ==
  LET r == stock[op.sku]
  IN  CASE op.kind \in {"INBOUND", "ADJUSTMENT_IN"} -> TRUE
        [] op.kind = "OUTBOUND" ->
             r.exists /\ AtLeastZero(r.quantity - r.locked) >= op.quantity
        [] op.kind = "ADJUSTMENT_OUT" ->
             /\ r.exists
             /\ r.quantity >= op.quantity
             /\ r.quantity - op.quantity >= r.locked
        [] op.kind = "REMOVE" ->
             r.exists /\ r.locked <= 0 /\ r.quantity + Delta(op) >= 0

Accepts(op) == TotalAccepts(op) /\ LocationAccepts(op)

\* The ledger row an operation books.  inbound books the location the caller
\* named, outbound and adjust the one they worked on.
Booked(op) ==
  [sku |-> op.sku,
   kind |-> IF op.kind \in {"INBOUND", "OUTBOUND"} THEN op.kind ELSE "ADJUSTMENT",
   delta |-> Delta(op), hold |-> 0,
   location |-> IF op.kind = "INBOUND" THEN op.location ELSE WorkLocation(op),
   order |-> NoOrder, removed |-> FALSE]

\* Fault: the stock of the SKU is summed, not that of the location.
OccupancyOfSku(op, cell) ==
  IF stock[op.sku].quantity + Delta(op) > 0 THEN "OCCUPIED" ELSE "AVAILABLE"

\* Fault: a status that the enum of the locations does not have.
OccupancyUnknown(op, cell) ==
  IF op.view.othersHere \/ cell.quantity > 0 THEN "OCCUPIED" ELSE "EMPTY"

\* updateLocationOccupancy: the sum over the location is taken in the view,
\* except for the row the transaction itself has just written.
Occupancy(op, cell) ==
  IF op.view.othersHere \/ cell.quantity > 0 THEN "OCCUPIED" ELSE "AVAILABLE"

-----------------------------------------------------------------------------
\* inbound / outbound / adjust, up to the row lock.
Open(c, kind, s, q, l) ==
  /\ inv[c] = Idle
  /\ Len(ledger) < MaxLedger
  /\ owner[s] = NoTx
  /\ owner' = [owner EXCEPT ![s] = c]
  /\ LET work == IF stock[s].exists THEN EffectiveLocation(stock[s], l) ELSE l
     IN  inv' = [inv EXCEPT ![c] =
                   [phase |-> "open", kind |-> kind, sku |-> s, quantity |-> q,
                    location |-> l, entry |-> 0, view |-> ViewOf(work, s)]]
  /\ UNCHANGED <<stock, saved, ledger, status>>

\* removeTransaction: the ledger row is read, its type checked.
ReadEntry(c, i) ==
  /\ inv[c] = Idle
  /\ Cardinality({d \in Clerk : inv[d] # Idle /\ inv[d].kind = "REMOVE"}) < MaxRemove
  /\ ~ledger[i].removed
  /\ ledger[i].kind \in {"INBOUND", "OUTBOUND"}
  /\ inv' = [inv EXCEPT ![c] =
               [phase |-> "read", kind |-> "REMOVE", sku |-> ledger[i].sku,
                quantity |-> 0, location |-> ledger[i].location, entry |-> i,
                view |-> ViewOf(ledger[i].location, ledger[i].sku)]]
  /\ UNCHANGED dbVars

\* removeTransaction: the inventory row is locked.
LockForRemove(c) ==
  /\ inv[c].phase = "read"
  /\ owner[inv[c].sku] = NoTx
  /\ owner' = [owner EXCEPT ![inv[c].sku] = c]
  /\ inv' = [inv EXCEPT ![c].phase = "open"]
  /\ UNCHANGED <<stock, saved, ledger, status>>

\* Every check passes: stock, ledger and occupancy are written and committed.
Commit(c) ==
  /\ inv[c].phase = "open"
  /\ LET op == inv[c]
         l == WorkLocation(op)
         next == Moved(stock[op.sku], l, Delta(op))
     IN  /\ Accepts(op)
         /\ stock' = [stock EXCEPT ![op.sku] = next]
         /\ ledger' = IF op.kind = "REMOVE"
                      THEN [ledger EXCEPT ![op.entry].removed = TRUE]
                      ELSE Append(ledger, Booked(op))
         /\ status' = IF l = NoLocation \/ Delta(op) = 0 \/ status[l] = "GONE"
                      THEN status
                      ELSE [status EXCEPT ![l] = Occupancy(op, next.at[l])]
  /\ CommitTx(c)
  /\ inv' = [inv EXCEPT ![c] = Idle]

\* A check fails after the row is locked: the transaction rolls back.
Reject(c) ==
  /\ inv[c].phase = "open"
  /\ ~Accepts(inv[c])
  /\ RollbackTx(c)
  /\ inv' = [inv EXCEPT ![c] = Idle]

\* innodb_lock_wait_timeout while removeTransaction waits for the row.
LockWaitTimeout(c) ==
  /\ inv[c].phase = "read"
  /\ owner[inv[c].sku] # NoTx
  /\ inv' = [inv EXCEPT ![c] = Idle]
  /\ UNCHANGED dbVars

InvStep ==
  \E c \in Clerk :
    \/ \E kind \in Kind \ {"REMOVE"}, s \in Sku, q \in Amount, l \in ManualLocation :
         Open(c, kind, s, q, l)
    \/ \E i \in DOMAIN ledger : ReadEntry(c, i)
    \/ LockForRemove(c)
    \/ Commit(c)
    \/ Reject(c)
    \/ LockWaitTimeout(c)

-----------------------------------------------------------------------------
(* The plain REST endpoints on inventory rows: one UPDATE, DELETE or INSERT *)
(* each, with no check, no ledger row and no location row.                  *)
PatchQuantity(s, q) ==
  /\ stock[s].exists /\ owner[s] = NoTx
  /\ stock[s].quantity # q
  /\ stock' = [stock EXCEPT ![s].quantity = q]
  /\ saved' = [saved EXCEPT ![s] = stock'[s]]
  /\ UNCHANGED <<owner, ledger, status, inv>>

RemoveInventory(s) ==
  /\ stock[s].exists /\ owner[s] = NoTx
  /\ stock' = [stock EXCEPT ![s].exists = FALSE, ![s].quantity = 0,
                            ![s].locked = 0, ![s].home = NoLocation]
  /\ saved' = [saved EXCEPT ![s] = stock'[s]]
  /\ UNCHANGED <<owner, ledger, status, inv>>

CreateInventory(s, q) ==
  /\ ~stock[s].exists /\ owner[s] = NoTx
  /\ stock' = [stock EXCEPT ![s].exists = TRUE, ![s].quantity = q]
  /\ saved' = [saved EXCEPT ![s] = stock'[s]]
  /\ UNCHANGED <<owner, ledger, status, inv>>

RawStep ==
  \E s \in Sku :
    \/ \E q \in Amount : PatchQuantity(s, q) \/ CreateInventory(s, q)
    \/ RemoveInventory(s)
=============================================================================
