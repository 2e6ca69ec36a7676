-------------------------- MODULE WarehouseProofs ---------------------------
(***************************************************************************)
(* Orders, manual operations, location changes and crashes together, for   *)
(* every set of SKUs, locations, orders and requests in flight: the shapes *)
(* of the tables, the cover of the stock, the isolation of transactions,   *)
(* what the ledger explains, the books of the orders, the location rows    *)
(* and the status of locations, and what all the views show of them.       *)
(* WarehouseInv is the inductive invariant the rest is built on.           *)
(***************************************************************************)
EXTENDS Warehouse, StockViews, OrderProofs

\* The part of the type invariant that the order service needs.
LEMMA TypedToo == TypeOK => Typed
BY DEF TypeOK, Typed

-----------------------------------------------------------------------------
(* The inventory service *)

\* The ledger only grows, or marks a row removed, so that the row a removal has
\* read is still there when it goes on.
LEMMA LedgerKept ==
  ASSUME InvTypeOK, inv' = inv, DOMAIN ledger \subseteq DOMAIN ledger'
  PROVE  InvTypeOK'
BY DEF InvTypeOK

\* An entry of the ledger is a ledger row.
LEMMA LedgerRowType ==
  ASSUME DbTypeOK, NEW i \in DOMAIN ledger
  PROVE  ledger[i] \in LedgerRow /\ i \in Nat
<1>1. ledger \in Seq(LedgerRow)
  BY DEF DbTypeOK
<1>2. i \in 1..Len(ledger)
  BY <1>1
<1> QED
  BY <1>1, <1>2

\* What updateLocationOccupancy reads of a location.
LEMMA ViewOfType ==
  ASSUME DbTypeOK, NEW l \in Location \union {NoLocation}, NEW s \in Sku
  PROVE  ViewOf(l, s) \in View
<1> DEFINE st == IF l = NoLocation THEN "AVAILABLE" ELSE status[l]
           others == l # NoLocation /\ \E t \in Sku \ {s} : saved[t].at[l].quantity > 0
<1>1. st \in LocationStatus
  BY DEF DbTypeOK, LocationStatus
<1>2. others \in BOOLEAN
  OBVIOUS
<1>3. ViewOf(l, s) = [status |-> st, othersHere |-> others]
  BY Zenon DEF ViewOf
<1> HIDE DEF st, others
<1> QED
  BY <1>1, <1>2, <1>3 DEF View

\* The default location of a row is a location or none.
LEMMA EffectiveLocationType ==
  ASSUME NEW r \in Row, NEW l \in Location \union {NoLocation}
  PROVE  EffectiveLocation(r, l) \in Location \union {NoLocation}
BY DEF EffectiveLocation, Row

\* A request that has its row lock works on a known SKU, by a known amount.
LEMMA OpenRequestType ==
  ASSUME TypeOK, NEW c \in Clerk, inv[c].phase = "open"
  PROVE  /\ inv[c] \in Request
         /\ inv[c].sku \in Sku /\ stock[inv[c].sku] \in Row
         /\ WorkLocation(inv[c]) \in Location \union {NoLocation}
         /\ Delta(inv[c]) \in Int
         /\ inv[c].kind = "REMOVE" => inv[c].entry \in DOMAIN ledger
<1> DEFINE op == inv[c]
<1>1. op \in Request /\ op # Idle
  BY DEF TypeOK, InvTypeOK, Idle
<1>2. /\ op.sku \in Sku /\ op.location \in Location \union {NoLocation}
      /\ op.quantity \in Nat /\ op.kind \in Kind
  BY <1>1 DEF Request
<1>3. stock[op.sku] \in Row
  BY <1>2 DEF TypeOK, DbTypeOK
<1>4. op.kind = "REMOVE" => op.entry \in DOMAIN ledger
  BY <1>1 DEF TypeOK, InvTypeOK
<1>5. WorkLocation(op) \in Location \union {NoLocation}
  BY <1>2, <1>3, EffectiveLocationType DEF WorkLocation
<1>6. op.kind = "REMOVE" => ledger[op.entry].delta \in Int
  BY <1>4, LedgerRowType DEF TypeOK, LedgerRow
<1>7. Delta(op) \in Int
  BY <1>2, <1>6 DEF Delta, Kind
<1> QED
  BY <1>1, <1>2, <1>3, <1>4, <1>5, <1>7

\* What a manual operation commits has its shape,
LEMMA CommitType ==
  ASSUME TypeOK, NEW c \in Clerk, Commit(c)
  PROVE  DbTypeOK' /\ InvTypeOK'
<1> DEFINE op == inv[c]
           l == WorkLocation(op)
           next == Moved(stock[op.sku], l, Delta(op))
<1>1. /\ op \in Request /\ op.sku \in Sku /\ stock[op.sku] \in Row
      /\ l \in Location \union {NoLocation} /\ Delta(op) \in Int
      /\ op.kind = "REMOVE" => op.entry \in DOMAIN ledger
  BY OpenRequestType DEF Commit
<1>2. next \in Row
  BY <1>1, MovedType
<1>3. stock' \in [Sku -> Row]
  BY <1>1, <1>2 DEF Commit, TypeOK, DbTypeOK
<1>4. /\ saved' \in [Sku -> Row]
      /\ owner' \in [Sku -> Worker \union Clerk \union {NoTx}]
  BY <1>3, CommitTxType DEF Commit, TypeOK
<1>5. /\ ledger' \in Seq(LedgerRow)
      /\ DOMAIN ledger \subseteq DOMAIN ledger'
  <2>1. ledger \in Seq(LedgerRow)
    BY DEF TypeOK, DbTypeOK
  <2>2. CASE op.kind = "REMOVE"
    <3>1. [ledger[op.entry] EXCEPT !.removed = TRUE] \in LedgerRow
      <4>1. ledger[op.entry] \in LedgerRow
        BY <1>1, <2>2, LedgerRowType DEF TypeOK
      <4> QED
        BY <4>1 DEF LedgerRow
    <3>2. ledger' = [ledger EXCEPT ![op.entry].removed = TRUE]
      BY <2>2 DEF Commit
    <3> QED
      BY <1>1, <2>1, <2>2, <3>1, <3>2
  <2>3. CASE op.kind # "REMOVE"
    <3>1. op.location \in Location \union {NoLocation} /\ op.kind \in Kind
      BY <1>1 DEF Request
    <3>2. Booked(op) \in LedgerRow
      BY <1>1, <3>1 DEF Booked, LedgerRow, LedgerKind
    <3>3. ledger' = Append(ledger, Booked(op))
      BY <2>3 DEF Commit
    <3> QED
      BY <2>1, <3>2, <3>3
  <2> QED
    BY <2>2, <2>3
<1>6. status' \in [Location -> LocationStatus]
  <2>1. Occupancy(op, next.at[l]) \in LocationStatus
    BY DEF Occupancy, LocationStatus
  <2>2. status' \in {status, [status EXCEPT ![l] = Occupancy(op, next.at[l])]}
    BY DEF Commit
  <2> QED
    BY <2>1, <2>2 DEF TypeOK, DbTypeOK
<1>7. DbTypeOK'
  BY <1>3, <1>4, <1>5, <1>6 DEF DbTypeOK
<1>8. InvTypeOK'
  BY <1>5 DEF Commit, TypeOK, InvTypeOK
<1> QED
  BY <1>7, <1>8

\* and so has what any step of the inventory service leaves,
LEMMA InvStepType ==
  ASSUME TypeOK, InvStep
  PROVE  DbTypeOK' /\ InvTypeOK'
<1>1. ASSUME NEW c \in Clerk, NEW kind \in Kind \ {"REMOVE"}, NEW s \in Sku,
             NEW q \in Amount, NEW l \in ManualLocation, Open(c, kind, s, q, l)
      PROVE  DbTypeOK' /\ InvTypeOK'
  <2> DEFINE work == IF stock[s].exists THEN EffectiveLocation(stock[s], l) ELSE l
             op == [phase |-> "open", kind |-> kind, sku |-> s, quantity |-> q,
                    location |-> l, entry |-> 0, view |-> ViewOf(work, s)]
  <2>1. stock[s] \in Row /\ q \in Nat /\ l \in Location \union {NoLocation}
    BY InventoryAssumption DEF TypeOK, DbTypeOK
  <2>2. work \in Location \union {NoLocation}
    BY <2>1, EffectiveLocationType
  <2>3. ViewOf(work, s) \in View
    BY <2>2, ViewOfType DEF TypeOK
  <2>4. op \in Request
    BY <2>1, <2>3 DEF Request, Kind
  <2>5. inv' = [inv EXCEPT ![c] = op] /\ op.kind # "REMOVE"
    BY <1>1 DEF Open
  <2> HIDE DEF op
  <2>6. InvTypeOK'
    BY <1>1, <2>4, <2>5 DEF Open, TypeOK, InvTypeOK
  <2>7. DbTypeOK'
    BY <1>1 DEF Open, TypeOK, DbTypeOK
  <2> QED
    BY <2>6, <2>7
<1>2. ASSUME NEW c \in Clerk, NEW i \in DOMAIN ledger, ReadEntry(c, i)
      PROVE  DbTypeOK' /\ InvTypeOK'
  <2> DEFINE op == [phase |-> "read", kind |-> "REMOVE", sku |-> ledger[i].sku,
                    quantity |-> 0, location |-> ledger[i].location, entry |-> i,
                    view |-> ViewOf(ledger[i].location, ledger[i].sku)]
  <2>1. /\ ledger[i].sku \in Sku /\ ledger[i].location \in Location \union {NoLocation}
        /\ i \in Nat
    BY LedgerRowType DEF TypeOK, LedgerRow
  <2>2. ViewOf(ledger[i].location, ledger[i].sku) \in View
    BY <2>1, ViewOfType DEF TypeOK
  <2>3. op \in Request /\ op.entry = i
    BY <2>1, <2>2 DEF Request, Kind
  <2>4. inv' = [inv EXCEPT ![c] = op]
    BY <1>2 DEF ReadEntry
  <2> HIDE DEF op
  <2> QED
    BY <1>2, <2>3, <2>4 DEF ReadEntry, TypeOK, DbTypeOK, InvTypeOK, dbVars
<1>3. ASSUME NEW c \in Clerk, LockForRemove(c)
      PROVE  DbTypeOK' /\ InvTypeOK'
  <2>1. inv[c] \in Request /\ inv[c] # Idle
    BY <1>3 DEF LockForRemove, TypeOK, InvTypeOK, Idle
  <2> DEFINE op == [inv[c] EXCEPT !.phase = "open"]
  <2>2. op \in Request /\ op.kind = inv[c].kind /\ op.entry = inv[c].entry
    BY <2>1 DEF Request
  <2>3. inv' = [inv EXCEPT ![c] = op]
    BY <1>3 DEF LockForRemove
  <2> HIDE DEF op
  <2> QED
    BY <1>3, <2>1, <2>2, <2>3 DEF LockForRemove, TypeOK, DbTypeOK, InvTypeOK
<1>4. ASSUME NEW c \in Clerk, Commit(c)
      PROVE  DbTypeOK' /\ InvTypeOK'
  BY <1>4, CommitType
<1>5. ASSUME NEW c \in Clerk, Reject(c)
      PROVE  DbTypeOK' /\ InvTypeOK'
  <2>1. DbTypeOK'
    BY <1>5, RollbackTxType DEF Reject, TypeOK
  <2>2. UNCHANGED ledger
    BY <1>5 DEF Reject, RollbackTx
  <2> QED
    BY <1>5, <2>1, <2>2 DEF Reject, TypeOK, InvTypeOK
<1>6. ASSUME NEW c \in Clerk, LockWaitTimeout(c)
      PROVE  DbTypeOK' /\ InvTypeOK'
  BY <1>6 DEF LockWaitTimeout, TypeOK, DbTypeOK, InvTypeOK, dbVars
<1> QED
  BY <1>1, <1>2, <1>3, <1>4, <1>5, <1>6 DEF InvStep

-----------------------------------------------------------------------------
(* The location service *)

\* and any step of the location service.
LEMMA LocStepType ==
  ASSUME TypeOK, LocStep
  PROVE  DbTypeOK' /\ LocTypeOK' /\ UNCHANGED ledger
<1>1. ASSUME NEW k \in Keeper, NEW l \in Location, NEW st \in LocationStatus,
             NEW phase \in {"updating", "removing"}, Load(k, l, phase, st)
      PROVE  DbTypeOK' /\ LocTypeOK' /\ UNCHANGED ledger
  BY <1>1 DEF Load, LocationRequest, TypeOK, DbTypeOK, LocTypeOK, dbVars
<1>2. ASSUME NEW k \in Keeper, NEW l \in Location, BeginUpdate(k, l) \/ BeginRemove(k, l)
      PROVE  DbTypeOK' /\ LocTypeOK' /\ UNCHANGED ledger
  <2>1. status[l] \in LocationStatus /\ StatusChoice \subseteq LocationStatus
    BY LocationServiceAssumption DEF TypeOK, DbTypeOK
  <2> QED
    BY <1>1, <1>2, <2>1 DEF BeginUpdate, BeginRemove
<1>3. ASSUME NEW k \in Keeper, FinishUpdate(k) \/ FinishRemove(k)
      PROVE  DbTypeOK' /\ LocTypeOK' /\ UNCHANGED ledger
  <2>1. loc[k] \in LocationRequest
    BY <1>3 DEF FinishUpdate, FinishRemove, Resting, TypeOK, LocTypeOK
  <2>2. loc[k].copy \in LocationStatus /\ "GONE" \in LocationStatus
    BY <2>1 DEF LocationRequest, LocationStatus
  <2> QED
    BY <1>3, <2>2 DEF FinishUpdate, FinishRemove, TypeOK, DbTypeOK, LocTypeOK
<1> QED
  BY <1>2, <1>3 DEF LocStep

-----------------------------------------------------------------------------
(* Type correctness *)

\* The tables start with their shape ...
LEMMA InitTypeOK == Init => TypeOK
<1> SUFFICES ASSUME Init PROVE TypeOK
  OBVIOUS
<1>1. DbTypeOK
  BY StockDbAssumption DEF Init, DbInit, DbTypeOK, LocationStatus
<1>2. OrdTypeOK
  BY DEF Init, OrdInit, OrdTypeOK, Unborn, OrderRow, Status, Source, Type
<1>3. InvTypeOK
  BY DEF Init, InvInit, InvTypeOK
<1>4. LocTypeOK
  BY DEF Init, LocInit, LocTypeOK
<1> QED
  BY <1>1, <1>2, <1>3, <1>4 DEF TypeOK

\* ... and every step keeps it.
LEMMA NextTypeOK == TypeOK /\ [Next]_vars => TypeOK'
<1> SUFFICES ASSUME TypeOK, [Next]_vars PROVE TypeOK'
  OBVIOUS
<1>1. CASE OrdStep /\ UNCHANGED <<inv, loc>>
  <2>1. DbTypeOK' /\ OrdTypeOK'
    BY <1>1, TypedToo, OrdStepType
  <2>2. InvTypeOK'
    BY <1>1, TypedToo, OrdStepLedger, LedgerKept DEF TypeOK
  <2> QED
    BY <1>1, <2>1, <2>2 DEF TypeOK, LocTypeOK
<1>2. CASE InvStep /\ UNCHANGED <<orders, req, loc>>
  BY <1>2, InvStepType DEF TypeOK, OrdTypeOK, LocTypeOK
<1>3. CASE LocStep /\ UNCHANGED <<orders, req, inv>>
  <2>1. DbTypeOK' /\ LocTypeOK' /\ UNCHANGED ledger
    BY <1>3, LocStepType
  <2> QED
    BY <1>3, <2>1 DEF TypeOK, OrdTypeOK, InvTypeOK
<1>4. CASE Crash
  BY <1>4 DEF Crash, RollbackAll, TypeOK, DbTypeOK, OrdTypeOK, InvTypeOK, LocTypeOK
<1>5. CASE UNCHANGED vars
  BY <1>5 DEF vars, dbVars, TypeOK, DbTypeOK, OrdTypeOK, InvTypeOK, LocTypeOK
<1> QED
  BY <1>1, <1>2, <1>3, <1>4, <1>5 DEF Next

\* Every table, request and ledger row keeps its shape, and a removal under way
\* still finds the ledger row it has read (removeTransaction reads it without a
\* lock, before anything else).
THEOREM TypeCorrect == Spec => []TypeOK
<1>1. Init => TypeOK
  BY InitTypeOK
<1>2. TypeOK /\ [Next]_vars => TypeOK'
  BY NextTypeOK
<1> QED
  BY <1>1, <1>2, PTL DEF Spec

-----------------------------------------------------------------------------
(* Nothing is promised or shipped beyond what is there *)

\* The checks of inbound, outbound, adjust and removeTransaction leave the total
\* at or above its hold.
LEMMA AcceptedTotal ==
  ASSUME TypeOK, StockCovered, NEW c \in Clerk, inv[c].phase = "open", Accepts(inv[c])
  PROVE  stock[inv[c].sku].quantity + Delta(inv[c]) >= stock[inv[c].sku].locked
<1> DEFINE op == inv[c]
           r == stock[op.sku]
<1>1. op \in Request /\ op.sku \in Sku /\ r \in Row /\ Delta(op) \in Int
  BY OpenRequestType
<1>2. op.kind \in Kind /\ op.quantity \in Nat
  BY <1>1 DEF Request
<1>3. r.quantity \in Int /\ r.locked \in Int /\ 0 <= r.locked /\ r.locked <= r.quantity
  BY <1>1 DEF Row, StockCovered, RowCovered, Covered
<1>4. TotalAccepts(op)
  BY DEF Accepts
<1>5. CASE op.kind \in {"INBOUND", "ADJUSTMENT_IN"}
  BY <1>2, <1>3, <1>5 DEF Delta
<1>6. CASE op.kind = "OUTBOUND"
  BY <1>2, <1>3, <1>4, <1>6 DEF Delta, TotalAccepts, AtLeastZero
<1>7. CASE op.kind = "ADJUSTMENT_OUT"
  BY <1>2, <1>3, <1>4, <1>7 DEF Delta, TotalAccepts
<1>8. CASE op.kind = "REMOVE"
  BY <1>1, <1>3, <1>4, <1>8 DEF TotalAccepts
<1> QED
  BY <1>2, <1>5, <1>6, <1>7, <1>8 DEF Kind

\* A manual operation commits a covered row.
LEMMA CommitCovered ==
  ASSUME TypeOK, StockCovered, NEW c \in Clerk, Commit(c)
  PROVE  StockCovered'
<1> DEFINE op == inv[c]
           l == WorkLocation(op)
           next == Moved(stock[op.sku], l, Delta(op))
<1>1. /\ op.sku \in Sku /\ stock[op.sku] \in Row
      /\ l \in Location \union {NoLocation} /\ Delta(op) \in Int
  BY OpenRequestType DEF Commit
<1>2. CellAccepts(stock[op.sku], l, Delta(op))
  BY DEF Commit, Accepts, LocationAccepts
<1>3. stock[op.sku].quantity + Delta(op) >= stock[op.sku].locked
  BY AcceptedTotal DEF Commit
<1>4. RowCovered(stock[op.sku])
  BY <1>1 DEF StockCovered
<1>5. RowCovered(next)
  BY <1>1, <1>2, <1>3, <1>4, MovedKeepsCovered
<1>6. stock' = [stock EXCEPT ![op.sku] = next]
  BY DEF Commit
<1>7. \A s \in Sku : RowCovered(stock'[s])
  BY <1>1, <1>5, <1>6 DEF StockCovered, TypeOK, DbTypeOK
<1> QED
  BY <1>7, CommitTxCovered DEF Commit

\* The rows are covered at the start ...
LEMMA InitCovered == Init => StockCovered
BY StockDbAssumption DEF Init, DbInit, StockCovered

\* ... and after every step.
LEMMA NextCovered == TypeOK /\ StockCovered /\ [Next]_vars => StockCovered'
<1> SUFFICES ASSUME TypeOK, StockCovered, [Next]_vars PROVE StockCovered'
  OBVIOUS
<1>1. ASSUME UNCHANGED <<stock, saved>> PROVE StockCovered'
  BY <1>1 DEF StockCovered
<1>2. CASE OrdStep
  BY <1>2, TypedToo, OrdStepCovered
<1>3. CASE InvStep
  <2>1. ASSUME NEW c \in Clerk, Commit(c) PROVE StockCovered'
    BY <2>1, CommitCovered
  <2>2. ASSUME NEW c \in Clerk, Reject(c) PROVE StockCovered'
    BY <2>2, RollbackTxCovered DEF Reject
  <2>3. ASSUME NEW c \in Clerk, NEW kind, NEW s, NEW q, NEW l, Open(c, kind, s, q, l)
        PROVE  UNCHANGED <<stock, saved>>
    BY <2>3 DEF Open
  <2>4. ASSUME NEW c \in Clerk, NEW i, ReadEntry(c, i) \/ LockForRemove(c) \/ LockWaitTimeout(c)
        PROVE  UNCHANGED <<stock, saved>>
    BY <2>4 DEF ReadEntry, LockForRemove, LockWaitTimeout, dbVars
  <2> QED
    BY <1>1, <1>3, <2>1, <2>2, <2>3, <2>4 DEF InvStep
<1>4. CASE LocStep
  BY <1>1, <1>4 DEF LocStep, BeginUpdate, BeginRemove, Load, FinishUpdate, FinishRemove,
                    dbVars
<1>5. CASE Crash
  BY <1>5 DEF Crash, RollbackAll, StockCovered
<1>6. CASE UNCHANGED vars
  BY <1>1, <1>6 DEF vars, dbVars
<1> QED
  BY <1>2, <1>3, <1>4, <1>5, <1>6 DEF Next

\* However orders, manual operations, location changes and crashes interleave, no
\* inventory row and no location row ever has more locked than is there, inside a
\* transaction or after it.  TypeOK is what the step needs besides: that requests
\* work on known SKUs, by the amounts the items and ledger rows say.
THEOREM NothingOverpromised == Spec => []StockCovered
<1>1. Init => TypeOK /\ StockCovered
  BY InitTypeOK, InitCovered
<1>2. TypeOK /\ StockCovered /\ [Next]_vars => (TypeOK /\ StockCovered)'
  BY NextTypeOK, NextCovered
<1> QED
  BY <1>1, <1>2, PTL DEF Spec

-----------------------------------------------------------------------------
(* Rows that are not locked are as committed *)

\* An inventory request past its row lock holds it: only then may Commit write.
OpenHoldsLock == \A c \in Clerk : inv[c].phase = "open" => owner[inv[c].sku] = c

Isolated == NoDirtyRows /\ OpenHoldsLock

\* The order service locks before it writes and leaves the locks of others alone.
LEMMA OrdStepIsolated ==
  ASSUME TypeOK, Isolated, OrdStep, UNCHANGED inv
  PROVE  Isolated'
<1>1. ASSUME UNCHANGED <<stock, saved, owner>> PROVE Isolated'
  BY <1>1 DEF Isolated, NoDirtyRows, OpenHoldsLock
<1>2. ASSUME NEW w \in Worker, Begin(w) PROVE UNCHANGED <<stock, saved, owner>>
  <2>1. \E o, phase, copy, effect : Start(w, o, phase, copy, effect)
    BY <1>2, Zenon DEF Begin, BeginMiniapp, BeginStatus, BeginCancel, BeginReceipt,
                       BeginPatch, BeginDelete
  <2> QED
    BY <2>1 DEF Start, dbVars
<1>3. ASSUME NEW o \in Order, NEW source, NEW type, NEW st, Create(o, source, type, st)
      PROVE  UNCHANGED <<stock, saved, owner>>
  BY <1>3 DEF Create, dbVars
<1>4. ASSUME NEW w \in Worker, Unlock(w)
      PROVE  OpenHoldsLock'
  <2> SUFFICES ASSUME NEW c \in Clerk, inv[c].phase = "open"
               PROVE  owner'[inv[c].sku] = c
    BY DEF OpenHoldsLock
  <2>1. inv[c].sku \in Sku /\ owner[inv[c].sku] = c /\ c # w
    BY OpenRequestType, NobodyElse DEF Isolated, OpenHoldsLock
  <2> QED
    BY <1>4, <2>1 DEF Unlock
<1>5. ASSUME NEW w \in Worker, Proceed(w) PROVE Isolated'
  <2>1. CASE StockStep(w)
    <3> DEFINE k == NextItem(w).sku
    <3>1. k \in Sku /\ CanLock(w, k)
      BY <2>1, AtItemType DEF StockStep, AtItem, Item, TypeOK
    <3>2. /\ \A s \in Sku \ {k} : stock'[s] = stock[s] /\ owner'[s] = owner[s]
          /\ owner'[k] = w /\ saved' = saved
      BY <2>1, <3>1 DEF StockStep, TypeOK, DbTypeOK
    <3>3. NoDirtyRows'
      BY <3>1, <3>2, NobodyElse DEF Isolated, NoDirtyRows
    <3>4. OpenHoldsLock'
      <4> SUFFICES ASSUME NEW c \in Clerk, inv[c].phase = "open"
                   PROVE  owner'[inv[c].sku] = c
        BY DEF OpenHoldsLock
      <4>1. inv[c].sku \in Sku /\ owner[inv[c].sku] = c /\ c # w /\ c # NoTx
        BY OpenRequestType, NobodyElse DEF Isolated, OpenHoldsLock
      <4> QED
        BY <3>1, <3>2, <4>1 DEF CanLock
    <3> QED
      BY <3>3, <3>4 DEF Isolated
  <2>2. CASE Save(w)
    <3>1. NoDirtyRows'
      BY <2>2 DEF Save, CommitTx, Unlock, Isolated, NoDirtyRows
    <3> QED
      BY <2>2, <3>1, <1>4 DEF Save, CommitTx, Isolated
  <2>3. CASE StockFail(w) \/ SaveFail(w) \/ LockWaitFails(w)
    <3>1. RollbackTx(w)
      BY <2>3 DEF StockFail, SaveFail, LockWaitFails, Abort
    <3>2. NoDirtyRows'
      BY <3>1 DEF RollbackTx, Unlock, Isolated, NoDirtyRows
    <3> QED
      BY <3>1, <3>2, <1>4 DEF RollbackTx, Isolated
  <2>4. CASE ReadRow(w) \/ Delete(w) \/ Patch(w)
    BY <2>4, <1>1 DEF ReadRow, Delete, Patch, dbVars
  <2> QED
    BY <1>5, <2>1, <2>2, <2>3, <2>4 DEF Proceed
<1> QED
  BY <1>1, <1>2, <1>3, <1>5 DEF OrdStep

\* A clerk that ends its transaction gives back its own locks only.
LEMMA ClerkDoneIsolated ==
  ASSUME TypeOK, Isolated, NEW c \in Clerk, Unlock(c), inv' = [inv EXCEPT ![c] = Idle]
  PROVE  OpenHoldsLock'
<1> SUFFICES ASSUME NEW d \in Clerk, inv'[d].phase = "open"
             PROVE  owner'[inv'[d].sku] = d
  BY DEF OpenHoldsLock
<1>1. d # c /\ inv'[d] = inv[d]
  BY DEF Idle, TypeOK, InvTypeOK
<1>2. inv[d].sku \in Sku /\ owner[inv[d].sku] = d
  BY <1>1, OpenRequestType DEF Isolated, OpenHoldsLock
<1> QED
  BY <1>1, <1>2 DEF Unlock

\* A clerk that takes the lock of a free row, and then is open on that row.
LEMMA ClerkLocksIsolated ==
  ASSUME TypeOK, Isolated, NEW c \in Clerk, NEW s \in Sku, NEW op,
         owner[s] = NoTx, owner' = [owner EXCEPT ![s] = c],
         inv' = [inv EXCEPT ![c] = op], op.sku = s, inv[c].phase # "open",
         UNCHANGED <<stock, saved>>
  PROVE  Isolated'
<1>1. NoDirtyRows'
  BY NobodyElse DEF Isolated, NoDirtyRows, TypeOK, DbTypeOK
<1>2. ASSUME NEW d \in Clerk, inv'[d].phase = "open"
      PROVE  owner'[inv'[d].sku] = d
  <2>1. CASE d = c
    BY <2>1 DEF TypeOK, DbTypeOK, InvTypeOK
  <2>2. CASE d # c
    <3>1. inv'[d] = inv[d]
      BY <2>2 DEF TypeOK, InvTypeOK
    <3>2. inv[d].sku \in Sku /\ owner[inv[d].sku] = d /\ d # NoTx
      BY <1>2, <3>1, OpenRequestType, NobodyElse DEF Isolated, OpenHoldsLock
    <3> QED
      BY <3>1, <3>2 DEF TypeOK, DbTypeOK
  <2> QED
    BY <2>1, <2>2
<1> QED
  BY <1>1, <1>2 DEF Isolated, OpenHoldsLock

\* Every step of the inventory service writes a row its clerk has locked.
LEMMA InvStepIsolated ==
  ASSUME TypeOK, Isolated, InvStep
  PROVE  Isolated'
<1>1. ASSUME NEW c \in Clerk, NEW kind, NEW s \in Sku, NEW q, NEW l,
             Open(c, kind, s, q, l)
      PROVE  Isolated'
  <2> DEFINE work == IF stock[s].exists THEN EffectiveLocation(stock[s], l) ELSE l
             op == [phase |-> "open", kind |-> kind, sku |-> s, quantity |-> q,
                    location |-> l, entry |-> 0, view |-> ViewOf(work, s)]
  <2>1. inv' = [inv EXCEPT ![c] = op] /\ op.sku = s
    BY <1>1 DEF Open
  <2>2. inv[c].phase # "open"
    BY <1>1 DEF Open, Idle
  <2> HIDE DEF op
  <2> QED
    BY <1>1, <2>1, <2>2, ClerkLocksIsolated DEF Open
<1>2. ASSUME NEW c \in Clerk, NEW i \in DOMAIN ledger, ReadEntry(c, i)
      PROVE  Isolated'
  <2>1. NoDirtyRows' /\ UNCHANGED owner
    BY <1>2 DEF ReadEntry, dbVars, Isolated, NoDirtyRows
  <2>2. inv'[c].phase # "open"
    BY <1>2 DEF ReadEntry, TypeOK, InvTypeOK
  <2>3. \A d \in Clerk \ {c} : inv'[d] = inv[d]
    BY <1>2 DEF ReadEntry, TypeOK, InvTypeOK
  <2> QED
    BY <2>1, <2>2, <2>3 DEF Isolated, OpenHoldsLock
<1>3. ASSUME NEW c \in Clerk, LockForRemove(c)
      PROVE  Isolated'
  <2> DEFINE op == [inv[c] EXCEPT !.phase = "open"]
  <2>1. inv[c] \in Request
    BY <1>3 DEF LockForRemove, Idle, TypeOK, InvTypeOK
  <2>2. op.sku = inv[c].sku /\ inv[c].sku \in Sku
    BY <2>1 DEF Request
  <2>3. inv' = [inv EXCEPT ![c] = op]
    BY <1>3 DEF LockForRemove
  <2> HIDE DEF op
  <2> QED
    BY <1>3, <2>2, <2>3, ClerkLocksIsolated DEF LockForRemove
<1>4. ASSUME NEW c \in Clerk, Commit(c)
      PROVE  Isolated'
  <2>1. inv[c].sku \in Sku /\ owner[inv[c].sku] = c
    BY <1>4, OpenRequestType DEF Commit, Isolated, OpenHoldsLock
  <2>2. \A s \in Sku : owner[s] # c => stock'[s] = stock[s]
    BY <1>4, <2>1 DEF Commit, TypeOK, DbTypeOK
  <2>3. NoDirtyRows'
    BY <1>4, <2>2 DEF Commit, CommitTx, Unlock, Isolated, NoDirtyRows
  <2> QED
    BY <1>4, <2>3, ClerkDoneIsolated DEF Commit, CommitTx, Isolated
<1>5. ASSUME NEW c \in Clerk, Reject(c)
      PROVE  Isolated'
  <2>1. NoDirtyRows'
    BY <1>5 DEF Reject, RollbackTx, Unlock, Isolated, NoDirtyRows
  <2> QED
    BY <1>5, <2>1, ClerkDoneIsolated DEF Reject, RollbackTx, Isolated
<1>6. ASSUME NEW c \in Clerk, LockWaitTimeout(c)
      PROVE  Isolated'
  <2>1. NoDirtyRows' /\ UNCHANGED owner
    BY <1>6 DEF LockWaitTimeout, dbVars, Isolated, NoDirtyRows
  <2>2. \A d \in Clerk : inv'[d] = IF d = c THEN Idle ELSE inv[d]
    BY <1>6 DEF LockWaitTimeout, TypeOK, InvTypeOK
  <2> QED
    BY <2>1, <2>2 DEF Isolated, OpenHoldsLock, Idle
<1> QED
  BY <1>1, <1>2, <1>3, <1>4, <1>5, <1>6 DEF InvStep

\* The location service touches no stock and no ledger row.
LEMMA LocStepStill ==
  ASSUME LocStep
  PROVE  UNCHANGED <<stock, saved, owner, ledger>>
BY DEF LocStep, BeginUpdate, BeginRemove, Load, FinishUpdate, FinishRemove, dbVars

\* So does every step of the warehouse.
LEMMA NextIsolated == TypeOK /\ Isolated /\ [Next]_vars => Isolated'
<1> SUFFICES ASSUME TypeOK, Isolated, [Next]_vars PROVE Isolated'
  OBVIOUS
<1>1. CASE UNCHANGED <<stock, saved, owner, inv>>
  BY <1>1 DEF Isolated, NoDirtyRows, OpenHoldsLock
<1>2. CASE LocStep /\ UNCHANGED <<orders, req, inv>>
  BY <1>1, <1>2, LocStepStill
<1>3. CASE Crash
  BY <1>3 DEF Crash, RollbackAll, Idle, Isolated, NoDirtyRows, OpenHoldsLock
<1> QED
  BY <1>1, <1>2, <1>3, OrdStepIsolated, InvStepIsolated DEF Next, vars, dbVars

\* A row that nobody has locked is as it was last committed, so what the reads
\* outside a transaction and the next transaction see is never half an operation.
\* The invariant needs OpenHoldsLock: Commit writes the row that Open locked.
THEOREM NoDirtyRowsEver == Spec => []NoDirtyRows
<1>1. Init => TypeOK /\ Isolated
  <2>1. Init => Isolated
    BY DEF Init, DbInit, InvInit, Idle, Isolated, NoDirtyRows, OpenHoldsLock
  <2> QED
    BY <2>1, InitTypeOK
<1>2. TypeOK /\ Isolated /\ [Next]_vars => (TypeOK /\ Isolated)'
  BY NextTypeOK, NextIsolated
<1>3. Isolated => NoDirtyRows
  BY DEF Isolated
<1> QED
  BY <1>1, <1>2, <1>3, PTL DEF Spec

-----------------------------------------------------------------------------
(* What the other services leave of the order side *)

\* Of the ledger rows that are there, a step of the inventory service at most marks
\* one removed, and the row it adds is no order's and holds nothing.
LEMMA CommitLedger ==
  ASSUME TypeOK, NEW c \in Clerk, Commit(c), NEW value, value \in [LedgerRow -> Int],
         \A e \in LedgerRow : value[[e EXCEPT !.removed = TRUE]] = value[e],
         \A e \in LedgerRow : e.order = NoOrder /\ e.hold = 0 => value[e] = 0
  PROVE  Worth(ledger', value) = Worth(ledger, value)
<1> DEFINE op == inv[c]
<1>1. /\ op \in Request /\ op.sku \in Sku /\ Delta(op) \in Int
      /\ WorkLocation(op) \in Location \union {NoLocation}
      /\ op.kind = "REMOVE" => op.entry \in DOMAIN ledger
  BY OpenRequestType DEF Commit
<1>2. ledger \in Seq(LedgerRow)
  BY DEF TypeOK, DbTypeOK
<1>3. Worth(ledger, value) \in Int
  BY <1>2, WorthInt
<1>4. CASE op.kind = "REMOVE"
  <2> DEFINE i == op.entry
             e == ledger[i]
             f == [e EXCEPT !.removed = TRUE]
  <2>1. e \in LedgerRow /\ i \in DOMAIN ledger
    BY <1>1, <1>4, LedgerRowType DEF TypeOK
  <2>2. f \in LedgerRow /\ value[f] = value[e] /\ value[e] \in Int
    BY <2>1 DEF LedgerRow
  <2>3. ledger' = [ledger EXCEPT ![i] = f]
    BY <1>4 DEF Commit
  <2> HIDE DEF f, i
  <2>4. Worth([ledger EXCEPT ![i] = f], value)
          = Worth(ledger, value) - value[ledger[i]] + value[f]
    <3>1. f \in LedgerRow
      BY <2>2
    <3>2. i \in DOMAIN ledger
      BY <2>1
    <3> QED
      BY <1>2, <3>1, <3>2, WorthReplace
  <2> QED
    BY <1>3, <2>2, <2>3, <2>4
<1>5. CASE op.kind # "REMOVE"
  <2> DEFINE e == Booked(op)
  <2>1. op.location \in Location \union {NoLocation} /\ op.kind \in Kind
    BY <1>1 DEF Request
  <2>2. e \in LedgerRow /\ e.order = NoOrder /\ e.hold = 0
    BY <1>1, <2>1 DEF Booked, LedgerRow, LedgerKind
  <2>3. value[e] = 0
    BY <2>2
  <2>4. ledger' = Append(ledger, e)
    BY <1>5 DEF Commit
  <2> HIDE DEF e
  <2>5. Worth(ledger', value) = Worth(ledger, value) + value[e]
    BY <1>2, <2>2, <2>4, WorthAppend
  <2> QED
    BY <1>3, <2>3, <2>5
<1> QED
  BY <1>4, <1>5

\* So to an order, and to the holds of a SKU, the ledger is worth what it was.
LEMMA CommitWorth ==
  ASSUME TypeOK, NEW c \in Clerk, Commit(c), NEW s \in Sku
  PROVE  /\ Worth(ledger', HoldIn(s)) = Worth(ledger, HoldIn(s))
         /\ \A o \in Order :
              /\ Worth(ledger', HoldOf(o, s)) = Worth(ledger, HoldOf(o, s))
              /\ Worth(ledger', DeltaOf(o, s)) = Worth(ledger, DeltaOf(o, s))
<1>1. \A e \in LedgerRow :
        LET f == [e EXCEPT !.removed = TRUE]
        IN  /\ f \in LedgerRow /\ f.sku = e.sku /\ f.order = e.order
            /\ f.hold = e.hold /\ f.delta = e.delta
  BY DEF LedgerRow
<1>2. Worth(ledger', HoldIn(s)) = Worth(ledger, HoldIn(s))
  <2>1. HoldIn(s) \in [LedgerRow -> Int]
    BY WeightsInt
  <2>2. \A e \in LedgerRow : HoldIn(s)[[e EXCEPT !.removed = TRUE]] = HoldIn(s)[e]
    BY <1>1 DEF HoldIn
  <2>3. \A e \in LedgerRow : e.order = NoOrder /\ e.hold = 0 => HoldIn(s)[e] = 0
    BY DEF HoldIn
  <2> QED
    BY <2>1, <2>2, <2>3, CommitLedger
<1>3. ASSUME NEW o \in Order
      PROVE  Worth(ledger', HoldOf(o, s)) = Worth(ledger, HoldOf(o, s))
  <2>1. HoldOf(o, s) \in [LedgerRow -> Int]
    BY WeightsInt
  <2>2. \A e \in LedgerRow : HoldOf(o, s)[[e EXCEPT !.removed = TRUE]] = HoldOf(o, s)[e]
    BY <1>1 DEF HoldOf
  <2>3. \A e \in LedgerRow : e.order = NoOrder /\ e.hold = 0 => HoldOf(o, s)[e] = 0
    BY DEF HoldOf
  <2> QED
    BY <2>1, <2>2, <2>3, CommitLedger
<1>4. ASSUME NEW o \in Order
      PROVE  Worth(ledger', DeltaOf(o, s)) = Worth(ledger, DeltaOf(o, s))
  <2>1. DeltaOf(o, s) \in [LedgerRow -> Int]
    BY WeightsInt
  <2>2. \A e \in LedgerRow : DeltaOf(o, s)[[e EXCEPT !.removed = TRUE]] = DeltaOf(o, s)[e]
    BY <1>1 DEF DeltaOf
  <2>3. \A e \in LedgerRow : e.order = NoOrder /\ e.hold = 0 => DeltaOf(o, s)[e] = 0
    BY StockDbAssumption DEF DeltaOf
  <2> QED
    BY <2>1, <2>2, <2>3, CommitLedger
<1> QED
  BY <1>2, <1>3, <1>4

\* Every other step of the inventory service writes nothing that is committed.
LEMMA InvStepCommits ==
  ASSUME InvStep
  PROVE  UNCHANGED <<ledger, saved>> \/ \E c \in Clerk : Commit(c)
<1>1. ASSUME NEW c \in Clerk, NEW kind, NEW s, NEW q, NEW l, Open(c, kind, s, q, l)
      PROVE  UNCHANGED <<ledger, saved>>
  BY <1>1 DEF Open
<1>2. ASSUME NEW c \in Clerk, \/ \E i \in DOMAIN ledger : ReadEntry(c, i)
                              \/ LockForRemove(c) \/ Reject(c) \/ LockWaitTimeout(c)
      PROVE  UNCHANGED <<ledger, saved>>
  BY <1>2 DEF ReadEntry, LockForRemove, Reject, RollbackTx, LockWaitTimeout, dbVars
<1> QED
  BY <1>1, <1>2 DEF InvStep

\* To the orders, a step that is not theirs leaves the books as they were.
LEMMA OthersBooks ==
  ASSUME OrderBooks, UNCHANGED <<orders, req>>,
         \A o \in Order, s \in Sku :
           /\ Worth(ledger', HoldOf(o, s)) = Worth(ledger, HoldOf(o, s))
           /\ Worth(ledger', DeltaOf(o, s)) = Worth(ledger, DeltaOf(o, s))
  PROVE  OrderBooks'
<1>1. AllRowsRight' /\ Alone' /\ Steady'
  BY DEF OrderBooks, AllRowsRight, Alone, Steady
<1>2. \A o \in Order : Agrees(ledger', o, orders[o])
  BY AgreesKept DEF OrderBooks, BooksRight
<1>3. \A o \in Order : Agrees(ledger, o, orders[o])' <=> Agrees(ledger', o, orders[o])
  <2>1. \A o \in Order, s \in Sku :
          HoldOf(o, s)' = HoldOf(o, s) /\ DeltaOf(o, s)' = DeltaOf(o, s)
    BY DEF HoldOf, DeltaOf
  <2> QED
    BY <2>1 DEF Agrees, Sold, Unsold, Need
<1> QED
  BY <1>1, <1>2, <1>3 DEF OrderBooks, BooksRight

\* A step that is not the order service's writes no row a worker has locked, and
\* leaves a row as committed when it gives it back.
LEMMA OthersLocking ==
  ASSUME Locking, UNCHANGED req,
         \A s \in Sku :
           \/ owner'[s] = owner[s] /\ stock'[s] = stock[s] /\ saved'[s] = saved[s]
           \/ owner[s] \notin Worker /\ owner'[s] \notin Worker /\ stock'[s] = saved'[s]
  PROVE  Locking'
<1>1. \A w \in Worker : Rows(w)' = Rows(w)
  BY DEF Rows
<1>2. \A s \in Sku : HoldIn(s)' = HoldIn(s) /\ DeltaIn(s)' = DeltaIn(s)
  BY DEF HoldIn, DeltaIn
<1>3. HoldersWork'
  BY DEF Locking, HoldersWork
<1>4. Pending'
  BY <1>1, <1>2 DEF Locking, Pending
<1> QED
  BY <1>3, <1>4 DEF Locking

\* What Commit makes of the stock: the row of the SKU, and nothing else.
LEMMA CommitShape ==
  ASSUME TypeOK, Isolated, Locking, NEW c \in Clerk, Commit(c)
  PROVE  LET op == inv[c]
             next == Moved(stock[op.sku], WorkLocation(op), Delta(op))
         IN  /\ op.sku \in Sku /\ owner[op.sku] = c /\ next \in Row
             /\ stock[op.sku] = saved[op.sku]
             /\ stock' = [stock EXCEPT ![op.sku] = next]
             /\ saved' = [saved EXCEPT ![op.sku] = next]
             /\ next.locked = saved[op.sku].locked
             /\ next.quantity = saved[op.sku].quantity + Delta(op)
<1> DEFINE op == inv[c]
           k == op.sku
           l == WorkLocation(op)
           next == Moved(stock[k], l, Delta(op))
<1>1. /\ k \in Sku /\ stock[k] \in Row /\ Delta(op) \in Int
      /\ l \in Location \union {NoLocation}
  BY OpenRequestType DEF Commit
<1>2. owner[k] = c
  BY DEF Commit, Isolated, OpenHoldsLock
<1>3. \A s \in Sku : owner[s] = c => stock[s] = saved[s]
  BY NobodyElse DEF Locking, Pending
<1>4. stock' = [stock EXCEPT ![k] = next]
  BY DEF Commit
<1>5. next \in Row
  BY <1>1, MovedType
<1>6. next.locked = stock[k].locked /\ next.quantity = stock[k].quantity + Delta(op)
  BY <1>1, MovedTotals
<1>7. \A s \in Sku : saved'[s] = IF owner[s] = c THEN stock'[s] ELSE saved[s]
  BY DEF Commit, CommitTx
<1>8. saved' = [saved EXCEPT ![k] = next]
  <2> HIDE DEF next, k
  <2>1. saved \in [Sku -> Row] /\ stock \in [Sku -> Row] /\ DOMAIN saved' = Sku
    BY DEF TypeOK, DbTypeOK, Commit, CommitTx
  <2>2. saved' = [s \in Sku |-> saved'[s]]
    BY DEF Commit, CommitTx
  <2>3. \A s \in Sku : saved'[s] = IF s = k THEN next ELSE saved[s]
    BY <1>1, <1>2, <1>3, <1>4, <1>7, <2>1
  <2> QED
    BY <1>1, <2>1, <2>2, <2>3
<1> QED
  BY <1>1, <1>2, <1>3, <1>4, <1>5, <1>6, <1>8

\* Nor does any step of the inventory service disturb what workers have pending.
LEMMA InvStepLocking ==
  ASSUME TypeOK, Isolated, Locking, InvStep, UNCHANGED req
  PROVE  Locking'
<1>1. ASSUME NEW c \in Clerk, NEW kind, NEW s \in Sku, NEW q, NEW l,
             Open(c, kind, s, q, l)
      PROVE  Locking'
  <2>1. owner[s] = NoTx /\ owner' = [owner EXCEPT ![s] = c] /\ UNCHANGED <<stock, saved>>
    BY <1>1 DEF Open
  <2>2. stock[s] = saved[s]
    BY <2>1 DEF Isolated, NoDirtyRows
  <2> QED
    BY <2>1, <2>2, NobodyElse, OthersLocking DEF TypeOK, DbTypeOK
<1>2. ASSUME NEW c \in Clerk, LockForRemove(c)
      PROVE  Locking'
  <2> DEFINE s == inv[c].sku
  <2>1. owner[s] = NoTx /\ owner' = [owner EXCEPT ![s] = c] /\ UNCHANGED <<stock, saved>>
    BY <1>2 DEF LockForRemove
  <2>2. \A t \in Sku : owner[t] = NoTx => stock[t] = saved[t]
    BY DEF Isolated, NoDirtyRows
  <2> HIDE DEF s
  <2> QED
    BY <2>1, <2>2, NobodyElse, OthersLocking DEF TypeOK, DbTypeOK
<1>3. ASSUME NEW c \in Clerk, Commit(c) PROVE Locking'
  <2>1. \A s \in Sku : owner[s] # c => stock'[s] = stock[s]
    BY <1>3, CommitShape DEF TypeOK, DbTypeOK
  <2>2. \A s \in Sku :
          /\ owner'[s] = IF owner[s] = c THEN NoTx ELSE owner[s]
          /\ saved'[s] = IF owner[s] = c THEN stock'[s] ELSE saved[s]
    BY <1>3 DEF Commit, CommitTx, Unlock
  <2> QED
    BY <2>1, <2>2, NobodyElse, OthersLocking
<1>4. ASSUME NEW c \in Clerk, Reject(c) PROVE Locking'
  <2>1. \A s \in Sku :
          /\ owner'[s] = IF owner[s] = c THEN NoTx ELSE owner[s]
          /\ stock'[s] = IF owner[s] = c THEN saved[s] ELSE stock[s]
          /\ saved'[s] = saved[s]
    BY <1>4 DEF Reject, RollbackTx, Unlock
  <2> QED
    BY <2>1, NobodyElse, OthersLocking
<1>5. ASSUME UNCHANGED <<stock, saved, owner>> PROVE Locking'
  BY <1>5, OthersLocking
<1>6. ASSUME NEW c \in Clerk, NEW i, ReadEntry(c, i) \/ LockWaitTimeout(c)
      PROVE  UNCHANGED <<stock, saved, owner>>
  BY <1>6 DEF ReadEntry, LockWaitTimeout, dbVars
<1> QED
  BY <1>1, <1>2, <1>3, <1>4, <1>5, <1>6 DEF InvStep

-----------------------------------------------------------------------------
(* The ledger explains the holds *)

\* What every step keeps, with however many requests on one order.
WarehouseInv ==
  TypeOK /\ Isolated /\ StockCovered /\ AllRowsRight /\ Locking /\ HoldsExplained

\* No manual operation moves lockedQuantity, or books a row that does.
LEMMA InvStepHolds ==
  ASSUME TypeOK, Isolated, Locking, HoldsExplained, InvStep
  PROVE  HoldsExplained'
<1>0. \A s \in Sku : HoldIn(s)' = HoldIn(s)
  BY DEF HoldIn
<1>1. CASE UNCHANGED <<ledger, saved>>
  BY <1>0, <1>1 DEF HoldsExplained
<1>2. ASSUME NEW c \in Clerk, Commit(c) PROVE HoldsExplained'
  <2>1. \A s \in Sku : Worth(ledger', HoldIn(s)) = Worth(ledger, HoldIn(s))
    BY <1>2, CommitWorth
  <2>2. \A s \in Sku : saved'[s].locked = saved[s].locked
    BY <1>2, CommitShape DEF TypeOK, DbTypeOK
  <2> QED
    BY <1>0, <2>1, <2>2 DEF HoldsExplained
<1> QED
  BY <1>1, <1>2, InvStepCommits

\* Everything the theorems rest on holds at the start.
LEMMA InitKeeps ==
  ASSUME Init
  PROVE  /\ WarehouseInv /\ OrderBooks /\ StockExplained
         /\ IsFiniteSet(Order) => Promises
<1>1. TypeOK
  BY InitTypeOK
<1>2. Isolated
  BY DEF Init, DbInit, InvInit, Idle, Isolated, NoDirtyRows, OpenHoldsLock
<1> QED
  BY <1>1, <1>2, StartKeeps DEF Init, WarehouseInv, OrderBooks

\* WarehouseInv is inductive, with any number of requests per order.
LEMMA NextWarehouseInv == WarehouseInv /\ [Next]_vars => WarehouseInv'
<1> SUFFICES ASSUME WarehouseInv, [Next]_vars PROVE WarehouseInv'
  OBVIOUS
<1>1. /\ TypeOK /\ Isolated /\ StockCovered /\ AllRowsRight /\ Locking
      /\ HoldsExplained /\ Typed
  BY TypedToo DEF WarehouseInv
<1>2. TypeOK' /\ Isolated' /\ StockCovered'
  BY <1>1, NextTypeOK, NextIsolated, NextCovered
<1>3. CASE OrdStep
  BY <1>1, <1>2, <1>3, OrdStepRows, OrdStepLocking, OrdStepExplained DEF WarehouseInv
<1>4. CASE InvStep /\ UNCHANGED <<orders, req, loc>>
  <2>1. AllRowsRight'
    BY <1>1, <1>4 DEF AllRowsRight
  <2> QED
    BY <1>1, <1>2, <1>4, <2>1, InvStepLocking, InvStepHolds DEF WarehouseInv
<1>5. ASSUME UNCHANGED <<stock, saved, owner, ledger, orders, req>> PROVE WarehouseInv'
  <2>1. AllRowsRight'
    BY <1>1, <1>5 DEF AllRowsRight
  <2>2. Locking'
    BY <1>1, <1>5, OthersLocking
  <2>3. \A s \in Sku : HoldIn(s)' = HoldIn(s)
    BY DEF HoldIn
  <2>4. HoldsExplained'
    BY <1>1, <1>5, <2>3 DEF HoldsExplained
  <2> QED
    BY <1>2, <2>1, <2>2, <2>4 DEF WarehouseInv
<1>6. CASE LocStep /\ UNCHANGED <<orders, req, inv>>
  BY <1>5, <1>6, LocStepStill
<1>7. CASE Crash
  BY <1>1, <1>2, <1>7, CrashKeeps, CrashLocking DEF Crash, WarehouseInv
<1>8. CASE UNCHANGED vars
  BY <1>5, <1>8 DEF vars, dbVars
<1> QED
  BY <1>3, <1>4, <1>6, <1>7, <1>8 DEF Next

\* lockedQuantity is the sum of the STOCK_LOCK rows of the ledger, less the
\* STOCK_RELEASE rows and the sales of orders, however many requests meet on one
\* order and whatever the manual operations and crashes between them.  The invariant
\* behind it says what an open transaction has written (Pending): the rows it will
\* book are worth the difference between stock and saved, in the SKUs it has locked
\* and in no other.
THEOREM HoldsAreExplained == Spec => []LedgerExplainsHolds
<1>1. Init => WarehouseInv
  BY InitKeeps
<1>2. WarehouseInv => LedgerExplainsHolds
  BY TypedToo, ExplainedTells DEF WarehouseInv
<1> QED
  BY <1>1, <1>2, NextWarehouseInv, PTL DEF Spec

-----------------------------------------------------------------------------
(* Order rows, and the ledger *)

\* Manual operations leave the books of the orders alone.
LEMMA InvStepBooks ==
  ASSUME TypeOK, OrderBooks, InvStep, UNCHANGED <<orders, req>>
  PROVE  OrderBooks'
<1>1. CASE UNCHANGED <<ledger, saved>>
  BY <1>1, OthersBooks
<1>2. ASSUME NEW c \in Clerk, Commit(c) PROVE OrderBooks'
  <2>1. \A o \in Order, s \in Sku :
          /\ Worth(ledger', HoldOf(o, s)) = Worth(ledger, HoldOf(o, s))
          /\ Worth(ledger', DeltaOf(o, s)) = Worth(ledger, DeltaOf(o, s))
    BY <1>2, CommitWorth
  <2> QED
    BY <2>1, OthersBooks
<1> QED
  BY <1>1, <1>2, InvStepCommits

\* What the plain endpoints write is an inventory row.
LEMMA RowWritten ==
  ASSUME NEW r \in Row, NEW x \in BOOLEAN, NEW q \in Int, NEW k \in Int,
         NEW h \in Location \union {NoLocation}
  PROVE  /\ [r EXCEPT !.exists = x, !.quantity = q] \in Row
         /\ [r EXCEPT !.exists = x, !.quantity = q, !.locked = k, !.home = h] \in Row
BY DEF Row

\* The plain endpoints write a row nobody has locked, and nothing else.
LEMMA RawStepType ==
  ASSUME TypeOK, RawNext
  PROVE  TypeOK' /\ UNCHANGED <<ledger, orders, req>>
<1>1. PICK s \in Sku : \/ \E q \in Amount : PatchQuantity(s, q) \/ CreateInventory(s, q)
                       \/ RemoveInventory(s)
  BY DEF RawNext, RawStep
<1>2. stock[s] \in Row /\ Amount \subseteq Nat
  BY InventoryAssumption DEF TypeOK, DbTypeOK
<1>3. stock' \in [Sku -> Row]
  <2>1. ASSUME NEW q \in Amount, PatchQuantity(s, q) PROVE stock' \in [Sku -> Row]
    <3>1. [stock[s] EXCEPT !.quantity = q] \in Row
      BY <1>2 DEF Row
    <3> QED
      BY <2>1, <3>1 DEF PatchQuantity, TypeOK, DbTypeOK
  <2>2. ASSUME NEW q \in Amount, CreateInventory(s, q) PROVE stock' \in [Sku -> Row]
    <3>1. [stock[s] EXCEPT !.exists = TRUE, !.quantity = q] \in Row
      <4>1. 0 \in Int /\ q \in Int /\ TRUE \in BOOLEAN
            /\ NoLocation \in Location \union {NoLocation}
        BY <1>2
      <4> QED
        BY <1>2, <4>1, RowWritten
    <3>2. stock' = [stock EXCEPT ![s] = [stock[s] EXCEPT !.exists = TRUE, !.quantity = q]]
      BY <2>2 DEF CreateInventory, TypeOK, DbTypeOK
    <3> QED
      BY <3>1, <3>2 DEF TypeOK, DbTypeOK
  <2>3. ASSUME RemoveInventory(s) PROVE stock' \in [Sku -> Row]
    <3> DEFINE r == [stock[s] EXCEPT !.exists = FALSE, !.quantity = 0, !.locked = 0,
                                     !.home = NoLocation]
    <3>1. r \in Row
      <4>1. 0 \in Int /\ FALSE \in BOOLEAN /\ NoLocation \in Location \union {NoLocation}
        OBVIOUS
      <4> QED
        BY <1>2, <4>1, RowWritten
    <3>2. stock' = [stock EXCEPT ![s] = r]
      BY <2>3 DEF RemoveInventory, TypeOK, DbTypeOK
    <3> HIDE DEF r
    <3> QED
      BY <3>1, <3>2 DEF TypeOK, DbTypeOK
  <2> QED
    BY <1>1, <2>1, <2>2, <2>3
<1>4. /\ saved' = [saved EXCEPT ![s] = stock'[s]]
      /\ UNCHANGED <<owner, ledger, status, inv, orders, req, loc>>
  BY <1>1 DEF RawNext, PatchQuantity, CreateInventory, RemoveInventory
<1>5. DbTypeOK'
  BY <1>3, <1>4 DEF TypeOK, DbTypeOK
<1> QED
  BY <1>4, <1>5 DEF TypeOK, OrdTypeOK, InvTypeOK, LocTypeOK

\* One request per order is all the books need, of the plain endpoints too.
LEMMA NextBooks ==
  ASSUME ~Overlap
  PROVE  TypeOK /\ OrderBooks /\ [Next \/ RawNext]_vars => (TypeOK /\ OrderBooks)'
<1> SUFFICES ASSUME TypeOK, OrderBooks, [Next \/ RawNext]_vars
             PROVE  TypeOK' /\ OrderBooks'
  OBVIOUS
<1>1. CASE Next
  <2>1. TypeOK'
    BY <1>1, NextTypeOK
  <2>2. CASE OrdStep
    BY <2>1, <2>2, TypedToo, OrdStepOrderBooks
  <2>3. CASE InvStep /\ UNCHANGED <<orders, req, loc>>
    BY <2>1, <2>3, InvStepBooks
  <2>4. CASE LocStep /\ UNCHANGED <<orders, req, inv>>
    BY <2>1, <2>4, LocStepStill, OthersBooks
  <2>5. CASE Crash
    BY <2>1, <2>5, CrashOrderBooks DEF Crash, RollbackAll
  <2> QED
    BY <1>1, <2>2, <2>3, <2>4, <2>5 DEF Next
<1>2. CASE RawNext
  BY <1>2, RawStepType, OthersBooks
<1>3. CASE UNCHANGED vars
  <2>1. UNCHANGED <<ledger, orders, req>>
    BY <1>3 DEF vars, dbVars
  <2> QED
    BY <1>3, <2>1, NextTypeOK, OthersBooks
<1> QED
  BY <1>1, <1>2, <1>3

\* While no two requests are in flight for one order, whatever else happens to the
\* stock: the audit rows of an order say it holds exactly what it needs when
\* stockLocked = 1 and nothing otherwise; what a closed or shipped order holds and
\* what has left for a mini-program order can be read off its status; and no order is
\* deducted twice.  The invariant (OrderBooks) follows a request from the row it read
\* (Steady, Fits) through the audit rows it has written so far (AllRowsRight).
THEOREM OrdersMatchLedger ==
  ASSUME ~Overlap
  PROVE  RawSpec => [](HoldMatchesLedger /\ StatusTellsStock /\ DeductedAtMostOnce)
<1>1. Init => TypeOK /\ OrderBooks
  BY InitKeeps DEF WarehouseInv
<1>2. TypeOK /\ OrderBooks => HoldMatchesLedger /\ StatusTellsStock /\ DeductedAtMostOnce
  BY TypedToo, BooksTell
<1>3. TypeOK /\ OrderBooks /\ [Next \/ RawNext]_vars => (TypeOK /\ OrderBooks)'
  BY NextBooks
<1> QED
  BY <1>1, <1>2, <1>3, PTL DEF RawSpec

\* And a completed, cancelled or rejected order stays what it is: what a request
\* read before the order was closed cannot be saved over it.
THEOREM ClosedStaysClosed ==
  ASSUME ~Overlap
  PROVE  RawSpec => TerminalIsFinal
<1>1. Init => TypeOK /\ OrderBooks
  BY InitKeeps DEF WarehouseInv
<1>2. TypeOK /\ OrderBooks /\ [Next \/ RawNext]_vars => (TypeOK /\ OrderBooks)'
  BY NextBooks
<1>3. TypeOK /\ OrderBooks /\ [Next \/ RawNext]_vars =>
        [\A o \in Order :
           orders[o].present /\ orders[o].status \in Terminal
             => orders'[o].status = orders[o].status]_ordVars
  <2> SUFFICES ASSUME TypeOK, OrderBooks, [Next \/ RawNext]_vars, NEW o \in Order,
                      orders[o].present, orders[o].status \in Terminal
               PROVE  orders'[o].status = orders[o].status
    OBVIOUS
  <2>1. CASE OrdStep
    BY <2>1, TypedToo, OrdStepFinal DEF OrderBooks
  <2>2. CASE UNCHANGED orders
    BY <2>2
  <2>3. CASE Crash \/ UNCHANGED vars \/ RawNext
    BY <2>3 DEF Crash, vars, RawNext
  <2> QED
    BY <2>1, <2>2, <2>3 DEF Next
<1> QED
  BY <1>1, <1>2, <1>3, PTL DEF RawSpec, TerminalIsFinal

-----------------------------------------------------------------------------
(* The open reservation book *)

\* A manual operation does not move lockedQuantity.
LEMMA CommitPromises ==
  ASSUME TypeOK, Isolated, Locking, Promises, NEW c \in Clerk, Commit(c), UNCHANGED orders
  PROVE  Promises'
<1>1. \A s \in Sku : saved'[s].locked = saved[s].locked
  BY CommitShape DEF TypeOK, DbTypeOK
<1>2. \A s \in Sku : HeldNeed(s)' = HeldNeed(s)
  BY DEF HeldNeed, Need
<1> QED
  BY <1>1, <1>2 DEF Promises

\* A manual operation that commits restocks one SKU, never below what is promised.
LEMMA CommitRestocks ==
  ASSUME TypeOK, Isolated, Locking, Promises, IsFiniteSet(Order), StockCovered,
         StockCovered', NEW c \in Clerk, Commit(c), UNCHANGED orders
  PROVE  \E s \in Sku : Book!Restock(s)
<1>0. PICK k \in Sku : k = inv[c].sku
  BY CommitShape
<1> DEFINE onHand == [s \in Sku |-> saved[s].quantity]
<1>1. PICK next \in Row : /\ saved' = [saved EXCEPT ![k] = next]
                          /\ next.locked = saved[k].locked
  BY <1>0, CommitShape
<1>2. saved \in [Sku -> Row]
  BY DEF TypeOK, DbTypeOK
<1>3. onHand' = [onHand EXCEPT ![k] = onHand'[k]]
  BY <1>1, <1>2
<1>4. onHand'[k] = next.quantity /\ saved'[k] = next
  BY <1>1, <1>2
<1>5. /\ Book!Promised(k) \in Int /\ Book!Promised(k) <= saved[k].locked
      /\ saved[k].locked \in Int
  BY TypedToo, PromisedIsThere
<1>6. next.locked <= next.quantity
  BY <1>4 DEF StockCovered, RowCovered, Covered
<1>7. next.quantity \in Int
  BY DEF Row
<1>8. onHand'[k] >= Book!Promised(k)
  BY <1>1, <1>4, <1>5, <1>6, <1>7
<1>9. Holding' = Holding
  BY DEF Holding
<1>10. Book!Restock(k)
  BY <1>3, <1>8, <1>9 DEF Book!Restock, Holding
<1> QED
  BY <1>10

LoneWarehouse == WarehouseInv /\ OrderBooks /\ Promises

\* In every step lockedQuantity stays what the orders hold.
LEMMA NextPromises ==
  ASSUME IsFiniteSet(Order)
  PROVE  LoneWarehouse /\ [Next]_vars => Promises'
<1> SUFFICES ASSUME LoneWarehouse, [Next]_vars PROVE Promises'
  OBVIOUS
<1>1. /\ TypeOK /\ Isolated /\ AllRowsRight /\ Locking /\ Typed /\ Steady /\ Promises
  BY TypedToo DEF LoneWarehouse, WarehouseInv, OrderBooks
<1>2. CASE OrdStep
  BY <1>1, <1>2, OrdStepPromises
<1>3. CASE UNCHANGED <<saved, orders>>
  BY <1>1, <1>3, PromisesKept
<1>4. CASE InvStep /\ UNCHANGED <<orders, req, loc>>
  BY <1>1, <1>3, <1>4, CommitPromises, InvStepCommits
<1>5. CASE LocStep /\ UNCHANGED <<orders, req, inv>>
  BY <1>3, <1>5, LocStepStill
<1> QED
  BY <1>2, <1>3, <1>4, <1>5 DEF Next, Crash, RollbackAll, vars, dbVars

\* LoneWarehouse is inductive, while no two requests are in flight for one order.
LEMMA NextLoneWarehouse ==
  ASSUME ~Overlap, IsFiniteSet(Order)
  PROVE  LoneWarehouse /\ [Next]_vars => LoneWarehouse'
<1> SUFFICES ASSUME LoneWarehouse, [Next]_vars PROVE LoneWarehouse'
  OBVIOUS
<1>1. WarehouseInv'
  BY NextWarehouseInv DEF LoneWarehouse
<1>2. OrderBooks'
  BY NextBooks DEF LoneWarehouse, WarehouseInv
<1>3. Promises'
  BY NextPromises
<1> QED
  BY <1>1, <1>2, <1>3 DEF LoneWarehouse

\* Orders and manual operations together, on shared rows: to the orders the stock is
\* still the reservation book, in which goods come and go but never those that are
\* promised.  inbound, outbound, adjust and removeTransaction check the hold of the
\* row they have locked, and what they commit is that row and nothing else: another
\* row they had locked would be as it was saved (CommitShape).
THEOREM WarehouseKeepsOpenBook ==
  ASSUME ~Overlap, IsFiniteSet(Order)
  PROVE  Spec => KeepsOpenBook
<1>1. Init => LoneWarehouse
  BY InitKeeps DEF LoneWarehouse
<1>2. Init => Book!BookInit
  <2> SUFFICES ASSUME Init PROVE Book!BookInit
    OBVIOUS
  <2>1. \A o \in Order : ~orders[o].held
    BY DEF Init, OrdInit, Unborn
  <2>2. \A s \in Sku : saved[s].quantity >= 0
    BY StockDbAssumption DEF Init, DbInit, RowCovered, Covered, Row
  <2> QED
    BY <2>1, <2>2 DEF Book!BookInit
<1>3. LoneWarehouse /\ [Next]_vars => LoneWarehouse'
  BY NextLoneWarehouse
<1>4. LoneWarehouse /\ [Next]_vars =>
        [Book!OrderMove \/ \E s \in Sku : Book!Restock(s)]_(Book!bookVars)
  <2> SUFFICES ASSUME LoneWarehouse, [Next]_vars
               PROVE  \/ Book!OrderMove
                      \/ \E s \in Sku : Book!Restock(s)
                      \/ UNCHANGED Book!bookVars
    OBVIOUS
  <2>1. /\ TypeOK /\ Isolated /\ AllRowsRight /\ Locking /\ Typed /\ Steady /\ Promises
        /\ StockCovered
    BY TypedToo DEF LoneWarehouse, WarehouseInv, OrderBooks
  <2>2. StockCovered'
    BY NextLoneWarehouse DEF LoneWarehouse, WarehouseInv
  <2>3. CASE OrdStep
    BY <2>1, <2>2, <2>3, OrdStepMovesBook
  <2>4. CASE UNCHANGED <<saved, orders>>
    BY <2>4 DEF Book!bookVars
  <2>5. CASE InvStep /\ UNCHANGED <<orders, req, loc>>
    BY <2>1, <2>2, <2>4, <2>5, CommitRestocks, InvStepCommits
  <2>6. CASE LocStep /\ UNCHANGED <<orders, req, inv>>
    BY <2>4, <2>6, LocStepStill
  <2> QED
    BY <2>3, <2>4, <2>5, <2>6 DEF Next, Crash, RollbackAll, vars, dbVars
<1> QED
  BY <1>1, <1>2, <1>3, <1>4, PTL DEF Spec, KeepsOpenBook, Book!OpenBookSpec

-----------------------------------------------------------------------------
(* The ledger explains the stock *)

Removing == {c \in Clerk : inv[c] # Idle /\ inv[c].kind = "REMOVE"}

\* A removal under way has read a ledger row of its SKU that is still booked, and it
\* is the only one.
RemovalsRight ==
  \A c \in Removing :
    /\ ~ledger[inv[c].entry].removed
    /\ ledger[inv[c].entry].sku = inv[c].sku
    /\ \A d \in Removing : d = c

\* While the ledger rows that are there stay as they are, and no removal begins.
LEMMA RemovalsKept ==
  ASSUME TypeOK, RemovalsRight, \A i \in DOMAIN ledger : ledger'[i] = ledger[i],
         \A c \in Clerk : \/ inv'[c] = Idle
                          \/ /\ inv[c] # Idle /\ inv'[c].kind = inv[c].kind
                             /\ inv'[c].entry = inv[c].entry /\ inv'[c].sku = inv[c].sku
                          \/ inv'[c].kind # "REMOVE"
  PROVE  RemovalsRight'
<1>1. Removing' \subseteq Removing
  BY DEF Removing
<1>2. ASSUME NEW c \in Removing'
      PROVE  /\ c \in Removing /\ inv'[c].entry = inv[c].entry /\ inv'[c].sku = inv[c].sku
             /\ inv[c].entry \in DOMAIN ledger
  <2>1. c \in Removing /\ c \in Clerk
    BY <1>1, <1>2 DEF Removing
  <2>2. inv[c].entry \in DOMAIN ledger
    BY <2>1 DEF Removing, TypeOK, InvTypeOK
  <2> QED
    BY <1>2, <2>1, <2>2 DEF Removing
<1> QED
  BY <1>1, <1>2 DEF RemovalsRight

\* The order service only adds to the ledger.
LEMMA OrdStepAdds ==
  ASSUME TypeOK, OrdStep
  PROVE  \A i \in DOMAIN ledger : ledger'[i] = ledger[i]
<1>1. ASSUME NEW w \in Worker, Save(w), NEW i \in DOMAIN ledger
      PROVE  ledger'[i] = ledger[i]
  <2>1. ledger' = ledger \o req[w].rows /\ req[w] # Free
    BY <1>1 DEF Save, Free
  <2>2. ledger \in Seq(LedgerRow) /\ req[w].rows \in Seq(LedgerRow)
    BY <2>1, TypedToo, RequestType DEF TypeOK, DbTypeOK
  <2> QED
    BY <2>1, <2>2
<1> QED
  BY <1>1, TypedToo, OrdStepCommits

\* One removal at a time finds the ledger row it read still booked.
LEMMA NextRemovals ==
  ASSUME MaxRemove <= 1, IsFiniteSet(Clerk)
  PROVE  TypeOK /\ RemovalsRight /\ [Next]_vars => RemovalsRight'
<1> SUFFICES ASSUME TypeOK, RemovalsRight, [Next]_vars PROVE RemovalsRight'
  OBVIOUS
<1>0. ASSUME UNCHANGED inv, \A i \in DOMAIN ledger : ledger'[i] = ledger[i]
      PROVE  RemovalsRight'
  BY <1>0, RemovalsKept
<1>1. CASE OrdStep /\ UNCHANGED <<inv, loc>>
  BY <1>0, <1>1, OrdStepAdds
<1>2. CASE LocStep /\ UNCHANGED <<orders, req, inv>>
  BY <1>0, <1>2, LocStepStill
<1>3. CASE Crash
  BY <1>3 DEF Crash, RemovalsRight, Removing
<1>4. CASE UNCHANGED vars
  BY <1>0, <1>4 DEF vars, dbVars
<1>5. ASSUME NEW c \in Clerk, NEW kind \in Kind \ {"REMOVE"}, NEW s, NEW q, NEW l,
             Open(c, kind, s, q, l)
      PROVE  RemovalsRight'
  <2>1. inv'[c].kind # "REMOVE" /\ \A d \in Clerk \ {c} : inv'[d] = inv[d]
    BY <1>5 DEF Open, TypeOK, InvTypeOK
  <2>2. UNCHANGED ledger
    BY <1>5 DEF Open
  <2> QED
    BY <2>1, <2>2, RemovalsKept
<1>6. ASSUME NEW c \in Clerk, NEW i \in DOMAIN ledger, ReadEntry(c, i)
      PROVE  RemovalsRight'
  <2>1. Removing = {}
    <3>1. Cardinality(Removing) < MaxRemove
      BY <1>6 DEF ReadEntry, Removing
    <3>2. IsFiniteSet(Removing)
      BY FS_Subset DEF Removing
    <3>3. Cardinality(Removing) \in Nat
      BY <3>2, FS_CardinalityType
    <3>4. Cardinality(Removing) = 0
      BY <3>1, <3>3, InventoryAssumption
    <3> QED
      BY <3>2, <3>4, FS_EmptySet
  <2> DEFINE op == [phase |-> "read", kind |-> "REMOVE", sku |-> ledger[i].sku,
                    quantity |-> 0, location |-> ledger[i].location, entry |-> i,
                    view |-> ViewOf(ledger[i].location, ledger[i].sku)]
  <2>2. inv' = [inv EXCEPT ![c] = op] /\ op.entry = i /\ op.sku = ledger[i].sku
    BY <1>6 DEF ReadEntry
  <2>3. ~ledger[i].removed /\ UNCHANGED ledger
    BY <1>6 DEF ReadEntry, dbVars
  <2> HIDE DEF op
  <2>4. Removing' \subseteq {c}
    BY <2>1, <2>2 DEF Removing, TypeOK, InvTypeOK
  <2>5. inv'[c].entry = i /\ inv'[c].sku = ledger[i].sku
    BY <2>2 DEF TypeOK, InvTypeOK
  <2> QED
    BY <2>3, <2>4, <2>5 DEF RemovalsRight
<1>7. ASSUME NEW c \in Clerk, LockForRemove(c)
      PROVE  RemovalsRight'
  <2>1. inv[c] \in Request /\ inv[c] # Idle
    BY <1>7 DEF LockForRemove, Idle, TypeOK, InvTypeOK
  <2>2. /\ inv'[c].kind = inv[c].kind /\ inv'[c].entry = inv[c].entry
        /\ inv'[c].sku = inv[c].sku
    BY <1>7, <2>1 DEF LockForRemove, TypeOK, InvTypeOK, Request
  <2>3. \A d \in Clerk \ {c} : inv'[d] = inv[d]
    BY <1>7 DEF LockForRemove, TypeOK, InvTypeOK
  <2>4. UNCHANGED ledger
    BY <1>7 DEF LockForRemove
  <2>5. \A d \in Clerk : \/ inv'[d] = Idle
                         \/ /\ inv[d] # Idle /\ inv'[d].kind = inv[d].kind
                            /\ inv'[d].entry = inv[d].entry /\ inv'[d].sku = inv[d].sku
                         \/ inv'[d].kind # "REMOVE"
    <3> TAKE d \in Clerk
    <3>1. CASE d = c
      BY <2>1, <2>2, <3>1
    <3>2. CASE d # c
      BY <2>3, <3>2
    <3> QED
      BY <3>1, <3>2
  <2> QED
    BY <2>4, <2>5, RemovalsKept
<1>8. ASSUME NEW c \in Clerk, Commit(c)
      PROVE  RemovalsRight'
  <2>1. \A d \in Clerk : inv'[d] = IF d = c THEN Idle ELSE inv[d]
    BY <1>8 DEF Commit, TypeOK, InvTypeOK
  <2>2. CASE inv[c].kind = "REMOVE"
    <3>1. c \in Removing
      BY <1>8, <2>2 DEF Commit, Removing, Idle
    <3>2. Removing' = {}
      BY <2>1, <3>1 DEF Removing, RemovalsRight
    <3> QED
      BY <3>2 DEF RemovalsRight
  <2>3. CASE inv[c].kind # "REMOVE"
    <3>1. ledger' = Append(ledger, Booked(inv[c]))
      BY <1>8, <2>3 DEF Commit
    <3>2. ledger \in Seq(LedgerRow)
      BY DEF TypeOK, DbTypeOK
    <3>3. \A i \in DOMAIN ledger : ledger'[i] = ledger[i]
      BY <3>1, <3>2
    <3> QED
      BY <2>1, <3>3, RemovalsKept
  <2> QED
    BY <2>2, <2>3
<1>9. ASSUME NEW c \in Clerk, Reject(c) \/ LockWaitTimeout(c)
      PROVE  RemovalsRight'
  <2>1. \A d \in Clerk : inv'[d] = IF d = c THEN Idle ELSE inv[d]
    BY <1>9 DEF Reject, LockWaitTimeout, TypeOK, InvTypeOK
  <2>2. UNCHANGED ledger
    BY <1>9 DEF Reject, RollbackTx, LockWaitTimeout, dbVars
  <2> QED
    BY <2>1, <2>2, RemovalsKept
<1> QED
  BY <1>1, <1>2, <1>3, <1>4, <1>5, <1>6, <1>7, <1>8, <1>9 DEF Next, InvStep

\* What a manual operation adds to quantity, the ledger says; a removal takes both
\* back.
LEMMA CommitStock ==
  ASSUME TypeOK, Isolated, Locking, StockExplained, RemovalsRight,
         NEW c \in Clerk, Commit(c)
  PROVE  StockExplained'
<1> DEFINE op == inv[c]
           k == op.sku
           d == Delta(op)
<1>1. /\ op \in Request /\ k \in Sku /\ d \in Int
      /\ WorkLocation(op) \in Location \union {NoLocation}
      /\ op.kind = "REMOVE" => op.entry \in DOMAIN ledger
  BY OpenRequestType DEF Commit
<1>2. ledger \in Seq(LedgerRow)
  BY DEF TypeOK, DbTypeOK
<1>3. SUFFICES ASSUME NEW s \in Sku
               PROVE  saved'[s].quantity = StartRow[s].quantity + Worth(ledger', DeltaIn(s))
  <2>1. \A s \in Sku : DeltaIn(s)' = DeltaIn(s)
    BY DEF DeltaIn
  <2> QED
    BY <2>1 DEF StockExplained
<1> DEFINE v == DeltaIn(s)
<1>4. v \in [LedgerRow -> Int] /\ Worth(ledger, v) \in Int
  BY <1>2, WeightsInt, WorthInt
<1>5. saved'[s].quantity = saved[s].quantity + (IF s = k THEN d ELSE 0)
  <2>1. saved[s].quantity \in Int
    BY DEF TypeOK, DbTypeOK, Row
  <2> QED
    BY <2>1, CommitShape DEF TypeOK, DbTypeOK
<1>6. saved[s].quantity = StartRow[s].quantity + Worth(ledger, v)
  BY DEF StockExplained
<1>7. Worth(ledger', v) = Worth(ledger, v) + (IF s = k THEN d ELSE 0)
  <2>1. CASE op.kind = "REMOVE"
    <3> DEFINE i == op.entry
               e == ledger[i]
               f == [e EXCEPT !.removed = TRUE]
    <3>1. i \in DOMAIN ledger /\ e \in LedgerRow
      BY <1>1, <2>1, LedgerRowType DEF TypeOK
    <3>2. c \in Removing
      BY <2>1 DEF Commit, Removing, Idle
    <3>3. ~e.removed /\ e.sku = k
      BY <3>2 DEF RemovalsRight
    <3>4. f \in LedgerRow /\ f.removed /\ f.sku = e.sku /\ e.delta \in Int
      BY <3>1 DEF LedgerRow
    <3>5. d = -e.delta
      BY <2>1 DEF Delta
    <3>6. ledger' = [ledger EXCEPT ![i] = f]
      BY <2>1 DEF Commit
    <3>7. v[f] = 0 /\ v[e] = IF s = k THEN e.delta ELSE 0
      BY <3>1, <3>3, <3>4 DEF DeltaIn
    <3> HIDE DEF f, v, i
    <3>8. Worth([ledger EXCEPT ![i] = f], v)
            = Worth(ledger, v) - v[ledger[i]] + v[f]
      <4>1. f \in LedgerRow
        BY <3>4
      <4>2. v \in [LedgerRow -> Int]
        BY <1>4
      <4>3. i \in DOMAIN ledger
        BY <3>1
      <4> QED
        BY <1>2, <4>1, <4>2, <4>3, WorthReplace
    <3> QED
      BY <1>4, <3>4, <3>5, <3>6, <3>7, <3>8
  <2>2. CASE op.kind # "REMOVE"
    <3> DEFINE e == Booked(op)
    <3>1. op.location \in Location \union {NoLocation} /\ op.kind \in Kind
      BY <1>1 DEF Request
    <3>2. e \in LedgerRow
      BY <1>1, <3>1 DEF Booked, LedgerRow, LedgerKind
    <3>3. e.sku = k /\ e.removed = FALSE /\ e.delta = d
      BY DEF Booked
    <3>4. v[e] = IF s = k THEN d ELSE 0
      BY <3>2, <3>3 DEF DeltaIn
    <3>5. ledger' = Append(ledger, e)
      BY <2>2 DEF Commit
    <3> HIDE DEF e, v
    <3>6. Worth(Append(ledger, e), v) = Worth(ledger, v) + v[e]
      <4>1. v \in [LedgerRow -> Int]
        BY <1>4
      <4> QED
        BY <1>2, <3>2, <4>1, WorthAppend
    <3> QED
      BY <3>4, <3>5, <3>6
  <2> QED
    BY <2>1, <2>2
<1>8. StartRow[s].quantity \in Int
  BY StockDbAssumption DEF Row
<1> HIDE DEF v, d, k
<1> QED
  BY <1>1, <1>4, <1>5, <1>6, <1>7, <1>8 DEF v, d, k

\* With RemovalsRight, what the ledger says of totals is inductive.
LEMMA StockExplainedEver ==
  ASSUME MaxRemove <= 1, IsFiniteSet(Clerk)
  PROVE  Spec => [](WarehouseInv /\ StockExplained)
<1> DEFINE I == WarehouseInv /\ StockExplained /\ RemovalsRight
<1>1. Init => I
  BY InitKeeps DEF Init, InvInit, RemovalsRight, Removing
<1>2. I /\ [Next]_vars => I'
  <2> SUFFICES ASSUME I, [Next]_vars PROVE I'
    OBVIOUS
  <2>1. /\ TypeOK /\ Isolated /\ AllRowsRight /\ Locking /\ Typed
        /\ StockExplained /\ RemovalsRight /\ WarehouseInv
    BY TypedToo DEF WarehouseInv
  <2>2. WarehouseInv' /\ RemovalsRight'
    BY <2>1, NextWarehouseInv, NextRemovals
  <2>3. CASE OrdStep
    BY <2>1, <2>2, <2>3, OrdStepExplained
  <2>4. ASSUME UNCHANGED <<ledger, saved>> PROVE StockExplained'
    <3>1. \A s \in Sku : DeltaIn(s)' = DeltaIn(s)
      BY DEF DeltaIn
    <3> QED
      BY <2>1, <2>4, <3>1 DEF StockExplained
  <2>5. CASE InvStep
    BY <2>1, <2>2, <2>4, <2>5, InvStepCommits, CommitStock
  <2>6. CASE LocStep
    BY <2>2, <2>4, <2>6, LocStepStill
  <2> QED
    BY <2>2, <2>3, <2>4, <2>5, <2>6 DEF Next, Crash, RollbackAll, vars, dbVars
<1> QED
  BY <1>1, <1>2, PTL DEF Spec

\* quantity is what it was at the start and what the ledger rows that are still
\* booked have moved, orders and manual operations together.  It takes two things of
\* removeTransaction: that only one is under way, and that the row it read before it
\* locked anything is still booked when it commits (RemovalsRight).  The second
\* follows from the first only: with two at a time the same row is taken back twice.
THEOREM StockIsExplained ==
  ASSUME MaxRemove <= 1, IsFiniteSet(Clerk)
  PROVE  Spec => []LedgerExplainsStock
<1>1. Spec => [](WarehouseInv /\ StockExplained)
  BY StockExplainedEver
<1>2. WarehouseInv /\ StockExplained => LedgerExplainsStock
  BY TypedToo, ExplainedTells DEF WarehouseInv
<1> QED
  BY <1>1, <1>2, PTL

-----------------------------------------------------------------------------
(* The location rows add up to the totals *)

\* Every ledger row, and every request in flight, names a location.
Placed ==
  /\ \A i \in DOMAIN ledger : ledger[i].location # NoLocation
  /\ \A c \in Clerk : inv[c] # Idle => inv[c].location # NoLocation

\* Orders book locations.
LEMMA OrdStepPlaced ==
  ASSUME TypeOK, AllRowsRight, Placed, OrdStep, UNCHANGED inv
  PROVE  Placed'
<1>1. ASSUME NEW w \in Worker, Save(w)
      PROVE  \A i \in DOMAIN ledger' : ledger'[i].location # NoLocation
  <2> DEFINE R == req[w].rows
  <2>1. ledger' = ledger \o R /\ req[w] # Free
    BY <1>1 DEF Save, Free
  <2>2. ledger \in Seq(LedgerRow) /\ R \in Seq(LedgerRow)
    BY <2>1, TypedToo, RequestType DEF TypeOK, DbTypeOK
  <2>3. \A i \in DOMAIN R : R[i].location # NoLocation
    <3>1. RowsRight(req[w])
      BY <2>1 DEF AllRowsRight
    <3>2. \A i \in DOMAIN R : R[i].location \in Location
      BY <3>1 DEF RowsRight, BooksItem
    <3> QED
      BY <3>2, LocationAssumption
  <2>4. \A i \in DOMAIN ledger : ledger[i].location # NoLocation
    BY DEF Placed
  <2> HIDE DEF R
  <2> SUFFICES ASSUME NEW i \in DOMAIN ledger'
               PROVE  ledger'[i].location # NoLocation
    OBVIOUS
  <2>5. CASE i \in DOMAIN ledger
    <3>1. ledger'[i] = ledger[i]
      BY <2>1, <2>2, <2>5
    <3> QED
      BY <2>4, <2>5, <3>1
  <2>6. CASE i \notin DOMAIN ledger
    <3>1. i - Len(ledger) \in DOMAIN R /\ ledger'[i] = R[i - Len(ledger)]
      BY <2>1, <2>2, <2>6
    <3> QED
      BY <2>3, <3>1
  <2> QED
    BY <2>5, <2>6
<1>2. \A i \in DOMAIN ledger' : ledger'[i].location # NoLocation
  BY <1>1, TypedToo, OrdStepCommits DEF Placed
<1> QED
  BY <1>2 DEF Placed

\* With a location in the request, the operation works on a location.
LEMMA OpenWorksSomewhere ==
  ASSUME TypeOK, Placed, NEW c \in Clerk, inv[c].phase = "open"
  PROVE  WorkLocation(inv[c]) \in Location /\ inv[c].location # NoLocation
<1>1. /\ inv[c] # Idle /\ stock[inv[c].sku] \in Row
      /\ WorkLocation(inv[c]) \in Location \union {NoLocation}
  BY OpenRequestType DEF Idle
<1>2. inv[c].location # NoLocation
  BY <1>1 DEF Placed
<1>3. WorkLocation(inv[c]) = inv[c].location
  BY <1>2 DEF WorkLocation, EffectiveLocation
<1> QED
  BY <1>1, <1>2, <1>3

\* Manual operations that name a location book it, and undo rows that name one.
LEMMA InvStepPlaced ==
  ASSUME NoLocation \notin ManualLocation, TypeOK, Placed, InvStep
  PROVE  Placed'
<1>1. ASSUME NEW c \in Clerk, NEW kind, NEW s, NEW q, NEW l \in ManualLocation,
             Open(c, kind, s, q, l)
      PROVE  Placed'
  <2>1. UNCHANGED ledger /\ l # NoLocation
    BY <1>1 DEF Open
  <2>2. inv'[c].location = l /\ \A d \in Clerk \ {c} : inv'[d] = inv[d]
    BY <1>1 DEF Open, TypeOK, InvTypeOK
  <2> QED
    BY <2>1, <2>2 DEF Placed
<1>2. ASSUME NEW c \in Clerk, NEW i \in DOMAIN ledger, ReadEntry(c, i)
      PROVE  Placed'
  <2>1. UNCHANGED ledger /\ ledger[i].location # NoLocation
    BY <1>2 DEF ReadEntry, dbVars, Placed
  <2>2. /\ inv'[c].location = ledger[i].location
        /\ \A d \in Clerk \ {c} : inv'[d] = inv[d]
    BY <1>2 DEF ReadEntry, TypeOK, InvTypeOK
  <2> QED
    BY <2>1, <2>2 DEF Placed
<1>3. ASSUME NEW c \in Clerk, LockForRemove(c)
      PROVE  Placed'
  <2>1. inv[c] \in Request /\ inv[c] # Idle /\ UNCHANGED ledger
    BY <1>3 DEF LockForRemove, Idle, TypeOK, InvTypeOK
  <2>2. inv'[c].location = inv[c].location
    BY <1>3, <2>1 DEF LockForRemove, TypeOK, InvTypeOK, Request
  <2>3. \A d \in Clerk \ {c} : inv'[d] = inv[d]
    BY <1>3 DEF LockForRemove, TypeOK, InvTypeOK
  <2>4. inv[c].location # NoLocation
    BY <2>1 DEF Placed
  <2> QED
    BY <2>1, <2>2, <2>3, <2>4 DEF Placed
<1>4. ASSUME NEW c \in Clerk, inv' = [inv EXCEPT ![c] = Idle],
             \A i \in DOMAIN ledger' : ledger'[i].location # NoLocation
      PROVE  Placed'
  BY <1>4 DEF Placed, TypeOK, InvTypeOK
<1>5. ASSUME NEW c \in Clerk, Commit(c)
      PROVE  \A i \in DOMAIN ledger' : ledger'[i].location # NoLocation
  <2> DEFINE op == inv[c]
  <2>1. /\ op \in Request /\ WorkLocation(op) \in Location /\ op.location # NoLocation
        /\ op.kind = "REMOVE" => op.entry \in DOMAIN ledger
    BY <1>5, OpenRequestType, OpenWorksSomewhere DEF Commit
  <2>2. \A i \in DOMAIN ledger : /\ ledger[i] \in LedgerRow
                                 /\ ledger[i].location # NoLocation
    BY LedgerRowType DEF TypeOK, Placed
  <2>3. CASE op.kind = "REMOVE"
    <3>1. ledger' = [ledger EXCEPT ![op.entry].removed = TRUE]
      BY <1>5, <2>3 DEF Commit
    <3>2. ledger'[op.entry].location = ledger[op.entry].location
      BY <2>1, <2>2, <2>3, <3>1 DEF LedgerRow
    <3> QED
      BY <2>1, <2>2, <2>3, <3>1, <3>2
  <2>4. CASE op.kind # "REMOVE"
    <3> DEFINE e == Booked(op)
    <3>1. e.location # NoLocation
      BY <2>1, LocationAssumption DEF Booked
    <3>2. ledger' = Append(ledger, e) /\ ledger \in Seq(LedgerRow)
      BY <1>5, <2>4 DEF Commit, TypeOK, DbTypeOK
    <3> HIDE DEF e
    <3> QED
      BY <2>2, <3>1, <3>2
  <2> QED
    BY <2>3, <2>4
<1>6. ASSUME NEW c \in Clerk, Reject(c) \/ LockWaitTimeout(c)
      PROVE  inv' = [inv EXCEPT ![c] = Idle] /\ UNCHANGED ledger
  BY <1>6 DEF Reject, RollbackTx, LockWaitTimeout, dbVars
<1>7. ASSUME NEW c \in Clerk, Commit(c) PROVE inv' = [inv EXCEPT ![c] = Idle]
  BY <1>7 DEF Commit
<1>8. \A i \in DOMAIN ledger : ledger[i].location # NoLocation
  BY DEF Placed
<1> QED
  BY <1>1, <1>2, <1>3, <1>4, <1>5, <1>6, <1>7, <1>8 DEF InvStep

\* The total and the location row of the operation move by the same amount.
LEMMA CommitAddsUp ==
  ASSUME TypeOK, Isolated, Locking, Placed, AllAddUp, NEW c \in Clerk, Commit(c)
  PROVE  AllAddUp'
<1> DEFINE op == inv[c]
           k == op.sku
           d == Delta(op)
           l == WorkLocation(op)
           r == stock[k]
           m == Moved(r, l, d)
<1>1. /\ k \in Sku /\ r \in Row /\ d \in Int /\ l \in Location
  BY OpenRequestType, OpenWorksSomewhere DEF Commit
<1>2. /\ stock' = [stock EXCEPT ![k] = m] /\ saved' = [saved EXCEPT ![k] = m]
      /\ stock[k] = saved[k]
  BY CommitShape
<1>3. AddsUp(r)
  BY <1>1 DEF AllAddUp
<1>4. /\ m.exists /\ m.home = IF r.exists THEN r.home ELSE l
      /\ m.quantity = r.quantity + d /\ m.locked = r.locked
      /\ QuantityAt(m) = QuantityAt(r) + (IF l = NoLocation THEN 0 ELSE d)
      /\ LockedAt(m) = LockedAt(r)
  BY <1>1, MovedTotals
<1>5. l # NoLocation
  BY <1>1, LocationAssumption
<1>6. stock \in [Sku -> Row] /\ saved \in [Sku -> Row]
  BY DEF TypeOK, DbTypeOK
<1> HIDE DEF m, r, l, d, k
<1>7. AddsUp(m)
  BY <1>3, <1>4, <1>5 DEF AddsUp
<1> QED
  BY <1>1, <1>2, <1>6, <1>7 DEF AllAddUp

\* So every step of the inventory service moves totals and location rows together.
LEMMA InvStepAddUp ==
  ASSUME TypeOK, Isolated, Locking, Placed, AllAddUp, InvStep
  PROVE  AllAddUp'
<1>1. ASSUME \A s \in Sku : stock'[s] \in {stock[s], saved[s]} /\ saved'[s] = saved[s]
      PROVE  AllAddUp'
  BY <1>1 DEF AllAddUp
<1>2. ASSUME NEW c \in Clerk, Reject(c) PROVE AllAddUp'
  BY <1>1, <1>2 DEF Reject, RollbackTx
<1>3. ASSUME UNCHANGED <<stock, saved>> PROVE AllAddUp'
  BY <1>1, <1>3
<1> QED
  BY <1>2, <1>3, CommitAddsUp
     DEF InvStep, Open, ReadEntry, LockForRemove, LockWaitTimeout, dbVars

\* The property is what AddsUp says of the committed rows.
LEMMA AddUpTells ==
  ASSUME AllAddUp, TypeOK
  PROVE  LocationsAddUp
<1>1. \A s \in Sku : /\ AtSum(saved[s], LAMBDA c : c.locked) = LockedAt(saved[s])
                     /\ AtSum(saved[s], LAMBDA c : c.quantity) = QuantityAt(saved[s])
  BY DEF AtSum, LockedAt, QuantityAt
<1>2. \A s \in Sku : AddsUp(saved[s])
  BY DEF AllAddUp
<1> HIDE DEF AtSum
<1> QED
  BY <1>1, <1>2 DEF LocationsAddUp, LocationHoldsAddUp, LocatedStockAddsUp, AddsUp

\* With Placed, what the location rows add up to is inductive.
LEMMA AddUpEver ==
  ASSUME NoLocation \notin ManualLocation, \A s \in Sku : AddsUp(StartRow[s])
  PROVE  Spec => [](WarehouseInv /\ AllAddUp)
<1> DEFINE I == WarehouseInv /\ AllAddUp /\ Placed
<1>1. Init => I
  <2>1. Init => AllAddUp
    BY DEF Init, DbInit, AllAddUp
  <2>2. Init => Placed
    BY DEF Init, DbInit, InvInit, Placed
  <2> QED
    BY <2>1, <2>2, InitKeeps
<1>2. I /\ [Next]_vars => I'
  <2> SUFFICES ASSUME I, [Next]_vars PROVE I'
    OBVIOUS
  <2>1. /\ TypeOK /\ Isolated /\ AllRowsRight /\ Locking /\ Typed
        /\ AllAddUp /\ Placed /\ WarehouseInv
    BY TypedToo DEF WarehouseInv
  <2>2. WarehouseInv'
    BY <2>1, NextWarehouseInv
  <2>3. CASE OrdStep /\ UNCHANGED <<inv, loc>>
    BY <2>1, <2>2, <2>3, OrdStepAddUp, OrdStepPlaced
  <2>4. CASE InvStep
    BY <2>1, <2>2, <2>4, InvStepAddUp, InvStepPlaced
  <2>5. ASSUME UNCHANGED <<stock, saved, ledger, inv>> PROVE I'
    <3>1. AllAddUp'
      BY <2>1, <2>5 DEF AllAddUp
    <3>2. Placed'
      BY <2>1, <2>5 DEF Placed
    <3> QED
      BY <2>2, <3>1, <3>2
  <2>6. CASE LocStep /\ UNCHANGED <<orders, req, inv>>
    BY <2>5, <2>6, LocStepStill
  <2>7. CASE Crash
    <3>1. AllAddUp'
      BY <2>1, <2>7 DEF Crash, RollbackAll, AllAddUp
    <3>2. Placed'
      BY <2>1, <2>7 DEF Crash, RollbackAll, Placed
    <3> QED
      BY <2>2, <3>1, <3>2
  <2>8. CASE UNCHANGED vars
    BY <2>5, <2>8 DEF vars, dbVars
  <2> QED
    BY <2>3, <2>4, <2>6, <2>7, <2>8 DEF Next
<1> QED
  BY <1>1, <1>2, PTL DEF Spec

\* The location rows of a SKU add up to its total and to the hold on it, when those
\* it starts with do and every manual operation names a location: an inbound without
\* one books no location even where it moves the default location, so that taking its
\* ledger row back would lower the total and leave the location as it is.  Placed
\* says that no such ledger row exists and no request carries one.
THEOREM LocationsFollowTotals ==
  ASSUME NoLocation \notin ManualLocation, \A s \in Sku : AddsUp(StartRow[s])
  PROVE  Spec => []LocationsAddUp
<1>1. Spec => [](WarehouseInv /\ AllAddUp)
  BY AddUpEver
<1>2. WarehouseInv /\ AllAddUp => LocationsAddUp
  BY AddUpTells DEF WarehouseInv
<1> QED
  BY <1>1, <1>2, PTL

-----------------------------------------------------------------------------
(* What the status of a location says *)

\* An effect of an order takes from location rows and adds to none; only a deduction
\* takes.
LEMMA OutcomesLower ==
  ASSUME NEW e \in Effect \ {"none"}, NEW r \in Row, NEW q \in Nat,
         NEW out \in Outcomes(e, r, q), NEW l \in Location
  PROVE  /\ out.row.at[l].quantity <= r.at[l].quantity
         /\ e # "deduct" => out.row.at[l].quantity = r.at[l].quantity
<1>0. FreeAt(r) \in [Location -> Int] /\ HeldAt(r) \in [Location -> Int]
  BY Capacities
<1>1. ASSUME NEW cap \in [Location -> Int], NEW sq \in {-1, 0}, NEW sl \in {-1, 1},
             out \in Passes(r, cap, q, sq, sl)
      PROVE  \E t \in Nat : out.row.at[l].quantity = r.at[l].quantity + sq * t
  <2>1. \E take \in Splits(cap, q) : out.row = Taken(r, take, q, sq, sl)
    BY <1>1, PassesShape
  <2>2. PICK take \in Splits(cap, q) : out.row = Taken(r, take, q, sq, sl)
    BY <2>1
  <2>3. take[l] \in Nat
    BY SplitsBounds
  <2>4. out.row.at[l].quantity = r.at[l].quantity + sq * take[l]
    BY <2>2 DEF Taken, Row
  <2> QED
    BY <2>3, <2>4
<1>2. r.at[l].quantity \in Int
  BY DEF Row, Cell
<1>3. CASE e = "lock"
  <2>1. out \in Passes(r, FreeAt(r), q, 0, 1)
    BY <1>3 DEF Outcomes, LockOutcomes
  <2>2. \E t \in Nat : out.row.at[l].quantity = r.at[l].quantity + 0 * t
    BY <1>0, <1>1, <2>1
  <2> QED
    BY <1>2, <2>2
<1>4. CASE e = "release"
  <2>1. out \in Passes(r, HeldAt(r), q, 0, -1)
    BY <1>4 DEF Outcomes, ReleaseOutcomes
  <2>2. \E t \in Nat : out.row.at[l].quantity = r.at[l].quantity + 0 * t
    BY <1>0, <1>1, <2>1
  <2> QED
    BY <1>2, <2>2
<1>5. CASE e = "deduct"
  <2>1. out \in Passes(r, HeldAt(r), q, -1, -1)
    BY <1>5 DEF Outcomes, DeductOutcomes
  <2>2. \E t \in Nat : out.row.at[l].quantity = r.at[l].quantity + (-1) * t
    BY <1>0, <1>1, <2>1
  <2> QED
    BY <1>2, <1>5, <2>2
<1> QED
  BY <1>3, <1>4, <1>5 DEF Effect

\* The step that moves the stock of an item books a row of an order, which says so
\* when it lowers a location row.
LEMMA StockStepLowers ==
  ASSUME Typed, NEW w \in Worker, StockStep(w)
  PROVE  /\ NextItem(w).sku \in Sku /\ CanLock(w, NextItem(w).sku)
         /\ owner' = [owner EXCEPT ![NextItem(w).sku] = w]
         /\ \A s \in Sku \ {NextItem(w).sku} : stock'[s] = stock[s]
         /\ \A l \in Location : stock'[NextItem(w).sku].at[l].quantity
                                  <= stock[NextItem(w).sku].at[l].quantity
         /\ \A v \in Worker \ {w} : req'[v] = req[v]
         /\ req[w].rows \in Seq(LedgerRow)
         /\ \E e \in LedgerRow :
              /\ req'[w].rows = Append(req[w].rows, e)
              /\ e.order # NoOrder
              /\ \/ e.delta < 0
                 \/ \A l \in Location : stock'[NextItem(w).sku].at[l].quantity
                                          = stock[NextItem(w).sku].at[l].quantity
<1> DEFINE k == NextItem(w).sku
           q == NextItem(w).quantity
<1>1. /\ req[w] \in OrderRequest /\ req[w].effect \in Effect \ {"none"}
      /\ k \in Sku /\ q \in Nat \ {0} /\ CanLock(w, k)
  BY AtItemType DEF Typed, StockStep, AtItem, Item
<1>2. PICK out \in ItemOutcomes(w) :
        /\ stock' = [stock EXCEPT ![k] = out.row]
        /\ owner' = [owner EXCEPT ![k] = w]
        /\ req' = [req EXCEPT
                     ![w].next = @ + 1,
                     ![w].viewed = TRUE,
                     ![w].view = IF req[w].viewed THEN @ ELSE orders[req[w].order],
                     ![w].rows = Append(@, ItemLedgerRow(w, out.location))]
  BY DEF StockStep
<1>3. stock[k] \in Row /\ stock \in [Sku -> Row]
  BY <1>1 DEF Typed, DbTypeOK
<1>4. out.location \in Location
  BY <1>1, <1>3, OutcomesKeepCovered DEF ItemOutcomes
<1>5. \A l \in Location :
        /\ out.row.at[l].quantity <= stock[k].at[l].quantity
        /\ req[w].effect # "deduct" => out.row.at[l].quantity = stock[k].at[l].quantity
  BY <1>1, <1>3, OutcomesLower DEF ItemOutcomes
<1> DEFINE e == ItemLedgerRow(w, out.location)
<1>6. e \in LedgerRow
  BY <1>4, ItemLedgerRowType DEF Typed, StockStep
<1>7. e.order # NoOrder /\ (req[w].effect = "deduct" => e.delta < 0)
  <2>1. req[w].order \in Order
    BY <1>1 DEF OrderRequest
  <2>2. e.order = req[w].order
    BY DEF ItemLedgerRow
  <2>3. req[w].effect = "deduct" => e.delta = -q
    BY DEF ItemLedgerRow
  <2> QED
    BY <1>1, <2>1, <2>2, <2>3, StockDbAssumption
<1>8. req[w].rows \in Seq(LedgerRow)
  BY <1>1 DEF OrderRequest
<1> HIDE DEF e
<1>9. req'[w].rows = Append(req[w].rows, e) /\ \A v \in Worker \ {w} : req'[v] = req[v]
  <2>1. req \in [Worker -> OrderRequest \union {Free}]
    BY DEF Typed, OrdTypeOK
  <2> QED
    BY <1>1, <1>2, <2>1 DEF OrderRequest, e
<1>10. stock'[k] = out.row /\ \A s \in Sku \ {k} : stock'[s] = stock[s]
  BY <1>1, <1>2, <1>3
<1> QED
  BY <1>1, <1>2, <1>5, <1>6, <1>7, <1>8, <1>9, <1>10

\* Inside a transaction of an order the location rows only go down.
Lowered ==
  \A s \in Sku, l \in Location : stock[s].at[l].quantity <= saved[s].at[l].quantity

\* What is committed goes down.
SavedFalls ==
  \A s \in Sku, l \in Location : saved'[s].at[l].quantity <= saved[s].at[l].quantity

\* The quantities that are compared are numbers.
LEMMA RowCells ==
  ASSUME NEW r \in Row, NEW l \in Location
  PROVE  r.at[l].quantity \in Int
BY DEF Row, Cell

LEMMA CellsType ==
  ASSUME DbTypeOK, NEW s \in Sku, NEW l \in Location
  PROVE  stock[s].at[l].quantity \in Int /\ saved[s].at[l].quantity \in Int
BY RowCells DEF DbTypeOK

\* Orders lower the stock of a location or leave it, whether they commit or not.
LEMMA OrdStepLowered ==
  ASSUME Typed, Lowered, OrdStep
  PROVE  Lowered' /\ SavedFalls /\ UNCHANGED status
<1>0. \A s \in Sku, l \in Location :
        stock[s].at[l].quantity \in Int /\ saved[s].at[l].quantity \in Int
  BY CellsType DEF Typed
<1>1. ASSUME UNCHANGED dbVars PROVE Lowered' /\ SavedFalls /\ UNCHANGED status
  <2>1. UNCHANGED <<stock, saved, status>>
    BY <1>1 DEF dbVars
  <2> QED
    BY <1>0, <2>1 DEF Lowered, SavedFalls
<1>2. ASSUME NEW w \in Worker, Begin(w) PROVE UNCHANGED dbVars
  <2>1. \E o, phase, copy, effect : Start(w, o, phase, copy, effect)
    BY <1>2, BeginShape
  <2> QED
    BY <2>1 DEF Start
<1>3. ASSUME NEW o \in Order, NEW source, NEW type, NEW st, Create(o, source, type, st)
      PROVE  UNCHANGED dbVars
  BY <1>3 DEF Create
<1>4. ASSUME NEW w \in Worker, StockStep(w)
      PROVE  Lowered' /\ SavedFalls /\ UNCHANGED status
  <2> DEFINE k == NextItem(w).sku
  <2>1. UNCHANGED <<saved, status>>
    BY <1>4 DEF StockStep
  <2>2. DbTypeOK'
    BY <1>4, StockStepType
  <2>3. \A s \in Sku, l \in Location : stock'[s].at[l].quantity \in Int
    BY <2>2, RowCells DEF DbTypeOK
  <2>4. /\ k \in Sku /\ \A s \in Sku \ {k} : stock'[s] = stock[s]
        /\ \A l \in Location : stock'[k].at[l].quantity <= stock[k].at[l].quantity
    BY <1>4, StockStepLowers
  <2> HIDE DEF k
  <2>5. \A s \in Sku, l \in Location :
          stock'[s].at[l].quantity <= stock[s].at[l].quantity
    BY <1>0, <2>3, <2>4
  <2> QED
    BY <1>0, <2>1, <2>3, <2>5 DEF Lowered, SavedFalls
<1>5. ASSUME NEW w \in Worker, Save(w)
      PROVE  Lowered' /\ SavedFalls /\ UNCHANGED status
  <2>1. stock' = stock
    BY <1>5 DEF Save
  <2>2. \A s \in Sku : saved'[s] = stock[s] \/ saved'[s] = saved[s]
    BY <1>5, <2>1 DEF Save, CommitTx
  <2>3. Lowered' /\ SavedFalls
    BY <1>0, <2>1, <2>2 DEF Lowered, SavedFalls
  <2> QED
    BY <1>5, <2>3 DEF Save
<1>6. ASSUME NEW w \in Worker, StockFail(w) \/ SaveFail(w) \/ LockWaitFails(w)
      PROVE  Lowered' /\ SavedFalls /\ UNCHANGED status
  <2>1. RollbackTx(w)
    BY <1>6, AbortShape DEF Abort
  <2>2. \A s \in Sku : stock'[s] = saved[s] \/ stock'[s] = stock[s]
    BY <2>1 DEF RollbackTx
  <2>3. UNCHANGED <<saved, status>>
    BY <2>1 DEF RollbackTx
  <2> QED
    BY <1>0, <2>2, <2>3 DEF Lowered, SavedFalls
<1>7. ASSUME NEW w \in Worker, ReadRow(w) \/ Delete(w) \/ Patch(w)
      PROVE  UNCHANGED dbVars
  BY <1>7 DEF ReadRow, Delete, Patch
<1> QED
  BY <1>1, <1>2, <1>3, <1>4, <1>5, <1>6, <1>7 DEF OrdStep, Proceed

\* The plain endpoints write inventory rows, not location rows.
LEMMA RawStepLowered ==
  ASSUME TypeOK, Lowered, RawNext
  PROVE  Lowered' /\ SavedFalls /\ UNCHANGED <<status, loc>>
<1>0. \A s \in Sku, l \in Location :
        stock[s].at[l].quantity \in Int /\ saved[s].at[l].quantity \in Int
  BY CellsType DEF TypeOK
<1>1. PICK s \in Sku : \/ \E q \in Amount : PatchQuantity(s, q) \/ CreateInventory(s, q)
                       \/ RemoveInventory(s)
  BY DEF RawNext, RawStep
<1>2. /\ saved' = [saved EXCEPT ![s] = stock'[s]]
      /\ UNCHANGED <<status, loc>>
  BY <1>1 DEF RawNext, PatchQuantity, CreateInventory, RemoveInventory
<1>3. stock \in [Sku -> Row] /\ saved \in [Sku -> Row] /\ stock[s] \in Row
  BY <1>1 DEF TypeOK, DbTypeOK
<1>4. /\ stock'[s].at = stock[s].at
      /\ \A t \in Sku \ {s} : stock'[t] = stock[t]
  <2>1. ASSUME NEW q \in Amount, PatchQuantity(s, q)
        PROVE  /\ stock'[s].at = stock[s].at
               /\ \A t \in Sku \ {s} : stock'[t] = stock[t]
    BY <1>3, <2>1 DEF PatchQuantity, Row
  <2>2. ASSUME NEW q \in Amount, CreateInventory(s, q)
        PROVE  /\ stock'[s].at = stock[s].at
               /\ \A t \in Sku \ {s} : stock'[t] = stock[t]
    BY <1>3, <2>2 DEF CreateInventory, Row
  <2>3. ASSUME RemoveInventory(s)
        PROVE  /\ stock'[s].at = stock[s].at
               /\ \A t \in Sku \ {s} : stock'[t] = stock[t]
    BY <1>3, <2>3 DEF RemoveInventory, Row
  <2> QED
    BY <1>1, <2>1, <2>2, <2>3
<1>5. \A t \in Sku : saved'[t] = IF t = s THEN stock'[s] ELSE saved[t]
  BY <1>2, <1>3
<1>6. ASSUME NEW t \in Sku
      PROVE  /\ stock'[t].at = stock[t].at
             /\ saved'[t].at = stock[t].at \/ saved'[t].at = saved[t].at
  BY <1>4, <1>5
<1> QED
  BY <1>0, <1>2, <1>6 DEF Lowered, SavedFalls

\* An order has taken goods out of stock.
OrderTook == \E i \in DOMAIN ledger : ledger[i].order # NoOrder /\ ledger[i].delta < 0

\* A worker that has lowered a location row is going to book that an order did so.
Taking ==
  \A w \in Worker, s \in Sku :
    owner[s] = w =>
      \/ \A l \in Location : stock[s].at[l].quantity = saved[s].at[l].quantity
      \/ \E i \in DOMAIN req[w].rows : /\ req[w].rows[i].order # NoOrder
                                      /\ req[w].rows[i].delta < 0

\* One more row does not hide those before it.
LEMMA TakesOn ==
  ASSUME NEW L, L \in Seq(LedgerRow), NEW M, M \in Seq(LedgerRow),
         \/ \E i \in DOMAIN L : L[i].order # NoOrder /\ L[i].delta < 0
         \/ \E i \in DOMAIN M : M[i].order # NoOrder /\ M[i].delta < 0
  PROVE  \E i \in DOMAIN (L \o M) : (L \o M)[i].order # NoOrder /\ (L \o M)[i].delta < 0
<1>1. CASE \E i \in DOMAIN L : L[i].order # NoOrder /\ L[i].delta < 0
  <2>1. PICK i \in DOMAIN L : L[i].order # NoOrder /\ L[i].delta < 0
    BY <1>1
  <2>2. i \in DOMAIN (L \o M) /\ (L \o M)[i] = L[i]
    OBVIOUS
  <2> QED
    BY <2>1, <2>2
<1>2. CASE \E i \in DOMAIN M : M[i].order # NoOrder /\ M[i].delta < 0
  <2>1. PICK i \in DOMAIN M : M[i].order # NoOrder /\ M[i].delta < 0
    BY <1>2
  <2>2. Len(L) + i \in DOMAIN (L \o M) /\ (L \o M)[Len(L) + i] = M[i]
    OBVIOUS
  <2> QED
    BY <2>1, <2>2
<1> QED
  BY <1>1, <1>2

\* The step that lowers a row adds such a ledger row to those the worker will commit.
LEMMA StockStepTaking ==
  ASSUME Typed, Locking, Taking, NEW w \in Worker, StockStep(w)
  PROVE  Taking'
<1> DEFINE k == NextItem(w).sku
           R == req[w].rows
<1>1. /\ k \in Sku /\ CanLock(w, k)
      /\ owner' = [owner EXCEPT ![k] = w]
      /\ \A s \in Sku \ {k} : stock'[s] = stock[s]
      /\ \A v \in Worker \ {w} : req'[v] = req[v]
      /\ R \in Seq(LedgerRow)
  BY StockStepLowers
<1>2. PICK e \in LedgerRow :
        /\ req'[w].rows = Append(R, e)
        /\ e.order # NoOrder
        /\ \/ e.delta < 0
           \/ \A l \in Location : stock'[k].at[l].quantity = stock[k].at[l].quantity
  BY StockStepLowers
<1>3. /\ UNCHANGED saved
      /\ \A s \in Sku : owner'[s] = IF s = k THEN w ELSE owner[s]
  BY <1>1 DEF StockStep, Typed, DbTypeOK
<1>4. \A s \in Sku : owner[s] \notin Worker => stock[s] = saved[s]
  BY DEF Locking, Pending
<1>5. owner[k] = w \/ owner[k] \notin Worker
  BY <1>1, NobodyElse DEF CanLock
<1> HIDE DEF k, R
<1>6. ASSUME \E i \in DOMAIN R : R[i].order # NoOrder /\ R[i].delta < 0
      PROVE  \E i \in DOMAIN Append(R, e) :
               Append(R, e)[i].order # NoOrder /\ Append(R, e)[i].delta < 0
  <2>1. PICK i \in DOMAIN R : R[i].order # NoOrder /\ R[i].delta < 0
    BY <1>6
  <2>2. i \in DOMAIN Append(R, e) /\ Append(R, e)[i] = R[i]
    BY <1>1
  <2> QED
    BY <2>1, <2>2
<1>7. ASSUME e.delta < 0
      PROVE  \E i \in DOMAIN Append(R, e) :
               Append(R, e)[i].order # NoOrder /\ Append(R, e)[i].delta < 0
  <2>1. Len(R) + 1 \in DOMAIN Append(R, e) /\ Append(R, e)[Len(R) + 1] = e
    BY <1>1
  <2> QED
    BY <1>2, <1>7, <2>1
<1>8. ASSUME NEW v \in Worker, NEW s \in Sku, owner'[s] = v, v # w
      PROVE  \/ \A l \in Location : stock'[s].at[l].quantity = saved'[s].at[l].quantity
             \/ \E i \in DOMAIN req'[v].rows : /\ req'[v].rows[i].order # NoOrder
                                              /\ req'[v].rows[i].delta < 0
  <2>1. s # k /\ owner[s] = v
    BY <1>3, <1>8
  <2> QED
    BY <1>1, <1>3, <1>8, <2>1 DEF Taking
<1>9. ASSUME NEW s \in Sku, owner'[s] = w
      PROVE  \/ \A l \in Location : stock'[s].at[l].quantity = saved'[s].at[l].quantity
             \/ \E i \in DOMAIN req'[w].rows : /\ req'[w].rows[i].order # NoOrder
                                              /\ req'[w].rows[i].delta < 0
  <2>1. \/ \A l \in Location : stock[s].at[l].quantity = saved[s].at[l].quantity
        \/ \E i \in DOMAIN R : R[i].order # NoOrder /\ R[i].delta < 0
    <3>1. CASE owner[s] = w
      BY <3>1 DEF Taking, R
    <3>2. CASE owner[s] # w
      BY <1>3, <1>4, <1>5, <1>9, <3>2
    <3> QED
      BY <3>1, <3>2
  <2>2. CASE e.delta < 0
    BY <1>2, <1>7, <2>2
  <2>3. CASE \E i \in DOMAIN R : R[i].order # NoOrder /\ R[i].delta < 0
    BY <1>2, <1>6, <2>3
  <2>4. CASE /\ \A l \in Location : stock'[k].at[l].quantity = stock[k].at[l].quantity
             /\ \A l \in Location : stock[s].at[l].quantity = saved[s].at[l].quantity
    BY <1>1, <1>3, <2>4
  <2> QED
    BY <1>2, <2>1, <2>2, <2>3, <2>4
<1> QED
  BY <1>8, <1>9 DEF Taking

\* Every step of the order service keeps the account.
LEMMA OrdStepTaking ==
  ASSUME Typed, Locking, Taking, OrdStep
  PROVE  Taking'
<1>1. ASSUME UNCHANGED <<stock, saved, owner, req>> PROVE Taking'
  BY <1>1 DEF Taking
<1>2. ASSUME NEW w \in Worker,
             \A s \in Sku : owner'[s] = w => FALSE,
             \A s \in Sku : \A v \in Worker \ {w} :
               owner'[s] = v => /\ owner[s] = v /\ stock'[s] = stock[s]
                               /\ saved'[s] = saved[s] /\ req'[v] = req[v]
      PROVE  Taking'
  BY <1>2 DEF Taking
<1>3. req \in [Worker -> OrderRequest \union {Free}]
  BY DEF Typed, OrdTypeOK
<1>4. ASSUME NEW w \in Worker, Begin(w) PROVE Taking'
  <2>1. PICK o, phase, copy, effect : Start(w, o, phase, copy, effect)
    BY <1>4, BeginShape
  <2>2. req[w] = Free
    BY <1>4, BeginShape DEF MayBegin
  <2>3. /\ \A v \in Worker \ {w} : req'[v] = req[v]
        /\ UNCHANGED <<stock, saved, owner>>
    BY <1>3, <2>1 DEF Start, dbVars
  <2>4. \A s \in Sku : owner[s] # w
    BY <2>2 DEF Locking, HoldersWork
  <2> QED
    BY <1>2, <2>3, <2>4
<1>5. ASSUME NEW o \in Order, NEW source, NEW type, NEW st, Create(o, source, type, st)
      PROVE  Taking'
  BY <1>1, <1>5 DEF Create, dbVars
<1>6. ASSUME NEW w \in Worker, Save(w) PROVE Taking'
  <2>1. /\ \A v \in Worker \ {w} : req'[v] = req[v]
        /\ \A s \in Sku : /\ owner'[s] = IF owner[s] = w THEN NoTx ELSE owner[s]
                          /\ stock'[s] = stock[s]
                          /\ owner[s] # w => saved'[s] = saved[s]
    BY <1>3, <1>6 DEF Save, CommitTx, Unlock
  <2> QED
    BY <1>2, <2>1, NobodyElse
<1>7. ASSUME NEW w \in Worker, StockFail(w) \/ SaveFail(w) \/ LockWaitFails(w)
      PROVE  Taking'
  <2>1. Abort(w)
    BY <1>7, AbortShape
  <2>2. /\ \A v \in Worker \ {w} : req'[v] = req[v]
        /\ \A s \in Sku : /\ owner'[s] = IF owner[s] = w THEN NoTx ELSE owner[s]
                          /\ saved'[s] = saved[s]
                          /\ owner[s] # w => stock'[s] = stock[s]
    BY <1>3, <2>1 DEF Abort, RollbackTx, Unlock
  <2> QED
    BY <1>2, <2>2, NobodyElse
<1>8. ASSUME NEW w \in Worker, ReadRow(w) PROVE Taking'
  <2>1. /\ \A v \in Worker : req'[v].rows = req[v].rows
        /\ UNCHANGED <<stock, saved, owner>>
    <3>1. req[w] \in OrderRequest
      BY <1>3, <1>8 DEF ReadRow, Free
    <3> QED
      BY <1>3, <1>8, <3>1 DEF ReadRow, dbVars, OrderRequest
  <2> QED
    BY <2>1 DEF Taking
<1>9. ASSUME NEW w \in Worker, Delete(w) \/ Patch(w) PROVE Taking'
  <2>1. /\ \A v \in Worker \ {w} : req'[v] = req[v]
        /\ UNCHANGED <<stock, saved, owner>> /\ req[w].phase # "working"
    BY <1>3, <1>9 DEF Delete, Patch, dbVars
  <2>2. \A s \in Sku : owner[s] # w
    BY <2>1 DEF Locking, HoldersWork
  <2> QED
    BY <1>2, <2>1, <2>2
<1> QED
  BY <1>4, <1>5, <1>6, <1>7, <1>8, <1>9, StockStepTaking DEF OrdStep, Proceed

\* A location that an order empties has a ledger row that says so.
LEMMA OrdStepEmpties ==
  ASSUME Typed, Lowered, Taking, Locking, OrdStep
  PROVE  /\ OrderTook => OrderTook'
         /\ \A s \in Sku, l \in Location :
              saved'[s].at[l].quantity = saved[s].at[l].quantity \/ OrderTook'
<1>1. CASE UNCHANGED <<ledger, saved>>
  BY <1>1 DEF OrderTook
<1>2. ASSUME NEW w \in Worker, Save(w)
      PROVE  /\ OrderTook => OrderTook'
             /\ \A s \in Sku, l \in Location :
                  saved'[s].at[l].quantity = saved[s].at[l].quantity \/ OrderTook'
  <2>1. /\ ledger' = ledger \o req[w].rows
        /\ \A s \in Sku : saved'[s] = IF owner[s] = w THEN stock[s] ELSE saved[s]
    BY <1>2 DEF Save, CommitTx
  <2>2. ledger \in Seq(LedgerRow) /\ req[w].rows \in Seq(LedgerRow)
    BY <1>2 DEF Save, Free, Typed, DbTypeOK, OrdTypeOK, OrderRequest
  <2>3. ASSUME OrderTook \/ \E i \in DOMAIN req[w].rows : /\ req[w].rows[i].order # NoOrder
                                                       /\ req[w].rows[i].delta < 0
        PROVE  OrderTook'
    <3>1. \E i \in DOMAIN ledger' : ledger'[i].order # NoOrder /\ ledger'[i].delta < 0
      BY <2>1, <2>2, <2>3, TakesOn DEF OrderTook
    <3> QED
      BY <3>1 DEF OrderTook
  <2>4. ASSUME NEW s \in Sku, NEW l \in Location
        PROVE  saved'[s].at[l].quantity = saved[s].at[l].quantity \/ OrderTook'
    BY <2>1, <2>3 DEF Taking
  <2> QED
    BY <2>3, <2>4
<1> QED
  BY <1>1, <1>2, OrdStepCommits

\* What Moved makes of the location rows: the one it works on moves, no other.
LEMMA MovedCells ==
  ASSUME NEW r \in Row, NEW l \in Location \union {NoLocation}, NEW d \in Int,
         NEW m \in Location
  PROVE  Moved(r, l, d).at[m].quantity =
           r.at[m].quantity + (IF m = l THEN d ELSE 0)
<1> DEFINE home == IF r.exists THEN r.home ELSE l
           base == [r EXCEPT !.exists = TRUE, !.home = home, !.quantity = @ + d]
<1>5. r.at[m].quantity \in Int
  BY RowCells
<1>0. home \in Location \union {NoLocation}
  BY DEF Row
<1>1. /\ base \in Row /\ base.at = r.at /\ base.rows = r.rows /\ base.locked = r.locked
      /\ base.quantity = r.quantity + d
  <2> HIDE DEF home
  <2> QED
    BY <1>0, RowRaised
<1>2. Moved(r, l, d) = CellChanged(base, l, d)
  BY DEF Moved
<1>3. CASE l = NoLocation \/ d = 0
  <2>1. Moved(r, l, d).at = r.at
    BY <1>1, <1>2, <1>3 DEF CellChanged
  <2>2. m = l => d = 0
    BY <1>3, LocationAssumption
  <2> QED
    BY <1>5, <2>1, <2>2
<1>4. CASE l # NoLocation /\ d # 0
  <2> DEFINE cell == [r.at[l] EXCEPT !.quantity = @ + d]
             at2 == [r.at EXCEPT ![l] = cell]
  <2>1. l \in Location /\ r.at \in [Location -> Cell] /\ r.at[l] \in Cell
    BY <1>4 DEF Row
  <2>2. cell.quantity = r.at[l].quantity + d
    BY <2>1 DEF Cell
  <2>3. CellChanged(base, l, d) = [base EXCEPT !.rows = base.rows \union {l}, !.at = at2]
    BY <1>1, <1>4 DEF CellChanged
  <2>4. at2[m] = IF m = l THEN cell ELSE r.at[m]
    BY <2>1
  <2> HIDE DEF base, at2, cell
  <2>5. [base EXCEPT !.rows = base.rows \union {l}, !.at = at2].at = at2
    BY <1>1 DEF Row
  <2>6. Moved(r, l, d).at[m] = IF m = l THEN cell ELSE r.at[m]
    BY <1>2, <2>3, <2>4, <2>5
  <2> QED
    BY <1>5, <2>2, <2>6
<1> QED
  BY <1>3, <1>4

\* Only Commit changes what is committed, the ledger or a status, and no step of the
\* inventory service changes a row that a worker has locked.
LEMMA InvStepQuiet ==
  ASSUME TypeOK, Locking, InvStep
  PROVE  \/ \E c \in Clerk : Commit(c)
         \/ /\ UNCHANGED <<saved, ledger, status>>
            /\ \A s \in Sku : /\ stock'[s] = stock[s]
                              /\ owner'[s] \in Worker => owner'[s] = owner[s]
<1>1. \A s \in Sku : owner[s] \notin Worker => stock[s] = saved[s]
  BY DEF Locking, Pending
<1>2. ASSUME NEW c \in Clerk, NEW s \in Sku, UNCHANGED <<stock, saved, ledger, status>>,
             owner' = [owner EXCEPT ![s] = c]
      PROVE  \A t \in Sku : /\ stock'[t] = stock[t]
                            /\ owner'[t] \in Worker => owner'[t] = owner[t]
  BY <1>2, NobodyElse DEF TypeOK, DbTypeOK
<1>3. ASSUME NEW c \in Clerk, Reject(c)
      PROVE  /\ UNCHANGED <<saved, ledger, status>>
             /\ \A s \in Sku : /\ stock'[s] = stock[s]
                               /\ owner'[s] \in Worker => owner'[s] = owner[s]
  BY <1>1, <1>3, NobodyElse DEF Reject, RollbackTx, Unlock
<1>4. ASSUME NEW c \in Clerk, LockForRemove(c)
      PROVE  /\ UNCHANGED <<saved, ledger, status>>
             /\ \A s \in Sku : /\ stock'[s] = stock[s]
                               /\ owner'[s] \in Worker => owner'[s] = owner[s]
  <2>1. inv[c] \in Request
    BY <1>4 DEF LockForRemove, Idle, TypeOK, InvTypeOK
  <2>2. inv[c].sku \in Sku
    BY <2>1 DEF Request
  <2> QED
    BY <1>2, <1>4, <2>2 DEF LockForRemove
<1>5. ASSUME NEW c \in Clerk, NEW kind, NEW s \in Sku, NEW q, NEW l,
             Open(c, kind, s, q, l)
      PROVE  /\ UNCHANGED <<saved, ledger, status>>
             /\ \A t \in Sku : /\ stock'[t] = stock[t]
                               /\ owner'[t] \in Worker => owner'[t] = owner[t]
  BY <1>2, <1>5 DEF Open
<1>6. ASSUME UNCHANGED dbVars
      PROVE  /\ UNCHANGED <<saved, ledger, status>>
             /\ \A s \in Sku : /\ stock'[s] = stock[s]
                               /\ owner'[s] \in Worker => owner'[s] = owner[s]
  BY <1>6 DEF dbVars
<1> QED
  BY <1>3, <1>4, <1>5, <1>6 DEF InvStep, ReadEntry, LockWaitTimeout

\* A manual operation leaves the rows of the workers, and what they are going to book.
LEMMA InvStepTaking ==
  ASSUME TypeOK, Isolated, Locking, Taking, Lowered, InvStep, UNCHANGED req
  PROVE  Taking' /\ Lowered'
<1>0. \A s \in Sku, l \in Location :
        stock[s].at[l].quantity \in Int /\ saved[s].at[l].quantity \in Int
  BY CellsType DEF TypeOK
<1>1. CASE /\ UNCHANGED <<saved, ledger, status>>
           /\ \A s \in Sku : /\ stock'[s] = stock[s]
                             /\ owner'[s] \in Worker => owner'[s] = owner[s]
  BY <1>1 DEF Taking, Lowered
<1>2. ASSUME NEW c \in Clerk, Commit(c)
      PROVE  Taking' /\ Lowered'
  <2> DEFINE k == inv[c].sku
             next == Moved(stock[k], WorkLocation(inv[c]), Delta(inv[c]))
  <2>1. /\ k \in Sku /\ owner[k] = c /\ next \in Row
        /\ stock' = [stock EXCEPT ![k] = next]
        /\ saved' = [saved EXCEPT ![k] = next]
    BY <1>2, CommitShape
  <2>2. \A s \in Sku : owner'[s] = IF owner[s] = c THEN NoTx ELSE owner[s]
    BY <1>2 DEF Commit, CommitTx, Unlock
  <2>3. \A l \in Location : next.at[l].quantity \in Int
    BY <2>1, RowCells
  <2> HIDE DEF next, k
  <2>4. \A s \in Sku : IF s = k THEN stock'[s] = next /\ saved'[s] = next
                       ELSE stock'[s] = stock[s] /\ saved'[s] = saved[s]
    BY <2>1 DEF TypeOK, DbTypeOK
  <2>5. Lowered'
    BY <2>3, <2>4 DEF Lowered
  <2>6. Taking'
    BY <2>2, <2>4, NobodyElse DEF Taking
  <2> QED
    BY <2>5, <2>6
<1> QED
  BY <1>1, <1>2, InvStepQuiet

\* No order touches a row that a clerk has locked.
LEMMA OrdStepLeaves ==
  ASSUME Typed, OrdStep, NEW s \in Sku, owner[s] \in Clerk
  PROVE  stock'[s] = stock[s]
<1>1. ASSUME NEW w \in Worker, Begin(w) PROVE stock' = stock
  <2>1. \E o, phase, copy, effect : Start(w, o, phase, copy, effect)
    BY <1>1, BeginShape
  <2> QED
    BY <2>1 DEF Start, dbVars
<1>2. ASSUME NEW o \in Order, NEW source, NEW type, NEW st, Create(o, source, type, st)
      PROVE  stock' = stock
  BY <1>2 DEF Create, dbVars
<1>3. ASSUME NEW w \in Worker, StockStep(w) PROVE stock'[s] = stock[s]
  BY <1>3, StockStepLowers, NobodyElse DEF CanLock
<1>4. ASSUME NEW w \in Worker, StockFail(w) \/ SaveFail(w) \/ LockWaitFails(w)
      PROVE  stock'[s] = stock[s]
  <2>1. RollbackTx(w)
    BY <1>4, AbortShape DEF Abort
  <2> QED
    BY <2>1, NobodyElse DEF RollbackTx
<1>5. ASSUME NEW w \in Worker, Save(w) \/ ReadRow(w) \/ Delete(w) \/ Patch(w)
      PROVE  stock' = stock
  BY <1>5 DEF Save, ReadRow, Delete, Patch, dbVars
<1> QED
  BY <1>1, <1>2, <1>3, <1>4, <1>5 DEF OrdStep, Proceed

\* What a manual operation has seen of the other SKUs at its location is still so,
\* or an order has shipped in the meantime.
ViewTrue(c) ==
  LET op == inv[c]
      l == WorkLocation(op)
  IN  l # NoLocation =>
        /\ op.view.othersHere =>
             OrderTook \/ \E t \in Sku \ {op.sku} : saved[t].at[l].quantity > 0
        /\ ~op.view.othersHere =>
             \A t \in Sku \ {op.sku} : saved[t].at[l].quantity <= 0

ViewsTrue == \A c \in Clerk : inv[c] # Idle => ViewTrue(c)

\* A removal is the only operation that reads before it locks.
ReadsRemove == \A c \in Clerk : inv[c].phase = "read" => inv[c].kind = "REMOVE"

\* Without the location service, a status is only ever what updateLocationOccupancy says.
TwoStatuses == \A l \in Location : status[l] \in {"OCCUPIED", "AVAILABLE"}

\* A view stays true while its clerk rests on its lock and only orders touch the rest.
LEMMA ViewKept ==
  ASSUME TypeOK, DbTypeOK', ReadsRemove, NEW c \in Clerk, inv[c] # Idle, inv'[c] = inv[c],
         ViewTrue(c), OrderTook => OrderTook',
         inv[c].phase = "open" => stock'[inv[c].sku] = stock[inv[c].sku],
         \A s \in Sku \ {inv[c].sku}, l \in Location :
           \/ saved'[s].at[l].quantity = saved[s].at[l].quantity
           \/ OrderTook' /\ saved'[s].at[l].quantity <= saved[s].at[l].quantity
  PROVE  ViewTrue(c)'
<1> DEFINE op == inv[c]
           l == WorkLocation(op)
<1>1. op \in Request
  BY DEF TypeOK, InvTypeOK
<1>2. op.sku \in Sku /\ op.location \in Location \union {NoLocation}
      /\ op.phase \in {"read", "open"}
  BY <1>1 DEF Request
<1>3. l \in Location \union {NoLocation}
  <2>1. stock[op.sku] \in Row
    BY <1>2 DEF TypeOK, DbTypeOK
  <2> QED
    BY <1>2, <2>1, EffectiveLocationType DEF WorkLocation
<1>4. WorkLocation(inv[c])' = l
  BY <1>2 DEF ReadsRemove, WorkLocation
<1>5. \A s \in Sku, m \in Location :
        saved[s].at[m].quantity \in Int /\ saved'[s].at[m].quantity \in Int
  <2>1. \A s \in Sku, m \in Location : saved'[s].at[m].quantity \in Int
    BY RowCells DEF DbTypeOK
  <2> QED
    BY <2>1, CellsType DEF TypeOK
<1>6. l # NoLocation =>
        /\ op.view.othersHere =>
             OrderTook \/ \E t \in Sku \ {op.sku} : saved[t].at[l].quantity > 0
        /\ ~op.view.othersHere =>
             \A t \in Sku \ {op.sku} : saved[t].at[l].quantity <= 0
  BY DEF ViewTrue
<1> HIDE DEF op, l
<1>7. l # NoLocation =>
        /\ op.view.othersHere =>
             OrderTook' \/ \E t \in Sku \ {op.sku} : saved'[t].at[l].quantity > 0
        /\ ~op.view.othersHere =>
             \A t \in Sku \ {op.sku} : saved'[t].at[l].quantity <= 0
  <2> SUFFICES ASSUME l # NoLocation
               PROVE  /\ op.view.othersHere =>
                           OrderTook' \/ \E t \in Sku \ {op.sku} :
                                           saved'[t].at[l].quantity > 0
                      /\ ~op.view.othersHere =>
                           \A t \in Sku \ {op.sku} : saved'[t].at[l].quantity <= 0
    OBVIOUS
  <2>1. \A s \in Sku \ {op.sku} :
          /\ saved[s].at[l].quantity \in Int /\ saved'[s].at[l].quantity \in Int
          /\ \/ saved'[s].at[l].quantity = saved[s].at[l].quantity
             \/ OrderTook' /\ saved'[s].at[l].quantity <= saved[s].at[l].quantity
    BY <1>3, <1>5 DEF op
  <2>2. CASE op.view.othersHere
    BY <1>6, <2>1, <2>2
  <2>3. CASE ~op.view.othersHere
    BY <1>6, <2>1, <2>3
  <2> QED
    BY <2>2, <2>3
<1> QED
  BY <1>4, <1>7 DEF ViewTrue, op, l

\* Orders do not disturb the views of the manual operations.
LEMMA OrdStepViews ==
  ASSUME TypeOK, DbTypeOK', Isolated, Locking, Lowered, Taking, ReadsRemove, ViewsTrue,
         OrdStep, UNCHANGED inv
  PROVE  ViewsTrue'
<1>1. Typed
  BY TypedToo
<1>2. /\ OrderTook => OrderTook'
      /\ \A s \in Sku, l \in Location :
           saved'[s].at[l].quantity = saved[s].at[l].quantity \/ OrderTook'
  BY <1>1, OrdStepEmpties
<1>3. \A s \in Sku, l \in Location : saved'[s].at[l].quantity <= saved[s].at[l].quantity
  BY <1>1, OrdStepLowered DEF SavedFalls
<1>4. ASSUME NEW c \in Clerk, inv[c] # Idle
      PROVE  ViewTrue(c)'
  <2>1. ASSUME inv[c].phase = "open" PROVE stock'[inv[c].sku] = stock[inv[c].sku]
    <3>1. inv[c].sku \in Sku /\ owner[inv[c].sku] = c
      BY <2>1, OpenRequestType DEF Isolated, OpenHoldsLock
    <3> QED
      BY <1>1, <3>1, OrdStepLeaves
  <2>2. inv'[c] = inv[c] /\ ViewTrue(c)
    BY <1>4 DEF ViewsTrue
  <2> QED
    BY <1>2, <1>3, <1>4, <2>1, <2>2, ViewKept
<1> QED
  BY <1>4 DEF ViewsTrue

\* A request that looks at a location sees it as it is.
LEMMA ViewTaken ==
  ASSUME DbTypeOK, NEW l \in Location \union {NoLocation}, NEW s \in Sku
  PROVE  l # NoLocation =>
           /\ ViewOf(l, s).othersHere =>
                \E t \in Sku \ {s} : saved[t].at[l].quantity > 0
           /\ ~ViewOf(l, s).othersHere =>
                \A t \in Sku \ {s} : saved[t].at[l].quantity <= 0
<1> SUFFICES ASSUME l # NoLocation
             PROVE  /\ ViewOf(l, s).othersHere =>
                         \E t \in Sku \ {s} : saved[t].at[l].quantity > 0
                    /\ ~ViewOf(l, s).othersHere =>
                         \A t \in Sku \ {s} : saved[t].at[l].quantity <= 0
  OBVIOUS
<1>1. ViewOf(l, s).othersHere <=> \E t \in Sku \ {s} : saved[t].at[l].quantity > 0
  BY DEF ViewOf
<1>2. \A t \in Sku : saved[t].at[l].quantity \in Int
  BY CellsType
<1> QED
  BY <1>1, <1>2

\* Steps of the inventory service that commit nothing.
LEMMA QuietViews ==
  ASSUME TypeOK, DbTypeOK', ReadsRemove, ViewsTrue, InvStep,
         UNCHANGED <<saved, ledger, status>>, \A s \in Sku : stock'[s] = stock[s]
  PROVE  ViewsTrue' /\ ReadsRemove'
<1>0. inv \in [Clerk -> Request \union {Idle}]
  BY DEF TypeOK, InvTypeOK
<1>1. ASSUME NEW c \in Clerk, inv[c] # Idle, inv'[c] = inv[c]
      PROVE  ViewTrue(c)'
  <2>1. inv[c] \in Request
    BY <1>0, <1>1
  <2>2. inv[c].sku \in Sku
    BY <2>1 DEF Request
  <2>3. ViewTrue(c) /\ (OrderTook => OrderTook')
    BY <1>1 DEF ViewsTrue, OrderTook
  <2> QED
    BY <1>1, <2>2, <2>3, ViewKept
<1>2. ASSUME NEW c \in Clerk, \A d \in Clerk \ {c} : inv'[d] = inv[d],
             inv'[c] # Idle => ViewTrue(c)' /\ (inv'[c].phase = "read" => inv'[c].kind = "REMOVE")
      PROVE  ViewsTrue' /\ ReadsRemove'
  <2>1. ViewsTrue'
    BY <1>1, <1>2 DEF ViewsTrue
  <2>2. ReadsRemove'
    BY <1>2 DEF ReadsRemove, Idle
  <2> QED
    BY <2>1, <2>2
<1>3. ASSUME NEW c \in Clerk, NEW l \in Location \union {NoLocation},
             inv'[c].sku \in Sku, WorkLocation(inv[c])' = l,
             inv'[c].view = ViewOf(l, inv'[c].sku)
      PROVE  ViewTrue(c)'
  <2> DEFINE s == inv'[c].sku
  <2>1. l # NoLocation =>
          /\ ViewOf(l, s).othersHere => \E t \in Sku \ {s} : saved[t].at[l].quantity > 0
          /\ ~ViewOf(l, s).othersHere => \A t \in Sku \ {s} : saved[t].at[l].quantity <= 0
    BY <1>3, ViewTaken DEF TypeOK
  <2> HIDE DEF s
  <2>2. l # NoLocation =>
          /\ inv'[c].view.othersHere => \E t \in Sku \ {s} : saved'[t].at[l].quantity > 0
          /\ ~inv'[c].view.othersHere => \A t \in Sku \ {s} : saved'[t].at[l].quantity <= 0
    BY <1>3, <2>1 DEF s
  <2> QED
    BY <1>3, <2>2 DEF ViewTrue, s
<1>4. ASSUME NEW c \in Clerk, NEW kind \in Kind \ {"REMOVE"}, NEW s \in Sku, NEW q,
             NEW l \in ManualLocation, Open(c, kind, s, q, l)
      PROVE  ViewsTrue' /\ ReadsRemove'
  <2> DEFINE work == IF stock[s].exists THEN EffectiveLocation(stock[s], l) ELSE l
             op == [phase |-> "open", kind |-> kind, sku |-> s, quantity |-> q,
                    location |-> l, entry |-> 0, view |-> ViewOf(work, s)]
  <2>1. inv'[c] = op /\ \A d \in Clerk \ {c} : inv'[d] = inv[d]
    BY <1>0, <1>4 DEF Open
  <2>2. work \in Location \union {NoLocation}
    <3>1. stock[s] \in Row /\ l \in Location \union {NoLocation}
      BY InventoryAssumption DEF TypeOK, DbTypeOK
    <3> QED
      BY <3>1, EffectiveLocationType
  <2>3. WorkLocation(inv[c])' = work
    <3>1. /\ inv'[c].kind = kind /\ inv'[c].sku = s /\ inv'[c].location = l
          /\ stock'[s] = stock[s]
      BY <2>1
    <3> QED
      BY <3>1 DEF WorkLocation
  <2>4. /\ inv'[c].sku = s /\ inv'[c].phase = "open"
        /\ inv'[c].view = ViewOf(work, inv'[c].sku)
    BY <2>1
  <2> HIDE DEF work, op
  <2>5. ViewTrue(c)'
    BY <1>3, <2>2, <2>3, <2>4
  <2> QED
    BY <1>2, <2>1, <2>4, <2>5
<1>5. ASSUME NEW c \in Clerk, NEW i \in DOMAIN ledger, ReadEntry(c, i)
      PROVE  ViewsTrue' /\ ReadsRemove'
  <2>1. /\ inv'[c].sku = ledger[i].sku /\ inv'[c].location = ledger[i].location
        /\ inv'[c].kind = "REMOVE"
        /\ inv'[c].view = ViewOf(ledger[i].location, ledger[i].sku)
        /\ \A d \in Clerk \ {c} : inv'[d] = inv[d]
    BY <1>0, <1>5 DEF ReadEntry
  <2>2. ledger[i] \in LedgerRow
    BY LedgerRowType DEF TypeOK
  <2>3. ledger[i].location \in Location \union {NoLocation} /\ ledger[i].sku \in Sku
    BY <2>2 DEF LedgerRow
  <2>4. WorkLocation(inv[c])' = ledger[i].location
    BY <2>1 DEF WorkLocation
  <2>5. ViewTrue(c)'
    BY <1>3, <2>1, <2>3, <2>4
  <2> QED
    BY <1>2, <2>1, <2>5
<1>6. ASSUME NEW c \in Clerk, LockForRemove(c)
      PROVE  ViewsTrue' /\ ReadsRemove'
  <2>1. inv[c] \in Request /\ inv[c] # Idle /\ inv[c].kind = "REMOVE"
    BY <1>0, <1>6 DEF LockForRemove, Idle, ReadsRemove
  <2>2. /\ inv'[c].sku = inv[c].sku /\ inv'[c].view = inv[c].view
        /\ inv'[c].kind = "REMOVE" /\ inv'[c].location = inv[c].location
        /\ \A d \in Clerk \ {c} : inv'[d] = inv[d]
    BY <1>0, <1>6, <2>1 DEF LockForRemove, Request
  <2>3. WorkLocation(inv[c])' = inv[c].location /\ WorkLocation(inv[c]) = inv[c].location
    BY <2>1, <2>2 DEF WorkLocation
  <2>4. ViewTrue(c) /\ OrderTook' = OrderTook
    BY <2>1 DEF ViewsTrue, OrderTook
  <2>5. ViewTrue(c)'
    BY <2>2, <2>3, <2>4 DEF ViewTrue
  <2> QED
    BY <1>2, <2>2, <2>5
<1>7. ASSUME NEW c \in Clerk, inv' = [inv EXCEPT ![c] = Idle]
      PROVE  ViewsTrue' /\ ReadsRemove'
  BY <1>0, <1>2, <1>7
<1> QED
  BY <1>4, <1>5, <1>6, <1>7
     DEF InvStep, Commit, Reject, LockWaitTimeout

\* A manual operation leaves the ledger rows of the orders as they are.
LEMMA CommitTook ==
  ASSUME TypeOK, NEW c \in Clerk, Commit(c), OrderTook
  PROVE  OrderTook'
<1> DEFINE op == inv[c]
<1>1. PICK i \in DOMAIN ledger : ledger[i].order # NoOrder /\ ledger[i].delta < 0
  BY DEF OrderTook
<1>2. ledger \in Seq(LedgerRow) /\ ledger[i] \in LedgerRow
  BY LedgerRowType DEF TypeOK, DbTypeOK
<1>3. CASE op.kind = "REMOVE"
  <2>1. ledger' = [ledger EXCEPT ![op.entry].removed = TRUE]
    BY <1>3 DEF Commit
  <2>2. i \in DOMAIN ledger' /\ ledger'[i].order = ledger[i].order
        /\ ledger'[i].delta = ledger[i].delta
    BY <1>2, <2>1 DEF LedgerRow
  <2> QED
    BY <1>1, <2>2 DEF OrderTook
<1>4. CASE op.kind # "REMOVE"
  <2> DEFINE e == Booked(op)
  <2>1. ledger' = Append(ledger, e)
    BY <1>4 DEF Commit
  <2> HIDE DEF e
  <2>2. i \in DOMAIN ledger' /\ ledger'[i] = ledger[i]
    BY <1>2, <2>1
  <2> QED
    BY <1>1, <2>2 DEF OrderTook
<1> QED
  BY <1>3, <1>4

\* updateLocationOccupancy gives the location it works on the status its stock asks for.
LEMMA CommitShows ==
  ASSUME TypeOK, Isolated, Locking, ViewsTrue, TwoStatuses, StatusShowsStock,
         NEW c \in Clerk, Commit(c)
  PROVE  TwoStatuses' /\ StatusShowsStock'
<1> DEFINE op == inv[c]
           k == op.sku
           l == WorkLocation(op)
           d == Delta(op)
           next == Moved(stock[k], l, d)
<1>1. /\ k \in Sku /\ stock[k] \in Row /\ d \in Int /\ l \in Location \union {NoLocation}
      /\ op # Idle
  BY OpenRequestType DEF Commit, Idle
<1>2. stock[k] = saved[k] /\ saved' = [saved EXCEPT ![k] = next]
  BY CommitShape
<1>3. /\ saved \in [Sku -> Row] /\ status \in [Location -> LocationStatus]
      /\ \A s \in Sku, m \in Location : saved[s].at[m].quantity \in Int
  BY CellsType DEF TypeOK, DbTypeOK
<1>4. status' = IF l = NoLocation \/ d = 0 \/ status[l] = "GONE"
                THEN status
                ELSE [status EXCEPT ![l] = Occupancy(op, next.at[l])]
  BY DEF Commit
<1>5. \A m \in Location :
        next.at[m].quantity = saved[k].at[m].quantity + (IF m = l THEN d ELSE 0)
  BY <1>1, <1>2, MovedCells
<1>6. l # NoLocation =>
        /\ op.view.othersHere =>
             OrderTook \/ \E t \in Sku \ {k} : saved[t].at[l].quantity > 0
        /\ ~op.view.othersHere => \A t \in Sku \ {k} : saved[t].at[l].quantity <= 0
  BY <1>1 DEF ViewsTrue, ViewTrue
<1>7. Occupancy(op, next.at[l]) = IF op.view.othersHere \/ next.at[l].quantity > 0
                                  THEN "OCCUPIED" ELSE "AVAILABLE"
  BY DEF Occupancy
<1>8. OrderTook => OrderTook'
  BY CommitTook
<1>9. \A m \in Location :
        /\ status[m] \in {"OCCUPIED", "AVAILABLE"}
        /\ status[m] = "OCCUPIED" =>
             OrderTook \/ \E s \in Sku : saved[s].at[m].quantity > 0
        /\ status[m] = "AVAILABLE" => \A s \in Sku : saved[s].at[m].quantity <= 0
  BY DEF TwoStatuses, StatusShowsStock, OrderTook
<1> DEFINE here == op.view.othersHere
           mark == Occupancy(op, next.at[l])
<1> HIDE DEF op, k, l, d, next, here, mark
<1>10. \A s \in Sku : saved'[s] = IF s = k THEN next ELSE saved[s]
  BY <1>1, <1>2, <1>3
<1>11. ASSUME NEW m \in Location
       PROVE  /\ status'[m] \in {"OCCUPIED", "AVAILABLE"}
              /\ status'[m] = "OCCUPIED" =>
                   OrderTook' \/ \E s \in Sku : saved'[s].at[m].quantity > 0
              /\ status'[m] = "AVAILABLE" => \A s \in Sku : saved'[s].at[m].quantity <= 0
  <2>1. CASE m # l \/ d = 0
    <3>1. \A s \in Sku : saved'[s].at[m].quantity = saved[s].at[m].quantity
      BY <1>1, <1>3, <1>5, <1>10, <2>1
    <3>2. status'[m] = status[m]
      BY <1>3, <1>4, <2>1
    <3> QED
      BY <1>8, <1>9, <3>1, <3>2
  <2>2. CASE m = l /\ d # 0
    <3>1. l \in Location /\ l # NoLocation /\ status[l] # "GONE"
      BY <1>9, <2>2, LocationAssumption
    <3>2. status'[m] = mark
      BY <1>3, <1>4, <2>2, <3>1 DEF mark
    <3>3. mark = IF here \/ next.at[l].quantity > 0 THEN "OCCUPIED" ELSE "AVAILABLE"
      BY <1>7 DEF mark, here
    <3>4. next.at[l].quantity \in Int /\ saved'[k] = next
      BY <1>1, <1>3, <1>5, <1>10, <3>1
    <3>5. ASSUME here
          PROVE  OrderTook' \/ \E s \in Sku : saved'[s].at[l].quantity > 0
      BY <1>6, <1>8, <1>10, <3>1, <3>5 DEF here
    <3>6. ASSUME ~here
          PROVE  \A t \in Sku \ {k} : saved'[t].at[l].quantity <= 0
      BY <1>6, <1>10, <3>1, <3>6 DEF here
    <3>7. CASE next.at[l].quantity > 0
      BY <1>1, <2>2, <3>2, <3>3, <3>4, <3>7
    <3>8. CASE here
      BY <2>2, <3>2, <3>3, <3>5, <3>8
    <3>9. CASE ~here /\ ~(next.at[l].quantity > 0)
      BY <2>2, <3>2, <3>3, <3>4, <3>6, <3>9
    <3> QED
      BY <3>7, <3>8, <3>9
  <2> QED
    BY <2>1, <2>2
<1> QED
  BY <1>11 DEF TwoStatuses, StatusShowsStock, OrderTook

\* One clerk, or one SKU: what a manual operation sees of the other SKUs at its location
\* cannot be changed by another manual operation.
NobodyMeddles == (\A c, e \in Clerk : c = e) \/ (\A s, t \in Sku : s = t)

\* So the views of the others survive it.
LEMMA CommitViews ==
  ASSUME NobodyMeddles, TypeOK, DbTypeOK', Isolated, Locking, ReadsRemove, ViewsTrue,
         NEW c \in Clerk, Commit(c)
  PROVE  ViewsTrue' /\ ReadsRemove'
<1>1. /\ inv \in [Clerk -> Request \union {Idle}] /\ inv' = [inv EXCEPT ![c] = Idle]
  BY DEF TypeOK, InvTypeOK, Commit
<1>2. ReadsRemove'
  BY <1>1 DEF ReadsRemove, Idle
<1>3. ASSUME NEW e \in Clerk, inv'[e] # Idle
      PROVE  ViewTrue(e)'
  <2>1. e # c /\ inv'[e] = inv[e] /\ inv[e] # Idle
    BY <1>1, <1>3
  <2>2. inv[e] \in Request
    BY <1>1, <2>1
  <2>3. inv[e].sku \in Sku
    BY <2>2 DEF Request
  <2>4. Sku \ {inv[e].sku} = {}
    BY <2>1, <2>3 DEF NobodyMeddles
  <2>5. ASSUME inv[e].phase = "open" PROVE stock'[inv[e].sku] = stock[inv[e].sku]
    <3>1. owner[inv[e].sku] = e /\ owner[inv[c].sku] = c /\ inv[c].sku \in Sku
      BY <2>5, OpenRequestType DEF Isolated, OpenHoldsLock, Commit
    <3>2. stock' = [stock EXCEPT ![inv[c].sku] =
                      Moved(stock[inv[c].sku], WorkLocation(inv[c]), Delta(inv[c]))]
      BY DEF Commit
    <3> QED
      BY <2>1, <2>3, <3>1, <3>2 DEF TypeOK, DbTypeOK
  <2>6. ViewTrue(e) /\ (OrderTook => OrderTook')
    BY <2>1, CommitTook DEF ViewsTrue
  <2> QED
    BY <2>1, <2>4, <2>5, <2>6, ViewKept
<1> QED
  BY <1>2, <1>3 DEF ViewsTrue

\* An order that empties a location has shipped.
LEMMA OrdStepShows ==
  ASSUME Typed, DbTypeOK', Locking, Lowered, Taking, TwoStatuses, StatusShowsStock, OrdStep
  PROVE  TwoStatuses' /\ StatusShowsStock'
<1>1. /\ OrderTook => OrderTook'
      /\ \A s \in Sku, l \in Location :
           saved'[s].at[l].quantity = saved[s].at[l].quantity \/ OrderTook'
  BY OrdStepEmpties
<1>2. /\ UNCHANGED status
      /\ \A s \in Sku, l \in Location : saved'[s].at[l].quantity <= saved[s].at[l].quantity
  BY OrdStepLowered DEF SavedFalls
<1>3. \A s \in Sku, l \in Location :
        saved[s].at[l].quantity \in Int /\ saved'[s].at[l].quantity \in Int
  <2>1. \A s \in Sku, l \in Location : saved'[s].at[l].quantity \in Int
    BY RowCells DEF DbTypeOK
  <2> QED
    BY <2>1, CellsType DEF Typed
<1>4. \A l \in Location :
        /\ status[l] = "OCCUPIED" =>
             OrderTook \/ \E s \in Sku : saved[s].at[l].quantity > 0
        /\ status[l] = "AVAILABLE" => \A s \in Sku : saved[s].at[l].quantity <= 0
  BY DEF StatusShowsStock, OrderTook
<1>5. ASSUME NEW l \in Location
      PROVE  /\ status[l] = "OCCUPIED" =>
                  OrderTook' \/ \E s \in Sku : saved'[s].at[l].quantity > 0
             /\ status[l] = "AVAILABLE" => \A s \in Sku : saved'[s].at[l].quantity <= 0
  <2>1. CASE OrderTook'
    BY <1>2, <1>3, <1>4, <2>1
  <2>2. CASE ~OrderTook'
    <3>1. \A s \in Sku : saved'[s].at[l].quantity = saved[s].at[l].quantity
      BY <1>1, <2>2
    <3> QED
      BY <1>1, <1>4, <2>2, <3>1
  <2> QED
    BY <2>1, <2>2
<1>6. TwoStatuses'
  BY <1>2 DEF TwoStatuses
<1> QED
  BY <1>2, <1>5, <1>6 DEF StatusShowsStock, OrderTook

\* OCCUPIED and AVAILABLE tell whether a location has stock, or an order has shipped.
\* updateLocationOccupancy sums the other SKUs in a view that may be old by the time the
\* status is written.  That does no harm while the manual operations come one at a time
\* or are all about one SKU (ViewsTrue); the location service, which writes statuses of
\* its own, is left out, and two manual operations on two SKUs of one location can make
\* the status wrong.
THEOREM StatusFollowsStock ==
  ASSUME Keeper = {}, NobodyMeddles
  PROVE  Spec => []StatusShowsStock
<1> DEFINE I == /\ WarehouseInv /\ Lowered /\ Taking /\ ReadsRemove /\ ViewsTrue
                /\ TwoStatuses /\ StatusShowsStock
<1>1. Init => I
  <2> SUFFICES ASSUME Init PROVE I
    OBVIOUS
  <2>1. WarehouseInv /\ DbTypeOK
    BY InitKeeps DEF WarehouseInv, TypeOK
  <2>2. \A s \in Sku, l \in Location : stock[s].at[l].quantity \in Int /\ stock[s] = saved[s]
    BY <2>1, CellsType DEF Init, DbInit
  <2>3. Lowered /\ Taking
    BY <2>2 DEF Lowered, Taking
  <2>4. ReadsRemove /\ ViewsTrue
    BY DEF Init, InvInit, Idle, ReadsRemove, ViewsTrue
  <2>5. TwoStatuses
    BY DEF Init, DbInit, TwoStatuses
  <2>6. StatusShowsStock
    BY <2>2 DEF Init, DbInit, StatusShowsStock
  <2> QED
    BY <2>1, <2>3, <2>4, <2>5, <2>6
<1>2. I /\ [Next]_vars => I'
  <2> SUFFICES ASSUME I, [Next]_vars PROVE I'
    OBVIOUS
  <2>1. TypeOK /\ Isolated /\ Locking /\ Typed
    BY TypedToo DEF WarehouseInv
  <2>2. WarehouseInv' /\ DbTypeOK'
    BY NextWarehouseInv DEF WarehouseInv, TypeOK
  <2>3. CASE OrdStep /\ UNCHANGED <<inv, loc>>
    <3>1. Lowered' /\ Taking'
      BY <2>1, <2>3, OrdStepLowered, OrdStepTaking
    <3>2. ReadsRemove'
      BY <2>3 DEF ReadsRemove
    <3>3. ViewsTrue' /\ TwoStatuses' /\ StatusShowsStock'
      BY <2>1, <2>2, <2>3, OrdStepViews, OrdStepShows
    <3> QED
      BY <2>2, <3>1, <3>2, <3>3
  <2>4. CASE InvStep /\ UNCHANGED <<orders, req, loc>>
    <3>1. Lowered' /\ Taking'
      BY <2>1, <2>4, InvStepTaking
    <3>2. ASSUME NEW c \in Clerk, Commit(c)
          PROVE  ViewsTrue' /\ ReadsRemove' /\ TwoStatuses' /\ StatusShowsStock'
      BY <2>1, <2>2, <3>2, CommitViews, CommitShows
    <3>3. CASE UNCHANGED <<saved, ledger, status>> /\ \A s \in Sku : stock'[s] = stock[s]
      <4>1. ViewsTrue' /\ ReadsRemove'
        BY <2>1, <2>2, <2>4, <3>3, QuietViews
      <4>2. TwoStatuses' /\ StatusShowsStock'
        BY <3>3 DEF TwoStatuses, StatusShowsStock
      <4> QED
        BY <2>2, <3>1, <4>1, <4>2
    <3> QED
      BY <2>1, <2>2, <2>4, <3>1, <3>2, <3>3, InvStepQuiet
  <2>5. CASE Crash
    <3>1. \A s \in Sku, l \in Location :
            saved[s].at[l].quantity \in Int /\ stock'[s] = saved[s] /\ saved' = saved
            /\ owner'[s] = NoTx
      BY <2>1, <2>5, CellsType DEF Crash, RollbackAll, TypeOK
    <3>2. Lowered' /\ Taking'
      BY <3>1, NobodyElse DEF Lowered, Taking
    <3>3. ReadsRemove' /\ ViewsTrue'
      BY <2>5 DEF Crash, Idle, ReadsRemove, ViewsTrue
    <3>4. TwoStatuses' /\ StatusShowsStock'
      BY <2>5 DEF Crash, RollbackAll, TwoStatuses, StatusShowsStock
    <3> QED
      BY <2>2, <3>2, <3>3, <3>4
  <2>6. CASE UNCHANGED vars
    <3>1. UNCHANGED <<stock, saved, owner, ledger, status, req, inv>>
      BY <2>6 DEF vars, dbVars
    <3>2. Lowered' /\ Taking' /\ ReadsRemove' /\ TwoStatuses' /\ StatusShowsStock'
      BY <3>1 DEF Lowered, Taking, ReadsRemove, TwoStatuses, StatusShowsStock
    <3>3. ViewsTrue'
      BY <3>1 DEF ViewsTrue, ViewTrue, WorkLocation, OrderTook
    <3> QED
      BY <2>2, <3>2, <3>3
  <2>7. ~LocStep
    BY DEF LocStep
  <2> QED
    BY <2>3, <2>4, <2>5, <2>6, <2>7 DEF Next
<1>3. I => StatusShowsStock
  OBVIOUS
<1> QED
  BY <1>1, <1>2, <1>3, PTL DEF Spec

-----------------------------------------------------------------------------
(* Deleted locations *)

\* A request has begun that is going to bring stock to a location.
BringsTo(c, l) == inv[c] # Idle /\ WorkLocation(inv[c]) = l /\ Delta(inv[c]) > 0

\* No stock is on its way to a location between the look of remove and its DELETE.
Apart ==
  \A k \in Keeper, c \in Clerk : loc[k].phase = "removing" => ~BringsTo(c, loc[k].location)

\* What a location request has seen: a removal, that the location has no stock; an
\* update, a location that is there.
LooksHold ==
  \A k \in Keeper :
    /\ loc[k].phase = "updating" => loc[k].copy # "GONE"
    /\ loc[k].phase = "removing" =>
         \A s \in Sku : saved[s].at[loc[k].location].quantity <= 0

\* A request that has seen the location it brings stock to finds it there.
ArrivalsLand ==
  \A c \in Clerk, l \in Location :
    BringsTo(c, l) /\ inv[c].view.status # "GONE" => status[l] # "GONE"

\* What has been seen stays so where the stock of locations does not rise.
LEMMA LooksKept ==
  ASSUME TypeOK, DbTypeOK', LooksHold, GoneHoldsNoStock, UNCHANGED loc,
         \A l \in Location : status'[l] = "GONE" => status[l] = "GONE",
         \A s \in Sku, l \in Location :
           \/ saved'[s].at[l].quantity <= saved[s].at[l].quantity
           \/ /\ status[l] # "GONE"
              /\ \A k \in Keeper : loc[k].phase = "removing" => loc[k].location # l
  PROVE  LooksHold' /\ GoneHoldsNoStock'
<1>1. \A s \in Sku, l \in Location :
        saved[s].at[l].quantity \in Int /\ saved'[s].at[l].quantity \in Int
  <2>1. \A s \in Sku, l \in Location : saved'[s].at[l].quantity \in Int
    BY RowCells DEF DbTypeOK
  <2> QED
    BY <2>1, CellsType DEF TypeOK
<1>2. GoneHoldsNoStock'
  BY <1>1 DEF GoneHoldsNoStock
<1>3. ASSUME NEW k \in Keeper, loc[k].phase = "removing", NEW s \in Sku
      PROVE  saved'[s].at[loc[k].location].quantity <= 0
  <2>1. loc[k] \in LocationRequest
    BY <1>3 DEF TypeOK, LocTypeOK, Resting
  <2>2. loc[k].location \in Location
    BY <2>1 DEF LocationRequest
  <2>3. saved[s].at[loc[k].location].quantity <= 0
    BY <1>3 DEF LooksHold
  <2> QED
    BY <1>1, <1>3, <2>2, <2>3
<1>4. LooksHold'
  BY <1>3 DEF LooksHold
<1> QED
  BY <1>2, <1>4

\* Where a request is going stays so until it ends.
LEMMA ArrivalsKept ==
  ASSUME TypeOK, ReadsRemove, NEW c \in Clerk, inv'[c] = inv[c],
         \A i \in DOMAIN ledger : ledger'[i].delta = ledger[i].delta,
         inv[c].phase = "open" => stock'[inv[c].sku] = stock[inv[c].sku], NEW l
  PROVE  BringsTo(c, l)' <=> BringsTo(c, l)
<1>1. CASE inv[c] = Idle
  BY <1>1 DEF BringsTo
<1>2. CASE inv[c] # Idle
  <2>1. inv[c].phase \in {"read", "open"} /\ (inv[c].kind = "REMOVE" => inv[c].entry \in DOMAIN ledger)
    BY <1>2 DEF TypeOK, InvTypeOK, Request
  <2>2. WorkLocation(inv[c])' = WorkLocation(inv[c])
    BY <2>1 DEF WorkLocation, ReadsRemove
  <2>3. Delta(inv[c])' = Delta(inv[c])
    BY <2>1 DEF Delta
  <2> QED
    BY <2>2, <2>3 DEF BringsTo
<1> QED
  BY <1>1, <1>2

\* The steps of the others: a request that is open has its row to itself.
LEMMA OthersLeaveArrivals ==
  ASSUME TypeOK, Isolated, ReadsRemove, ArrivalsLand, UNCHANGED inv,
         \A i \in DOMAIN ledger : ledger'[i] = ledger[i],
         \A s \in Sku : owner[s] \in Clerk => stock'[s] = stock[s],
         \A l \in Location : status'[l] = "GONE" =>
           status[l] = "GONE" \/ \A c \in Clerk : ~BringsTo(c, l)
  PROVE  ArrivalsLand' /\ ReadsRemove'
<1>1. ASSUME NEW c \in Clerk, NEW l \in Location
      PROVE  BringsTo(c, l)' <=> BringsTo(c, l)
  <2>1. inv[c].phase = "open" => stock'[inv[c].sku] = stock[inv[c].sku]
    BY OpenRequestType DEF Isolated, OpenHoldsLock
  <2> QED
    BY <2>1, ArrivalsKept
<1>2. ArrivalsLand'
  BY <1>1 DEF ArrivalsLand
<1> QED
  BY <1>2 DEF ReadsRemove

\* A location is deleted after a look that is still true, and no update deletes one.
LEMMA LocStepGone ==
  ASSUME TypeOK, LooksHold, GoneHoldsNoStock, Apart, LocStep
  PROVE  /\ LooksHold' /\ GoneHoldsNoStock'
         /\ \A l \in Location : status'[l] = "GONE" =>
              status[l] = "GONE" \/ \A c \in Clerk : ~BringsTo(c, l)
<1> DEFINE Kept == /\ LooksHold' /\ GoneHoldsNoStock'
                   /\ \A l \in Location : status'[l] = "GONE" =>
                        status[l] = "GONE" \/ \A c \in Clerk : ~BringsTo(c, l)
<1>0. UNCHANGED <<stock, saved>> /\ loc \in [Keeper -> LocationRequest \union {Resting}]
  BY LocStepStill DEF TypeOK, LocTypeOK
<1>1. ASSUME NEW k \in Keeper, NEW l \in Location, NEW phase, NEW copy,
             Load(k, l, phase, copy),
             phase = "updating" => copy # "GONE",
             phase = "removing" => \A s \in Sku : saved[s].at[l].quantity <= 0
      PROVE  Kept
  <2>1. GoneHoldsNoStock' /\ UNCHANGED status
    BY <1>1 DEF Load, dbVars, GoneHoldsNoStock
  <2>2. \A j \in Keeper :
          loc'[j] = IF j = k THEN [phase |-> phase, location |-> l, copy |-> copy]
                    ELSE loc[j]
    BY <1>0, <1>1 DEF Load
  <2>3. LooksHold'
    BY <1>0, <1>1, <2>2 DEF LooksHold
  <2> QED
    BY <2>1, <2>3
<1>2. ASSUME NEW k \in Keeper, NEW l \in Location, BeginUpdate(k, l)
      PROVE  Kept
  <2>1. PICK st \in StatusChoice \union (IF Renames THEN {status[l]} ELSE {}) :
               Load(k, l, "updating", st)
    BY <1>2 DEF BeginUpdate
  <2>2. st # "GONE"
    BY <2>1, LocationServiceAssumption DEF Load
  <2> QED
    BY <1>1, <2>1, <2>2
<1>3. ASSUME NEW k \in Keeper, NEW l \in Location, BeginRemove(k, l)
      PROVE  Kept
  <2>1. \A s \in Sku : saved[s].at[l].quantity <= 0
    BY <1>3 DEF BeginRemove, LooksEmpty
  <2> QED
    BY <1>1, <1>3, <2>1 DEF BeginRemove
<1>4. ASSUME NEW k \in Keeper, FinishUpdate(k) \/ FinishRemove(k)
      PROVE  Kept
  <2>1. \A j \in Keeper : loc'[j] = IF j = k THEN Resting ELSE loc[j]
    BY <1>0, <1>4 DEF FinishUpdate, FinishRemove
  <2>2. LooksHold'
    BY <1>0, <2>1 DEF LooksHold, Resting
  <2>3. loc[k] \in LocationRequest
    BY <1>0, <1>4 DEF FinishUpdate, FinishRemove, Resting
  <2>4. loc[k].location \in Location /\ status \in [Location -> LocationStatus]
    BY <2>3 DEF LocationRequest, TypeOK, DbTypeOK
  <2>5. CASE FinishUpdate(k)
    <3>1. loc[k].copy # "GONE"
      BY <2>5 DEF FinishUpdate, LooksHold
    <3>2. \A l \in Location : status'[l] = "GONE" => status[l] = "GONE"
      BY <2>4, <2>5, <3>1 DEF FinishUpdate
    <3>3. GoneHoldsNoStock'
      BY <1>0, <3>2 DEF GoneHoldsNoStock
    <3> QED
      BY <2>2, <3>2, <3>3
  <2>6. CASE FinishRemove(k)
    <3>1. \A s \in Sku : saved[s].at[loc[k].location].quantity <= 0
      BY <2>6 DEF FinishRemove, LooksHold
    <3>2. \A c \in Clerk : ~BringsTo(c, loc[k].location)
      BY <2>6 DEF FinishRemove, Apart
    <3>3. \A l \in Location : status'[l] = "GONE" => status[l] = "GONE" \/ l = loc[k].location
      BY <2>4, <2>6 DEF FinishRemove
    <3>4. GoneHoldsNoStock'
      BY <1>0, <3>1, <3>3 DEF GoneHoldsNoStock
    <3> QED
      BY <2>2, <3>2, <3>3, <3>4
  <2> QED
    BY <1>4, <2>5, <2>6
<1> HIDE DEF Kept
<1>5. Kept
  BY <1>2, <1>3, <1>4 DEF LocStep
<1> QED
  BY <1>5 DEF Kept

\* A booking raises the stock of the location it works on, and of no other.
LEMMA CommitRaises ==
  ASSUME TypeOK, Isolated, Lowered, NEW c \in Clerk, Commit(c)
  PROVE  /\ Lowered'
         /\ \A s \in Sku, l \in Location :
              BringsTo(c, l) \/ saved'[s].at[l].quantity <= saved[s].at[l].quantity
<1> DEFINE op == inv[c]
           k == op.sku
           m == WorkLocation(op)
           d == Delta(op)
<1>1. /\ k \in Sku /\ stock[k] \in Row /\ d \in Int /\ m \in Location \union {NoLocation}
      /\ op # Idle /\ owner[k] = c
  BY OpenRequestType DEF Commit, Idle, Isolated, OpenHoldsLock
<1>2. stock' = [stock EXCEPT ![k] = Moved(stock[k], m, d)]
      /\ saved' = [s \in Sku |-> IF owner[s] = c THEN stock'[s] ELSE saved[s]]
  BY DEF Commit, CommitTx
<1>3. stock \in [Sku -> Row]
  BY DEF TypeOK, DbTypeOK
<1>4. \A s \in Sku, l \in Location :
        /\ stock[s].at[l].quantity \in Int /\ saved[s].at[l].quantity \in Int
        /\ stock[s].at[l].quantity <= saved[s].at[l].quantity
  BY CellsType DEF TypeOK, Lowered
<1>5. \A l \in Location :
        Moved(stock[k], m, d).at[l].quantity = stock[k].at[l].quantity + (IF l = m THEN d ELSE 0)
  BY <1>1, MovedCells
<1>6. \A l \in Location : ~BringsTo(c, l) => l # m \/ d <= 0
  BY <1>1 DEF BringsTo
<1> HIDE DEF op, k, m, d
<1>7. stock'[k] = Moved(stock[k], m, d) /\ saved'[k] = stock'[k]
      /\ \A s \in Sku \ {k} : stock'[s] = stock[s] /\ saved'[s] \in {stock[s], saved[s]}
  BY <1>1, <1>2, <1>3
<1>8. Lowered'
  <2> SUFFICES ASSUME NEW s \in Sku, NEW l \in Location
               PROVE  stock'[s].at[l].quantity <= saved'[s].at[l].quantity
    BY DEF Lowered
  <2>1. CASE s = k
    <3>1. stock'[k].at[l].quantity \in Int
      BY <1>1, <1>4, <1>5, <1>7
    <3> QED
      BY <1>7, <2>1, <3>1
  <2>2. CASE s # k
    BY <1>4, <1>7, <2>2
  <2> QED
    BY <2>1, <2>2
<1>9. ASSUME NEW s \in Sku, NEW l \in Location, ~BringsTo(c, l)
      PROVE  saved'[s].at[l].quantity <= saved[s].at[l].quantity
  <2>1. CASE s = k
    BY <1>1, <1>4, <1>5, <1>6, <1>7, <1>9, <2>1
  <2>2. CASE s # k
    BY <1>4, <1>7, <2>2
  <2> QED
    BY <2>1, <2>2
<1> QED
  BY <1>8, <1>9

\* Nor does it find a location deleted that it brings stock to: it would have been
\* refused, or its request has begun before the look of the removal.
LEMMA CommitGone ==
  ASSUME TypeOK, DbTypeOK', Isolated, ReadsRemove, Lowered, LooksHold, GoneHoldsNoStock,
         ArrivalsLand, Apart, NEW c \in Clerk, Commit(c), UNCHANGED loc
  PROVE  /\ Lowered' /\ LooksHold' /\ GoneHoldsNoStock'
         /\ \A l \in Location : status'[l] = "GONE" => status[l] = "GONE"
<1>1. \A l \in Location : status'[l] = "GONE" => status[l] = "GONE"
  <2>1. Occupancy(inv[c], Moved(stock[inv[c].sku], WorkLocation(inv[c]), Delta(inv[c])).at[WorkLocation(inv[c])])
          # "GONE"
    BY DEF Occupancy
  <2> QED
    BY <2>1 DEF Commit, TypeOK, DbTypeOK
<1>2. ASSUME NEW l \in Location, BringsTo(c, l)
      PROVE  status[l] # "GONE" /\ \A k \in Keeper : loc[k].phase = "removing" => loc[k].location # l
  <2>1. Accepts(inv[c])
    BY DEF Commit
  <2>2. inv[c].view.status # "GONE"
    BY <1>2, <2>1, LocationAssumption DEF Accepts, LocationAccepts, BringsTo
  <2> QED
    BY <1>2, <2>2 DEF ArrivalsLand, Apart
<1>3. Lowered' /\ \A s \in Sku, l \in Location :
        BringsTo(c, l) \/ saved'[s].at[l].quantity <= saved[s].at[l].quantity
  BY CommitRaises
<1>4. LooksHold' /\ GoneHoldsNoStock'
  BY <1>1, <1>2, <1>3, LooksKept
<1> QED
  BY <1>1, <1>3, <1>4

\* The requests of the others stay as they are while one is stepped.
LEMMA ClerkArrivals ==
  ASSUME TypeOK, ReadsRemove, ArrivalsLand, NEW c \in Clerk,
         \A b \in Clerk \ {c} : inv'[b] = inv[b],
         \A i \in DOMAIN ledger : ledger'[i].delta = ledger[i].delta,
         \A b \in Clerk \ {c} : inv[b].phase = "open" => stock'[inv[b].sku] = stock[inv[b].sku],
         \A l \in Location : status'[l] = "GONE" => status[l] = "GONE",
         inv'[c].phase = "read" => inv'[c].kind = "REMOVE",
         \A l \in Location :
           BringsTo(c, l)' /\ inv'[c].view.status # "GONE" => status[l] # "GONE"
  PROVE  ArrivalsLand' /\ ReadsRemove'
<1>1. ASSUME NEW b \in Clerk, b # c, NEW l \in Location
      PROVE  BringsTo(b, l)' <=> BringsTo(b, l)
  BY <1>1, ArrivalsKept
<1>2. ArrivalsLand'
  BY <1>1 DEF ArrivalsLand
<1>3. ReadsRemove'
  BY DEF ReadsRemove
<1> QED
  BY <1>2, <1>3

LEMMA InvStepGone ==
  ASSUME TypeOK, TypeOK', Isolated, ReadsRemove, Lowered, LooksHold, GoneHoldsNoStock,
         ArrivalsLand, Apart, InvStep, UNCHANGED loc
  PROVE  Lowered' /\ LooksHold' /\ GoneHoldsNoStock' /\ ArrivalsLand' /\ ReadsRemove'
<1>0. inv \in [Clerk -> Request \union {Idle}] /\ DbTypeOK'
      /\ stock \in [Sku -> Row] /\ saved \in [Sku -> Row]
  BY DEF TypeOK, InvTypeOK, DbTypeOK
<1>1. ASSUME UNCHANGED <<saved, status>>, \A s \in Sku : stock'[s] \in {stock[s], saved[s]}
      PROVE  Lowered' /\ LooksHold' /\ GoneHoldsNoStock'
  <2>1. \A s \in Sku, l \in Location :
          saved[s].at[l].quantity \in Int /\ stock[s].at[l].quantity <= saved[s].at[l].quantity
    BY CellsType DEF TypeOK, Lowered
  <2>2. Lowered'
    BY <1>1, <2>1 DEF Lowered
  <2> QED
    BY <1>1, <2>2 DEF LooksHold, GoneHoldsNoStock
<1>2. ASSUME NEW c \in Clerk, NEW kind \in Kind \ {"REMOVE"}, NEW s \in Sku, NEW q,
             NEW l \in ManualLocation, Open(c, kind, s, q, l)
      PROVE  Lowered' /\ LooksHold' /\ GoneHoldsNoStock' /\ ArrivalsLand' /\ ReadsRemove'
  <2> DEFINE work == IF stock[s].exists THEN EffectiveLocation(stock[s], l) ELSE l
             op == [phase |-> "open", kind |-> kind, sku |-> s, quantity |-> q,
                    location |-> l, entry |-> 0, view |-> ViewOf(work, s)]
  <2>1. inv'[c] = op /\ (\A d \in Clerk \ {c} : inv'[d] = inv[d])
        /\ UNCHANGED <<stock, saved, ledger, status>>
    BY <1>0, <1>2 DEF Open
  <2>2. /\ inv'[c].sku = s /\ inv'[c].phase = "open" /\ inv'[c].kind = kind
        /\ inv'[c].location = l /\ inv'[c].view = ViewOf(work, s)
    BY <2>1
  <2>3. WorkLocation(inv[c])' = work
    BY <2>1, <2>2 DEF WorkLocation
  <2> HIDE DEF work, op
  <2>4. ASSUME NEW m \in Location, BringsTo(c, m)', inv'[c].view.status # "GONE"
        PROVE  status[m] # "GONE"
    <3>1. work = m /\ m # NoLocation
      BY <2>3, <2>4, LocationAssumption DEF BringsTo
    <3>2. ViewOf(work, s).status = status[m]
      BY <3>1 DEF ViewOf
    <3> QED
      BY <2>2, <2>4, <3>2
  <2>5. ArrivalsLand' /\ ReadsRemove'
    BY <2>1, <2>2, <2>4, ClerkArrivals
  <2> QED
    BY <1>1, <2>1, <2>5
<1>3. ASSUME NEW c \in Clerk, NEW i \in DOMAIN ledger, ReadEntry(c, i)
      PROVE  Lowered' /\ LooksHold' /\ GoneHoldsNoStock' /\ ArrivalsLand' /\ ReadsRemove'
  <2>1. /\ inv'[c].location = ledger[i].location /\ inv'[c].kind = "REMOVE"
        /\ inv'[c].view = ViewOf(ledger[i].location, ledger[i].sku)
        /\ \A d \in Clerk \ {c} : inv'[d] = inv[d]
        /\ UNCHANGED <<stock, saved, ledger, status>>
    BY <1>0, <1>3 DEF ReadEntry, dbVars
  <2>2. WorkLocation(inv[c])' = ledger[i].location
    BY <2>1 DEF WorkLocation
  <2>3. ASSUME NEW m \in Location, BringsTo(c, m)', inv'[c].view.status # "GONE"
        PROVE  status[m] # "GONE"
    <3>1. ledger[i].location = m /\ m # NoLocation
      BY <2>2, <2>3, LocationAssumption DEF BringsTo
    <3>2. ViewOf(ledger[i].location, ledger[i].sku).status = status[m]
      BY <3>1 DEF ViewOf
    <3> QED
      BY <2>1, <2>3, <3>2
  <2>4. ArrivalsLand' /\ ReadsRemove'
    BY <2>1, <2>3, ClerkArrivals
  <2> QED
    BY <1>1, <2>1, <2>4
<1>4. ASSUME NEW c \in Clerk, LockForRemove(c)
      PROVE  Lowered' /\ LooksHold' /\ GoneHoldsNoStock' /\ ArrivalsLand' /\ ReadsRemove'
  <2>1. inv[c] \in Request /\ inv[c] # Idle /\ inv[c].kind = "REMOVE"
    BY <1>0, <1>4 DEF LockForRemove, Idle, ReadsRemove
  <2>2. /\ inv'[c].view = inv[c].view /\ inv'[c].kind = "REMOVE"
        /\ inv'[c].location = inv[c].location /\ inv'[c].entry = inv[c].entry
        /\ inv'[c].quantity = inv[c].quantity
        /\ \A d \in Clerk \ {c} : inv'[d] = inv[d]
        /\ UNCHANGED <<stock, saved, ledger, status>>
    BY <1>0, <1>4, <2>1 DEF LockForRemove, Request
  <2>3. \A m : BringsTo(c, m)' => BringsTo(c, m)
    <3>1. WorkLocation(inv[c])' = inv[c].location /\ WorkLocation(inv[c]) = inv[c].location
      BY <2>1, <2>2 DEF WorkLocation
    <3>2. Delta(inv[c])' = Delta(inv[c])
      BY <2>1, <2>2 DEF Delta
    <3> QED
      BY <2>1, <3>1, <3>2 DEF BringsTo
  <2>4. \A m \in Location : BringsTo(c, m)' /\ inv'[c].view.status # "GONE" => status[m] # "GONE"
    BY <2>2, <2>3 DEF ArrivalsLand
  <2>5. ArrivalsLand' /\ ReadsRemove'
    BY <2>2, <2>4, ClerkArrivals
  <2> QED
    BY <1>1, <2>2, <2>5
<1>5. ASSUME NEW c \in Clerk, inv' = [inv EXCEPT ![c] = Idle],
             \A i \in DOMAIN ledger : ledger'[i].delta = ledger[i].delta,
             \A s \in Sku : owner[s] # c => stock'[s] = stock[s],
             \A l \in Location : status'[l] = "GONE" => status[l] = "GONE"
      PROVE  ArrivalsLand' /\ ReadsRemove'
  <2>1. inv'[c] = Idle /\ \A b \in Clerk \ {c} : inv'[b] = inv[b]
    BY <1>0, <1>5
  <2>2. ASSUME NEW b \in Clerk, b # c, inv[b].phase = "open"
        PROVE  stock'[inv[b].sku] = stock[inv[b].sku]
    <3>1. inv[b].sku \in Sku /\ owner[inv[b].sku] = b
      BY <2>2, OpenRequestType DEF Isolated, OpenHoldsLock
    <3> QED
      BY <1>5, <2>2, <3>1
  <2>3. \A l \in Location : ~BringsTo(c, l)'
    BY <2>1 DEF BringsTo
  <2>4. inv'[c].phase # "read"
    BY <2>1 DEF Idle
  <2> QED
    BY <1>5, <2>1, <2>2, <2>3, <2>4, ClerkArrivals
<1>6. ASSUME NEW c \in Clerk, Commit(c)
      PROVE  Lowered' /\ LooksHold' /\ GoneHoldsNoStock' /\ ArrivalsLand' /\ ReadsRemove'
  <2>1. /\ Lowered' /\ LooksHold' /\ GoneHoldsNoStock'
        /\ \A l \in Location : status'[l] = "GONE" => status[l] = "GONE"
    BY <1>0, <1>6, CommitGone
  <2>2. inv[c].sku \in Sku /\ owner[inv[c].sku] = c
        /\ (inv[c].kind = "REMOVE" => inv[c].entry \in DOMAIN ledger)
    BY <1>6, OpenRequestType DEF Commit, Isolated, OpenHoldsLock
  <2>3. \A s \in Sku : owner[s] # c => stock'[s] = stock[s]
    BY <1>0, <1>6, <2>2 DEF Commit
  <2>4. \A i \in DOMAIN ledger : ledger'[i].delta = ledger[i].delta
    <3>1. ledger \in Seq(LedgerRow) /\ \A i \in DOMAIN ledger : ledger[i] \in LedgerRow
      BY LedgerRowType DEF TypeOK, DbTypeOK
    <3>2. CASE inv[c].kind = "REMOVE"
      <4>1. ledger' = [ledger EXCEPT ![inv[c].entry].removed = TRUE]
        BY <1>6, <3>2 DEF Commit
      <4> QED
        BY <2>2, <3>1, <3>2, <4>1 DEF LedgerRow
    <3>3. CASE inv[c].kind # "REMOVE"
      <4> DEFINE e == Booked(inv[c])
      <4>1. ledger' = Append(ledger, e)
        BY <1>6, <3>3 DEF Commit
      <4> HIDE DEF e
      <4> QED
        BY <3>1, <4>1
    <3> QED
      BY <3>2, <3>3
  <2>5. inv' = [inv EXCEPT ![c] = Idle]
    BY <1>6 DEF Commit
  <2> QED
    BY <1>5, <2>1, <2>3, <2>4, <2>5
<1>7. ASSUME NEW c \in Clerk, Reject(c) \/ LockWaitTimeout(c)
      PROVE  Lowered' /\ LooksHold' /\ GoneHoldsNoStock' /\ ArrivalsLand' /\ ReadsRemove'
  <2>1. /\ UNCHANGED <<saved, ledger, status>> /\ inv' = [inv EXCEPT ![c] = Idle]
        /\ \A s \in Sku : /\ stock'[s] \in {stock[s], saved[s]}
                          /\ owner[s] # c => stock'[s] = stock[s]
    BY <1>0, <1>7 DEF Reject, RollbackTx, LockWaitTimeout, dbVars
  <2>2. ArrivalsLand' /\ ReadsRemove'
    BY <1>5, <2>1
  <2> QED
    BY <1>1, <2>1, <2>2
<1> QED
  BY <1>2, <1>3, <1>4, <1>6, <1>7 DEF InvStep

\* Looking first and deleting later, with no transaction around the two, never deletes a
\* location with stock while no booking is on its way to that location in between
\* (Apart): orders, the plain endpoints, bookings at other locations, other location
\* requests and crashes may run beside LocationService.remove, and a booking that has
\* looked at the location before it was deleted does not bring stock to it afterwards.
THEOREM DeletedHoldsNoStock == RawSpec /\ []Apart => []GoneHoldsNoStock
<1> DEFINE I == /\ TypeOK /\ Isolated /\ ReadsRemove /\ Lowered /\ LooksHold
                /\ GoneHoldsNoStock /\ ArrivalsLand
<1>1. Init => I
  <2> SUFFICES ASSUME Init PROVE I
    OBVIOUS
  <2>1. TypeOK
    BY InitTypeOK
  <2>2. \A s \in Sku, l \in Location :
          stock[s].at[l].quantity \in Int /\ stock[s] = saved[s]
    BY <2>1, CellsType DEF Init, DbInit, TypeOK
  <2>3. Lowered
    BY <2>2 DEF Lowered
  <2>7. Isolated
    BY DEF Init, DbInit, InvInit, Idle, Isolated, NoDirtyRows, OpenHoldsLock
  <2>4. LooksHold
    BY DEF Init, LocInit, Resting, LooksHold
  <2>5. GoneHoldsNoStock
    BY DEF Init, DbInit, GoneHoldsNoStock
  <2>6. ReadsRemove /\ ArrivalsLand
    BY DEF Init, InvInit, Idle, ReadsRemove, ArrivalsLand, BringsTo
  <2> QED
    BY <2>1, <2>3, <2>4, <2>5, <2>6, <2>7
<1>2. I /\ Apart /\ [Next \/ RawNext]_vars => I'
  <2> SUFFICES ASSUME I, Apart, [Next \/ RawNext]_vars PROVE I'
    OBVIOUS
  <2>1. TypeOK' /\ DbTypeOK'
    BY NextTypeOK, RawStepType DEF TypeOK
  <2>0. Isolated'
    <3>1. CASE RawNext
      <4>1. PICK s \in Sku : \/ \E q \in Amount : PatchQuantity(s, q) \/ CreateInventory(s, q)
                             \/ RemoveInventory(s)
        BY <3>1 DEF RawNext, RawStep
      <4>2. /\ saved' = [saved EXCEPT ![s] = stock'[s]] /\ UNCHANGED <<owner, inv>>
            /\ \A t \in Sku \ {s} : stock'[t] = stock[t]
        BY <4>1 DEF PatchQuantity, CreateInventory, RemoveInventory, TypeOK, DbTypeOK
      <4>3. NoDirtyRows'
        BY <4>2 DEF TypeOK, DbTypeOK, Isolated, NoDirtyRows
      <4> QED
        BY <4>2, <4>3 DEF Isolated, OpenHoldsLock
    <3> QED
      BY <3>1, NextIsolated
  <2>2. ASSUME UNCHANGED vars PROVE I'
    <3>1. UNCHANGED <<stock, saved, status, loc, inv, ledger>>
      BY <2>2 DEF vars, dbVars
    <3>2. ArrivalsLand' /\ ReadsRemove'
      BY <3>1, OthersLeaveArrivals
    <3> QED
      BY <2>0, <2>1, <3>1, <3>2 DEF Lowered, LooksHold, GoneHoldsNoStock
  <2>3. CASE OrdStep /\ UNCHANGED <<inv, loc>>
    <3>1. Lowered' /\ SavedFalls /\ UNCHANGED status
      BY <2>3, TypedToo, OrdStepLowered
    <3>2. LooksHold' /\ GoneHoldsNoStock'
      BY <2>1, <2>3, <3>1, LooksKept DEF SavedFalls
    <3>3. ArrivalsLand' /\ ReadsRemove'
      BY <2>3, <3>1, OrdStepAdds, OrdStepLeaves, TypedToo, OthersLeaveArrivals
    <3> QED
      BY <2>0, <2>1, <3>1, <3>2, <3>3
  <2>4. CASE LocStep /\ UNCHANGED <<orders, req, inv>>
    <3>1. UNCHANGED <<stock, saved, owner, ledger>>
      BY <2>4, LocStepStill
    <3>2. Lowered'
      BY <3>1 DEF Lowered
    <3>3. /\ LooksHold' /\ GoneHoldsNoStock'
          /\ \A l \in Location : status'[l] = "GONE" =>
               status[l] = "GONE" \/ \A c \in Clerk : ~BringsTo(c, l)
      BY <2>4, LocStepGone
    <3>4. ArrivalsLand' /\ ReadsRemove'
      BY <2>4, <3>1, <3>3, OthersLeaveArrivals
    <3> QED
      BY <2>0, <2>1, <3>2, <3>3, <3>4
  <2>5. CASE Crash
    <3>1. \A s \in Sku, l \in Location :
            saved[s].at[l].quantity \in Int /\ stock'[s] = saved[s] /\ saved' = saved
      BY <2>5, CellsType DEF Crash, RollbackAll, TypeOK
    <3>2. Lowered'
      BY <3>1 DEF Lowered
    <3>3. ArrivalsLand' /\ ReadsRemove'
      BY <2>5 DEF Crash, ArrivalsLand, BringsTo, ReadsRemove, Idle
    <3> QED
      BY <2>0, <2>1, <2>5, <3>2, <3>3
         DEF Crash, RollbackAll, Resting, LooksHold, GoneHoldsNoStock
  <2>6. CASE RawNext
    <3>1. Lowered' /\ SavedFalls /\ UNCHANGED <<status, loc>>
      BY <2>6, RawStepLowered
    <3>2. LooksHold' /\ GoneHoldsNoStock'
      BY <2>1, <3>1, LooksKept DEF SavedFalls
    <3>3. UNCHANGED <<ledger, inv>> /\ \A s \in Sku : owner[s] \in Clerk => stock'[s] = stock[s]
      <4>1. PICK s \in Sku : \/ \E q \in Amount : PatchQuantity(s, q) \/ CreateInventory(s, q)
                             \/ RemoveInventory(s)
        BY <2>6 DEF RawNext, RawStep
      <4>2. owner[s] = NoTx /\ UNCHANGED <<ledger, inv>>
        BY <4>1 DEF PatchQuantity, CreateInventory, RemoveInventory
      <4>3. \A t \in Sku \ {s} : stock'[t] = stock[t]
        BY <4>1 DEF PatchQuantity, CreateInventory, RemoveInventory, TypeOK, DbTypeOK
      <4>4. NoTx \notin Clerk
        BY StockDbAssumption
      <4> QED
        BY <4>2, <4>3, <4>4
    <3>4. ArrivalsLand' /\ ReadsRemove'
      BY <3>1, <3>3, OthersLeaveArrivals
    <3> QED
      BY <2>0, <2>1, <3>1, <3>2, <3>4
  <2>7. CASE InvStep /\ UNCHANGED <<orders, req, loc>>
    BY <2>0, <2>1, <2>7, InvStepGone
  <2> QED
    BY <2>2, <2>3, <2>4, <2>5, <2>6, <2>7 DEF Next
<1>3. I => GoneHoldsNoStock
  OBVIOUS
<1> QED
  BY <1>1, <1>2, <1>3, PTL DEF RawSpec

-----------------------------------------------------------------------------
(* What the views show: stock lies in location rows only *)

\* A location without a row of the SKU has none of it.
RowTells(r) == \A l \in Location \ r.rows : r.at[l].quantity = 0

AllRowsTell == \A s \in Sku : RowTells(stock[s]) /\ RowTells(saved[s])

\* Orders leave the set of rows as it is, and take from rows that have something.
LEMMA OutcomesTell ==
  ASSUME NEW e \in Effect \ {"none"}, NEW r \in Row, NEW q \in Nat,
         NEW out \in Outcomes(e, r, q), RowCovered(r), RowTells(r)
  PROVE  RowTells(out.row)
<1>0. FreeAt(r) \in [Location -> Int] /\ HeldAt(r) \in [Location -> Int]
  BY Capacities
<1>1. ASSUME NEW cap \in [Location -> Int], NEW sq \in {-1, 0}, NEW sl \in {-1, 1},
             out \in Passes(r, cap, q, sq, sl)
      PROVE  out.row.rows = r.rows
  <2>1. \E take \in Splits(cap, q) : out.row = Taken(r, take, q, sq, sl)
    BY <1>1, PassesShape
  <2> QED
    BY <2>1 DEF Taken, Row
<1>2. out.row.rows = r.rows
  <2>1. CASE e = "lock"
    <3>1. out \in Passes(r, FreeAt(r), q, 0, 1)
      BY <2>1 DEF Outcomes, LockOutcomes
    <3> QED
      BY <1>0, <1>1, <3>1
  <2>2. CASE e = "release"
    <3>1. out \in Passes(r, HeldAt(r), q, 0, -1)
      BY <2>2 DEF Outcomes, ReleaseOutcomes
    <3> QED
      BY <1>0, <1>1, <3>1
  <2>3. CASE e = "deduct"
    <3>1. out \in Passes(r, HeldAt(r), q, -1, -1)
      BY <2>3 DEF Outcomes, DeductOutcomes
    <3> QED
      BY <1>0, <1>1, <3>1
  <2> QED
    BY <2>1, <2>2, <2>3 DEF Effect
<1>3. out.row \in Row /\ RowCovered(out.row)
  BY OutcomesKeepCovered
<1>4. ASSUME NEW l \in Location \ out.row.rows
      PROVE  out.row.at[l].quantity = 0
  <2>1. r.at[l].quantity = 0
    BY <1>2, <1>4 DEF RowTells
  <2>2. out.row.at[l].quantity <= r.at[l].quantity
    BY OutcomesLower
  <2>3. out.row.at[l] \in Cell
    BY <1>3 DEF Row
  <2>4. 0 <= out.row.at[l].locked /\ out.row.at[l].locked <= out.row.at[l].quantity
    BY <1>3 DEF RowCovered, Covered
  <2>5. out.row.at[l].locked \in Int /\ out.row.at[l].quantity \in Int
    BY <2>3 DEF Cell
  <2> QED
    BY <2>1, <2>2, <2>4, <2>5
<1> QED
  BY <1>4 DEF RowTells

\* A manual operation gives the location a row when it moves stock there.
LEMMA MovedTells ==
  ASSUME NEW r \in Row, NEW l \in Location \union {NoLocation}, NEW d \in Int, RowTells(r)
  PROVE  RowTells(Moved(r, l, d))
<1> DEFINE home == IF r.exists THEN r.home ELSE l
           base == [r EXCEPT !.exists = TRUE, !.home = home, !.quantity = @ + d]
<1>1. /\ base \in Row /\ base.at = r.at /\ base.rows = r.rows /\ base.locked = r.locked
      /\ base.quantity = r.quantity + d
  <2>1. home \in Location \union {NoLocation}
    BY DEF Row
  <2> HIDE DEF home
  <2> QED
    BY <2>1, RowRaised
<1>2. Moved(r, l, d) = CellChanged(base, l, d)
  BY DEF Moved
<1>3. r.rows \subseteq Moved(r, l, d).rows /\ (d # 0 /\ l # NoLocation => l \in Moved(r, l, d).rows)
  <2> HIDE DEF base
  <2>1. base.rows \in SUBSET Location /\ base.at \in [Location -> Cell]
    BY <1>1 DEF Row
  <2>2. CASE l = NoLocation \/ d = 0
    BY <1>1, <1>2, <2>2 DEF CellChanged
  <2>3. CASE l # NoLocation /\ d # 0
    <3>1. Moved(r, l, d) = [base EXCEPT !.rows = @ \union {l}, !.at[l].quantity = @ + d]
      BY <1>2, <2>3 DEF CellChanged
    <3>2. Moved(r, l, d).rows = base.rows \union {l}
      BY <1>1, <3>1 DEF Row
    <3> QED
      BY <1>1, <3>2
  <2> QED
    BY <2>2, <2>3
<1>4. ASSUME NEW m \in Location \ Moved(r, l, d).rows
      PROVE  Moved(r, l, d).at[m].quantity = 0
  <2>1. r.at[m].quantity = 0
    BY <1>3, <1>4 DEF RowTells
  <2>2. m = l => d = 0
    BY <1>3, <1>4, LocationAssumption
  <2>3. Moved(r, l, d).at[m].quantity = r.at[m].quantity + (IF m = l THEN d ELSE 0)
    BY MovedCells
  <2> QED
    BY <2>1, <2>2, <2>3
<1> QED
  BY <1>4 DEF RowTells

\* So every order step leaves stock in location rows only, ...
LEMMA OrdStepTells ==
  ASSUME Typed, StockCovered, AllRowsTell, OrdStep
  PROVE  AllRowsTell'
<1>1. ASSUME \A s \in Sku : stock'[s] \in {stock[s], saved[s]} /\ saved'[s] \in {stock[s], saved[s]}
      PROVE  AllRowsTell'
  BY <1>1 DEF AllRowsTell
<1>2. ASSUME NEW w \in Worker, StockStep(w) PROVE AllRowsTell'
  <2> DEFINE k == NextItem(w).sku
             q == NextItem(w).quantity
             e == req[w].effect
  <2>1. /\ e \in Effect \ {"none"} /\ k \in Sku /\ q \in Nat /\ stock[k] \in Row
    BY <1>2, AtItemType DEF Typed, DbTypeOK, StockStep, Item
  <2>2. PICK out \in ItemOutcomes(w) : stock' = [stock EXCEPT ![k] = out.row]
    BY <1>2 DEF StockStep
  <2>3. RowCovered(stock[k]) /\ RowTells(stock[k]) /\ out \in Outcomes(e, stock[k], q)
    BY <2>1, <2>2 DEF StockCovered, AllRowsTell, ItemOutcomes
  <2> HIDE DEF k, q, e
  <2>5. RowTells(out.row)
    BY <2>1, <2>3, OutcomesTell
  <2>6. \A s \in Sku : stock'[s] = IF s = k THEN out.row ELSE stock[s]
    BY <2>2 DEF Typed, DbTypeOK
  <2>7. saved' = saved
    BY <1>2 DEF StockStep
  <2> QED
    BY <2>5, <2>6, <2>7 DEF AllRowsTell
<1>3. ASSUME NEW w \in Worker, Save(w) PROVE AllRowsTell'
  <2>1. \A s \in Sku : stock'[s] = stock[s] /\ saved'[s] \in {stock[s], saved[s]}
    BY <1>3 DEF Save, CommitTx
  <2> QED
    BY <1>1, <2>1
<1>4. ASSUME NEW w \in Worker, StockFail(w) \/ SaveFail(w) \/ LockWaitFails(w)
      PROVE  AllRowsTell'
  <2>1. \A s \in Sku : saved'[s] = saved[s] /\ stock'[s] \in {stock[s], saved[s]}
    BY <1>4, AbortShape DEF Abort, RollbackTx
  <2> QED
    BY <1>1, <2>1
<1>5. ASSUME NEW w \in Worker, Begin(w) PROVE UNCHANGED <<stock, saved>>
  <2>1. \E o, phase, copy, effect : Start(w, o, phase, copy, effect)
    BY <1>5, BeginShape
  <2> QED
    BY <2>1 DEF Start, dbVars
<1>6. ASSUME UNCHANGED <<stock, saved>> PROVE AllRowsTell'
  BY <1>6 DEF AllRowsTell
<1>7. ASSUME NEW w \in Worker, ReadRow(w) \/ Delete(w) \/ Patch(w)
      PROVE  UNCHANGED <<stock, saved>>
  BY <1>7 DEF ReadRow, Delete, Patch, dbVars
<1>8. ASSUME NEW o \in Order, NEW source, NEW type, NEW st, Create(o, source, type, st)
      PROVE  UNCHANGED <<stock, saved>>
  BY <1>8 DEF Create, dbVars
<1> QED
  BY <1>2, <1>3, <1>4, <1>5, <1>6, <1>7, <1>8 DEF OrdStep, Proceed

\* ... and so does every step of the inventory service.
LEMMA InvStepTells ==
  ASSUME TypeOK, Isolated, Locking, AllRowsTell, InvStep
  PROVE  AllRowsTell'
<1>1. ASSUME \A s \in Sku : stock'[s] \in {stock[s], saved[s]} /\ saved'[s] = saved[s]
      PROVE  AllRowsTell'
  BY <1>1 DEF AllRowsTell
<1>2. ASSUME NEW c \in Clerk, Reject(c) PROVE AllRowsTell'
  BY <1>1, <1>2 DEF Reject, RollbackTx
<1>3. ASSUME UNCHANGED <<stock, saved>> PROVE AllRowsTell'
  BY <1>1, <1>3
<1>4. ASSUME NEW c \in Clerk, Commit(c) PROVE AllRowsTell'
  <2> DEFINE op == inv[c]
             k == op.sku
             d == Delta(op)
             l == WorkLocation(op)
             m == Moved(stock[k], l, d)
  <2>1. /\ k \in Sku /\ stock[k] \in Row /\ d \in Int /\ l \in Location \union {NoLocation}
    BY <1>4, OpenRequestType DEF Commit
  <2>2. stock' = [stock EXCEPT ![k] = m] /\ saved' = [saved EXCEPT ![k] = m]
    BY <1>4, CommitShape
  <2>3. RowTells(stock[k])
    BY <2>1 DEF AllRowsTell
  <2>4. RowTells(m)
    <3> HIDE DEF k, d, l
    <3> QED
      BY <2>1, <2>3, MovedTells
  <2>5. stock \in [Sku -> Row] /\ saved \in [Sku -> Row]
    BY DEF TypeOK, DbTypeOK
  <2> HIDE DEF m, k, d, l
  <2> QED
    BY <2>1, <2>2, <2>4, <2>5 DEF AllRowsTell
<1> QED
  BY <1>2, <1>3, <1>4 DEF InvStep, Open, ReadEntry, LockForRemove, LockWaitTimeout, dbVars

-----------------------------------------------------------------------------
(* What the views show: ledger rows move stock the way their kind says *)

Signed(e) ==
  /\ e.kind = "INBOUND" => e.delta >= 0
  /\ e.kind = "OUTBOUND" => e.delta <= 0
  /\ e.kind \in {"STOCK_LOCK", "STOCK_RELEASE"} => e.delta = 0

\* Those in the ledger, and those that requests have written.
AllSigned ==
  /\ \A i \in DOMAIN ledger : Signed(ledger[i])
  /\ \A w \in Worker : \A i \in DOMAIN Rows(w) : Signed(Rows(w)[i])

\* An order's ledger row is of a kind that fits what is done to the stock.
LEMMA ItemRowSigned ==
  ASSUME Typed, NEW w \in Worker, AtItem(w), NEW l \in Location
  PROVE  Signed(ItemLedgerRow(w, l))
<1>1. NextItem(w).quantity \in Nat /\ req[w].effect \in Effect
  BY AtItemType DEF Item, Typed
<1> QED
  BY <1>1 DEF Signed, ItemLedgerRow, Effect

\* Appending such rows leaves such rows only.
LEMMA SignedJoin ==
  ASSUME NEW L, L \in Seq(LedgerRow), NEW M, M \in Seq(LedgerRow),
         \A i \in DOMAIN L : Signed(L[i]), \A i \in DOMAIN M : Signed(M[i])
  PROVE  \A i \in DOMAIN (L \o M) : Signed((L \o M)[i])
<1> SUFFICES ASSUME NEW i \in DOMAIN (L \o M) PROVE Signed((L \o M)[i])
  OBVIOUS
<1>1. CASE i \in DOMAIN L
  <2>1. (L \o M)[i] = L[i]
    BY <1>1
  <2> QED
    BY <1>1, <2>1
<1>2. CASE i \notin DOMAIN L
  <2>1. i - Len(L) \in DOMAIN M /\ (L \o M)[i] = M[i - Len(L)]
    BY <1>2
  <2> QED
    BY <2>1
<1> QED
  BY <1>1, <1>2

LEMMA SignedAppend ==
  ASSUME NEW L, L \in Seq(LedgerRow), NEW e, e \in LedgerRow, Signed(e),
         \A i \in DOMAIN L : Signed(L[i])
  PROVE  \A i \in DOMAIN Append(L, e) : Signed(Append(L, e)[i])
<1>1. DOMAIN Append(L, e) = 1..(Len(L) + 1) /\ DOMAIN L = 1..Len(L) /\ Len(L) \in Nat
  OBVIOUS
<1>2. \A i \in 1..(Len(L) + 1) : Append(L, e)[i] = IF i = Len(L) + 1 THEN e ELSE L[i]
  OBVIOUS
<1> QED
  BY <1>1, <1>2

LEMMA OrdStepSigned ==
  ASSUME Typed, AllSigned, OrdStep
  PROVE  AllSigned'
<1>0. req \in [Worker -> OrderRequest \union {Free}] /\ ledger \in Seq(LedgerRow)
  BY DEF Typed, OrdTypeOK, DbTypeOK
<1>1. ASSUME UNCHANGED ledger, NEW w \in Worker, \A v \in Worker \ {w} : req'[v] = req[v],
             \A i \in DOMAIN Rows(w)' : Signed(Rows(w)'[i])
      PROVE  AllSigned'
  BY <1>1 DEF AllSigned, Rows
<1>2. ASSUME NEW w \in Worker, StockStep(w) PROVE AllSigned'
  <2>1. PICK out \in ItemOutcomes(w) :
          req'[w].rows = Append(req[w].rows, ItemLedgerRow(w, out.location))
    <3>1. req[w] \in OrderRequest
      BY <1>0, <1>2 DEF StockStep, AtItem, Free
    <3> QED
      BY <1>0, <1>2, <3>1 DEF StockStep, OrderRequest
  <2>2. out.location \in Location
    <3>1. /\ req[w].effect \in Effect \ {"none"} /\ NextItem(w) \in Item
      BY <1>2, AtItemType DEF StockStep, Typed
    <3>2. stock[NextItem(w).sku] \in Row /\ NextItem(w).quantity \in Nat
      BY <3>1 DEF Typed, DbTypeOK, Item
    <3> QED
      BY <2>1, <3>1, <3>2, OutcomesKeepCovered DEF ItemOutcomes
  <2>3. ItemLedgerRow(w, out.location) \in LedgerRow /\ Signed(ItemLedgerRow(w, out.location))
    BY <1>2, <2>2, ItemLedgerRowType, ItemRowSigned DEF StockStep, Typed
  <2>4. /\ req[w] \in OrderRequest /\ req'[w] # Free /\ req[w] # Free
        /\ req[w].rows \in Seq(LedgerRow) /\ Rows(w) = req[w].rows /\ Rows(w)' = req'[w].rows
    <3>1. req[w] \in OrderRequest /\ req[w] # Free /\ req[w].phase = "working"
      BY <1>0, <1>2 DEF StockStep, AtItem, Free
    <3>2. req'[w].phase = "working"
      BY <1>0, <1>2, <3>1 DEF StockStep, OrderRequest
    <3> QED
      BY <3>1, <3>2 DEF Rows, Free, OrderRequest
  <2>5. \A i \in DOMAIN Rows(w)' : Signed(Rows(w)'[i])
    <3>1. \A i \in DOMAIN req[w].rows : Signed(req[w].rows[i])
      BY <2>4 DEF AllSigned
    <3> QED
      BY <2>1, <2>3, <2>4, <3>1, SignedAppend
  <2>6. UNCHANGED ledger /\ \A v \in Worker \ {w} : req'[v] = req[v]
    BY <1>0, <1>2 DEF StockStep
  <2> QED
    BY <1>1, <2>5, <2>6
<1>3. ASSUME NEW w \in Worker, Save(w) PROVE AllSigned'
  <2>1. ledger' = ledger \o req[w].rows /\ req[w] # Free /\ req[w].rows \in Seq(LedgerRow)
    BY <1>0, <1>3, RequestType DEF Save, Free
  <2>2. \A i \in DOMAIN req[w].rows : Signed(req[w].rows[i])
    BY <2>1 DEF AllSigned, Rows
  <2>3. \A i \in DOMAIN ledger' : Signed(ledger'[i])
    BY <1>0, <2>1, <2>2, SignedJoin DEF AllSigned
  <2>4. \A v \in Worker : Rows(v)' = IF v = w THEN <<>> ELSE Rows(v)
    BY <1>0, <1>3 DEF Save, Rows
  <2> QED
    BY <2>3, <2>4 DEF AllSigned
<1>4. ASSUME NEW w \in Worker, req'[w] = Free \/ req'[w].rows = <<>>,
             UNCHANGED ledger, \A v \in Worker \ {w} : req'[v] = req[v]
      PROVE  AllSigned'
  <2>1. Rows(w)' = <<>>
    BY <1>4 DEF Rows
  <2> QED
    BY <1>1, <1>4, <2>1
<1>5. ASSUME NEW w \in Worker, StockFail(w) \/ SaveFail(w) \/ LockWaitFails(w)
      PROVE  AllSigned'
  BY <1>0, <1>4, <1>5, AbortShape DEF Abort, RollbackTx
<1>6. ASSUME NEW w \in Worker, Begin(w) PROVE AllSigned'
  <2>1. PICK o, phase, copy, effect : Start(w, o, phase, copy, effect)
    BY <1>6, BeginShape
  <2>2. req'[w].rows = <<>> /\ UNCHANGED ledger /\ \A v \in Worker \ {w} : req'[v] = req[v]
    BY <1>0, <2>1 DEF Start, dbVars
  <2> QED
    BY <1>4, <2>2
<1>7. ASSUME NEW w \in Worker, Delete(w) \/ Patch(w) PROVE AllSigned'
  BY <1>0, <1>4, <1>7 DEF Delete, Patch, dbVars
<1>8. ASSUME NEW w \in Worker, ReadRow(w) PROVE AllSigned'
  <2>1. req[w] \in OrderRequest /\ req[w] # Free
    BY <1>0, <1>8 DEF ReadRow, Free
  <2>2. req'[w].rows = req[w].rows /\ req'[w].phase = req[w].phase
    BY <1>0, <1>8, <2>1 DEF ReadRow, OrderRequest
  <2>3. Rows(w)' = Rows(w)
    <3>0. req'[w].phase = "working"
      BY <1>8, <2>2 DEF ReadRow
    <3>1. req'[w] # Free
      BY <3>0 DEF Free
    <3> QED
      BY <2>1, <2>2, <3>1 DEF Rows
  <2>4. UNCHANGED ledger /\ \A v \in Worker \ {w} : req'[v] = req[v]
    BY <1>0, <1>8 DEF ReadRow, dbVars
  <2> QED
    BY <1>1, <2>3, <2>4 DEF AllSigned
<1>9. ASSUME NEW o \in Order, NEW source, NEW type, NEW st, Create(o, source, type, st)
      PROVE  AllSigned'
  BY <1>9 DEF Create, dbVars, AllSigned, Rows
<1> QED
  BY <1>2, <1>3, <1>5, <1>6, <1>7, <1>8, <1>9 DEF OrdStep, Proceed

\* A manual operation books what it did under the kind it was asked for; taking a row
\* back only marks it.
LEMMA InvStepSigned ==
  ASSUME TypeOK, AllSigned, InvStep, UNCHANGED req
  PROVE  AllSigned'
<1>1. ASSUME \A i \in DOMAIN ledger' : Signed(ledger'[i]) PROVE AllSigned'
  BY <1>1 DEF AllSigned, Rows
<1>2. ASSUME NEW c \in Clerk, Commit(c) PROVE \A i \in DOMAIN ledger' : Signed(ledger'[i])
  <2> DEFINE op == inv[c]
  <2>0. ledger \in Seq(LedgerRow) /\ op \in Request /\ op.quantity \in Nat
    BY <1>2, OpenRequestType DEF TypeOK, DbTypeOK, Commit, Request
  <2>1. CASE op.kind = "REMOVE"
    <3>1. op.entry \in DOMAIN ledger /\ ledger' = [ledger EXCEPT ![op.entry].removed = TRUE]
      BY <1>2, <2>1, OpenRequestType DEF Commit
    <3>2. \A i \in DOMAIN ledger : /\ i \in DOMAIN ledger' /\ ledger[i] \in LedgerRow
                                   /\ ledger'[i].kind = ledger[i].kind
                                   /\ ledger'[i].delta = ledger[i].delta
      BY <3>1, LedgerRowType DEF LedgerRow, TypeOK
    <3>3. DOMAIN ledger' = DOMAIN ledger
      BY <3>1
    <3> QED
      BY <3>2, <3>3 DEF AllSigned, Signed
  <2>2. CASE op.kind # "REMOVE"
    <3> DEFINE e == Booked(op)
    <3>1. ledger' = Append(ledger, e)
      BY <1>2, <2>2 DEF Commit
    <3>2. Signed(e)
      BY <2>0, <2>2 DEF Booked, Signed, Delta, Request, Kind
    <3>3. ledger' \in Seq(LedgerRow)
      BY <1>2, CommitType DEF DbTypeOK
    <3>4. e \in LedgerRow
      <4>1. WorkLocation(op) \in Location \union {NoLocation} /\ Delta(op) \in Int
        BY <1>2, OpenRequestType DEF Commit
      <4> QED
        BY <2>0, <2>2, <4>1 DEF Booked, LedgerRow, LedgerKind, Request, Kind
    <3> HIDE DEF e
    <3> QED
      BY <2>0, <3>1, <3>2, <3>4, SignedAppend DEF AllSigned
  <2> QED
    BY <2>1, <2>2
<1> QED
  BY <1>1, <1>2, InvStepCommits DEF AllSigned

-----------------------------------------------------------------------------
(* What the views show: they agree *)

\* One member of a sum of naturals is at most the sum.
LEMMA MemberWithinSum ==
  ASSUME NEW S, IsFiniteSet(S), NEW f, f \in [S -> Nat], NEW y, y \in S
  PROVE  f[y] <= SumFunction(f)
<1> DEFINE h == [x \in S |-> IF x = y THEN 0 ELSE f[x]]
<1>1. h \in [S -> Nat] /\ h \in [S -> Int] /\ f \in [S -> Int] /\ f[y] \in Nat
  OBVIOUS
<1>2. h[y] = 0 /\ \A x \in S \ {y} : h[x] = f[x]
  OBVIOUS
<1> HIDE DEF h
<1>3. SumFunction(h) = SumFunction(f) - f[y] + h[y]
  BY <1>1, <1>2, SumChange
<1>4. SumFunction(h) \in Nat /\ SumFunction(f) \in Nat
  BY <1>1, SumNat
<1> QED
  BY <1>1, <1>2, <1>3, <1>4

\* What can be taken from the locations, in a row whose location rows add up.
FreeCell(r) == [l \in Location |-> r.at[l].quantity - r.at[l].locked]

LEMMA FreeCells ==
  ASSUME NEW r \in Row, RowCovered(r), RowTells(r)
  PROVE  /\ FreeCell(r) \in [Location -> Nat]
         /\ \A l \in Location : /\ r.at[l].quantity \in Nat /\ r.at[l].locked \in Nat
                                /\ r.at[l].locked <= r.at[l].quantity
                                /\ l \notin r.rows => r.at[l].quantity = 0 /\ r.at[l].locked = 0
         /\ SumFunction(FreeCell(r)) = QuantityAt(r) - LockedAt(r)
         /\ r.quantity \in Nat /\ r.locked \in Nat /\ r.locked <= r.quantity
         /\ r.rows \subseteq Location
<1>1. \A l \in Location : r.at[l].quantity \in Int /\ r.at[l].locked \in Int
  BY DEF Row, Cell
<1>2. \A l \in Location : 0 <= r.at[l].locked /\ r.at[l].locked <= r.at[l].quantity
  BY DEF RowCovered, Covered
<1>3. \A l \in Location : r.at[l].quantity \in Nat /\ r.at[l].locked \in Nat
  BY <1>1, <1>2
<1>4. \A l \in Location : l \notin r.rows => r.at[l].quantity = 0 /\ r.at[l].locked = 0
  BY <1>1, <1>2 DEF RowTells
<1>5. FreeCell(r) \in [Location -> Nat]
  BY <1>2, <1>3 DEF FreeCell
<1>6. SumFunction(FreeCell(r)) = QuantityAt(r) - LockedAt(r)
  <2> DEFINE f == [l \in Location |-> r.at[l].quantity]
             d == [l \in Location |-> r.at[l].locked]
             h == FreeCell(r)
             m == -1
  <2>1. f \in [Location -> Int] /\ d \in [Location -> Int] /\ h \in [Location -> Int]
    BY <1>1, <1>5
  <2>2. \A l \in Location : h[l] = f[l] + m * d[l]
    BY <1>1 DEF FreeCell
  <2>3. m \in {-1, 0, 1} /\ IsFiniteSet(Location)
    BY LocationAssumption
  <2>4. SumFunction(f) = QuantityAt(r) /\ SumFunction(d) = LockedAt(r)
    BY DEF QuantityAt, LockedAt
  <2>5. QuantityAt(r) \in Int /\ LockedAt(r) \in Int
    BY RowSumsInt
  <2> HIDE DEF f, d, h, m
  <2>6. SumFunction(h) = SumFunction(f) + m * SumFunction(d)
    BY <2>1, <2>2, <2>3, SumPlus
  <2> QED
    BY <2>4, <2>5, <2>6 DEF h, m
<1>7. r.quantity \in Nat /\ r.locked \in Nat /\ r.locked <= r.quantity
  BY DEF RowCovered, Covered, Row
<1>8. r.rows \subseteq Location
  BY DEF Row
<1> QED
  BY <1>2, <1>3, <1>4, <1>5, <1>6, <1>7, <1>8

\* Summing over some of the locations is enough, when the others have nothing.
LEMMA SumOfSome ==
  ASSUME NEW T, T \subseteq Location, NEW h, h \in [Location -> Int],
         \A l \in Location \ T : h[l] = 0
  PROVE  SumFunction([l \in T |-> h[l]]) = SumFunction(h)
<1> DEFINE f == [l \in T |-> h[l]]
<1>1. T \in SUBSET Location /\ f \in [T -> Int]
  OBVIOUS
<1>2. \A x \in Location : h[x] = IF x \in T THEN f[x] ELSE 0
  OBVIOUS
<1> HIDE DEF f
<1>3. SumFunction(f) = SumFunction(h)
  BY <1>1, <1>2, SumSelected, LocationAssumption
<1> QED
  BY <1>3 DEF f

\* Of a SKU with a default location, the rows say three times the same.
LEMMA LocatedTotals ==
  ASSUME DbTypeOK, StockCovered, AllRowsTell, AllAddUp, NEW s \in Sku, Located(s)
  PROVE  /\ saved[s] \in Row /\ RowCovered(saved[s]) /\ RowTells(saved[s])
         /\ saved[s].home \in Location
         /\ QuantityAt(saved[s]) = saved[s].quantity
         /\ LockedAt(saved[s]) = saved[s].locked
         /\ SumFunction(FreeCell(saved[s])) = FreeOf(s)
         /\ FreeOf(s) \in Nat
<1>1. saved[s] \in Row /\ RowCovered(saved[s]) /\ RowTells(saved[s]) /\ AddsUp(saved[s])
  BY DEF DbTypeOK, StockCovered, AllRowsTell, AllAddUp
<1>2. saved[s].home \in Location /\ saved[s].home # NoLocation
  BY <1>1 DEF Located, Row
<1>3. QuantityAt(saved[s]) = saved[s].quantity /\ LockedAt(saved[s]) = saved[s].locked
  BY <1>1, <1>2 DEF AddsUp
<1>4. /\ SumFunction(FreeCell(saved[s])) = QuantityAt(saved[s]) - LockedAt(saved[s])
      /\ saved[s].quantity \in Nat /\ saved[s].locked \in Nat
      /\ saved[s].locked <= saved[s].quantity
  BY <1>1, FreeCells
<1> QED
  BY <1>1, <1>2, <1>3, <1>4 DEF FreeOf

\* The pages agree because nothing is locked that is not there.
LEMMA PagesTell ==
  ASSUME DbTypeOK, StockCovered
  PROVE  PagesAgree
<1> SUFFICES ASSUME NEW s \in Sku, OnStockPage(s), NEW n \in SafetyLevel \ {0}
             PROVE  /\ \A st \in {"OUT_OF_STOCK", "LOW_STOCK", "IN_STOCK"} :
                         Filtered(s, st, n) <=> StockStatus(s, n) = st
                    /\ OnAlertPage(s, n) <=> Warns(s, n)
                    /\ OnAlertPage(s, n) <=> StockStatus(s, n) # "IN_STOCK"
                    /\ AlertLevel(s, n) = "CRITICAL" <=> StockStatus(s, n) = "OUT_OF_STOCK"
  BY DEF PagesAgree
<1>1. n \in Nat /\ n > 0 /\ Stocked(s)
  BY StockViewsAssumption DEF OnStockPage
<1>2. FreeOf(s) \in Nat
  <2>1. saved[s] \in Row /\ RowCovered(saved[s])
    BY DEF DbTypeOK, StockCovered
  <2> QED
    BY <2>1 DEF RowCovered, Covered, Row, FreeOf
<1>3. /\ StockStatus(s, n) = "OUT_OF_STOCK" <=> FreeOf(s) = 0
      /\ StockStatus(s, n) = "LOW_STOCK" <=> FreeOf(s) > 0 /\ FreeOf(s) < n
      /\ StockStatus(s, n) = "IN_STOCK" <=> FreeOf(s) >= n
  BY <1>1, <1>2 DEF StockStatus, AtLeastZero
<1>4. \A st \in {"OUT_OF_STOCK", "LOW_STOCK", "IN_STOCK"} :
        Filtered(s, st, n) <=> StockStatus(s, n) = st
  <2>1. Filtered(s, "OUT_OF_STOCK", n) <=> FreeOf(s) = 0
    BY DEF Filtered
  <2>2. Filtered(s, "LOW_STOCK", n) <=> FreeOf(s) > 0 /\ FreeOf(s) < n
    BY DEF Filtered
  <2>3. Filtered(s, "IN_STOCK", n) <=> FreeOf(s) >= n
    BY DEF Filtered
  <2> QED
    BY <1>3, <2>1, <2>2, <2>3
<1>5. OnAlertPage(s, n) <=> FreeOf(s) < n
  BY <1>1 DEF OnAlertPage
<1>6. Warns(s, n) <=> FreeOf(s) < n
  BY <1>1 DEF Warns
<1>7. AlertLevel(s, n) = "CRITICAL" <=> FreeOf(s) <= 0
  BY DEF AlertLevel
<1> QED
  BY <1>1, <1>2, <1>3, <1>4, <1>5, <1>6, <1>7

\* The lamps sum what the inventory row says in one.
LEMMA LampsTell ==
  ASSUME DbTypeOK, StockCovered, AllRowsTell, AllAddUp
  PROVE  LampsAgree
<1> SUFFICES ASSUME NEW s \in Sku, Located(s), NEW n \in SafetyLevel
             PROVE  /\ LampColour(s, n) = "red" <=> StockStatus(s, n) = "OUT_OF_STOCK"
                    /\ StockStatus(s, n) = "LOW_STOCK" => LampColour(s, n) = "yellow"
                    /\ LampColour(s, n) = "yellow" =>
                         StockStatus(s, n) = "LOW_STOCK" \/ FreeOf(s) = n
  BY DEF LampsAgree
<1> DEFINE r == saved[s]
           total == SumFunction([l \in r.rows |-> FreeIn(s, l)])
<1>1. r \in Row /\ RowCovered(r) /\ RowTells(r)
      /\ SumFunction(FreeCell(r)) = FreeOf(s) /\ FreeOf(s) \in Nat
  BY LocatedTotals
<1>2. /\ FreeCell(r) \in [Location -> Nat] /\ r.rows \subseteq Location
      /\ \A l \in Location \ r.rows : r.at[l].quantity = 0 /\ r.at[l].locked = 0
  <2> HIDE DEF r
  <2> QED
    BY <1>1, FreeCells
<1>3. total = FreeOf(s)
  <2> DEFINE h == FreeCell(r)
  <2>1. \A l \in Location \ r.rows : h[l] = 0
    BY <1>2 DEF FreeCell
  <2>2. [l \in r.rows |-> FreeIn(s, l)] = [l \in r.rows |-> h[l]]
    BY <1>2 DEF FreeCell, FreeIn
  <2>3. h \in [Location -> Int]
    BY <1>2
  <2> HIDE DEF h
  <2>4. SumFunction([l \in r.rows |-> h[l]]) = SumFunction(h)
    BY <1>2, <2>1, <2>3, SumOfSome
  <2> QED
    BY <1>1, <2>2, <2>4 DEF h
<1>4. n \in Nat
  BY StockViewsAssumption
<1>5. LampColour(s, n) = IF total <= 0 THEN "red" ELSE IF total <= n THEN "yellow" ELSE "green"
  BY DEF LampColour
<1>6. StockStatus(s, n) = IF FreeOf(s) = 0 THEN "OUT_OF_STOCK"
                          ELSE IF FreeOf(s) < n THEN "LOW_STOCK" ELSE "IN_STOCK"
  BY <1>1 DEF StockStatus, AtLeastZero
<1> HIDE DEF total, r
<1> QED
  BY <1>1, <1>3, <1>4, <1>5, <1>6

\* The location rows are the offers, the search and the SKU's own row in parts.
LEMMA OffersTell ==
  ASSUME DbTypeOK, StockCovered, AllRowsTell, AllAddUp,
         \A l \in Location : status[l] \notin {"LOCKED", "RESERVED"}
  PROVE  OffersBookable
<1> SUFFICES ASSUME AllUsable, NEW s \in Sku, Located(s)
             PROVE  LET offers == StockLocations(s)
                    IN  /\ \A l \in DOMAIN offers :
                             /\ CellAccepts(saved[s], l, -offers[l])
                             /\ offers[l] <= FreeOf(s) /\ l \in Selectable
                        /\ SumFunction(offers) = FreeOf(s)
                        /\ SearchTotals(s) =
                             [quantity |-> saved[s].quantity, locked |-> saved[s].locked]
                        /\ s \in OfferedForOutbound <=> DOMAIN offers # {}
  BY DEF OffersBookable
<1> DEFINE r == saved[s]
           h == FreeCell(r)
           T == {k \in r.rows : FreeIn(s, k) > 0 /\ Usable(k)}
<1>1. r \in Row /\ RowCovered(r) /\ RowTells(r) /\ r.home \in Location
      /\ QuantityAt(r) = r.quantity /\ LockedAt(r) = r.locked
      /\ SumFunction(h) = FreeOf(s) /\ FreeOf(s) \in Nat
  BY LocatedTotals
<1>2. /\ h \in [Location -> Nat] /\ r.rows \subseteq Location
      /\ \A l \in Location : /\ r.at[l].quantity \in Nat /\ r.at[l].locked \in Nat
                             /\ r.at[l].locked <= r.at[l].quantity
                             /\ l \notin r.rows => r.at[l].quantity = 0 /\ r.at[l].locked = 0
  <2> HIDE DEF r
  <2> QED
    BY <1>1, FreeCells
<1>3. \A l \in Location : FreeIn(s, l) = h[l] /\ Usable(l) /\ l \in Selectable
  <2>1. \A l \in Location : FreeIn(s, l) = h[l]
    BY DEF FreeIn, FreeCell
  <2>2. \A l \in Location : Usable(l)
    BY DEF AllUsable
  <2>3. \A l \in Location : status[l] \in {"AVAILABLE", "OCCUPIED"}
    BY <2>2 DEF Usable, DbTypeOK, LocationStatus
  <2> QED
    BY <2>1, <2>2, <2>3 DEF Selectable
<1>4. /\ DOMAIN DetailOffers(s) = T /\ T \subseteq Location
      /\ DetailOffers(s) = [l \in T |-> h[l]]
  BY <1>2, <1>3 DEF DetailOffers
<1>5. \A l \in Location : l \in T <=> h[l] > 0
  <2>1. \A l \in Location : l \notin r.rows => h[l] = 0
    BY <1>2 DEF FreeCell
  <2> QED
    BY <1>2, <1>3, <2>1
<1>6. SumFunction(DetailOffers(s)) = FreeOf(s)
  <2>1. \A l \in Location \ T : h[l] = 0
    BY <1>2, <1>5
  <2>2. h \in [Location -> Int]
    BY <1>2
  <2> HIDE DEF h, T
  <2>3. SumFunction([l \in T |-> h[l]]) = SumFunction(h)
    BY <1>4, <2>1, <2>2, SumOfSome
  <2> QED
    BY <1>1, <1>4, <2>3
<1>7. SearchTotals(s) = [quantity |-> r.quantity, locked |-> r.locked]
  <2> DEFINE q == [l \in Location |-> r.at[l].quantity]
             k == [l \in Location |-> r.at[l].locked]
  <2>1. FoundBySku(s) = r.rows
    BY <1>2, <1>3 DEF FoundBySku, Usable
  <2>2. q \in [Location -> Int] /\ k \in [Location -> Int]
    BY <1>2
  <2>3. \A l \in Location \ r.rows : q[l] = 0 /\ k[l] = 0
    BY <1>2
  <2>4. /\ [l \in r.rows |-> r.at[l].quantity] = [l \in r.rows |-> q[l]]
        /\ [l \in r.rows |-> r.at[l].locked] = [l \in r.rows |-> k[l]]
    BY <1>2
  <2>5. SumFunction(q) = r.quantity /\ SumFunction(k) = r.locked
    BY <1>1 DEF QuantityAt, LockedAt
  <2>6. SearchTotals(s) = [quantity |-> SumFunction([l \in r.rows |-> r.at[l].quantity]),
                           locked |-> SumFunction([l \in r.rows |-> r.at[l].locked])]
    BY <2>1 DEF SearchTotals
  <2> HIDE DEF q, k, r
  <2>7. /\ SumFunction([l \in r.rows |-> q[l]]) = SumFunction(q)
        /\ SumFunction([l \in r.rows |-> k[l]]) = SumFunction(k)
    BY <1>2, <2>2, <2>3, SumOfSome
  <2> QED
    BY <2>4, <2>5, <2>6, <2>7
<1>8. s \in OfferedForOutbound <=> FreeOf(s) > 0
  BY DEF OfferedForOutbound, Located
<1>9. \A l \in Location : h[l] <= FreeOf(s)
  <2> HIDE DEF h
  <2> QED
    BY <1>1, <1>2, MemberWithinSum, LocationAssumption
<1>10. CASE T # {}
  <2>1. StockLocations(s) = DetailOffers(s)
    BY <1>4, <1>10 DEF StockLocations
  <2>2. ASSUME NEW l \in T
        PROVE  /\ CellAccepts(r, l, -h[l]) /\ h[l] <= FreeOf(s) /\ l \in Selectable
    <3>1. l \in r.rows /\ l \in Location /\ h[l] = r.at[l].quantity - r.at[l].locked
      BY <1>2 DEF FreeCell
    <3>2. r.at[l].quantity + (-h[l]) >= 0 /\ r.at[l].quantity + (-h[l]) >= r.at[l].locked
      BY <1>2, <3>1
    <3> QED
      BY <1>3, <1>9, <3>1, <3>2 DEF CellAccepts
  <2>3. FreeOf(s) > 0
    <3>1. PICK l \in T : TRUE
      BY <1>10
    <3>2. h[l] > 0 /\ h[l] <= FreeOf(s) /\ h[l] \in Nat
      BY <1>2, <1>4, <1>5, <1>9
    <3> QED
      BY <1>1, <3>2
  <2> HIDE DEF h, T, r
  <2>4. \A l \in T : DetailOffers(s)[l] = h[l]
    BY <1>4
  <2> QED
    BY <1>4, <1>6, <1>7, <1>8, <1>10, <2>1, <2>2, <2>3, <2>4 DEF r
<1>11. CASE T = {}
  <2>1. FreeOf(s) = 0
    <3>1. \A l \in Location : h[l] = 0
      BY <1>2, <1>5, <1>11
    <3>2. h \in [Location -> Int]
      BY <1>2
    <3> HIDE DEF h
    <3> QED
      BY <1>1, <3>1, <3>2, SumZero, LocationAssumption
  <2>2. DOMAIN StockLocations(s) = {}
    BY <1>4, <1>11, <2>1 DEF StockLocations
  <2>3. SumFunction(StockLocations(s)) = 0
    BY <2>2, SumEmpty
  <2> HIDE DEF h, T
  <2> QED
    BY <1>7, <1>8, <2>1, <2>2, <2>3
<1> QED
  BY <1>10, <1>11

\* The map shows each location row, and the default location once more if it is empty.
LEMMA MapTells ==
  ASSUME DbTypeOK, StockCovered, AllRowsTell, AllAddUp
  PROVE  MapShowsAll
<1>1. ASSUME NEW s \in Sku, Located(s)
      PROVE  LET shown == SumFunction([l \in Location |-> MapQuantity(s, l)])
             IN  IF saved[s].at[saved[s].home].quantity = 0
                 THEN shown = 2 * saved[s].quantity ELSE shown = saved[s].quantity
  <2> DEFINE r == saved[s]
             k == r.home
             q == [l \in Location |-> r.at[l].quantity]
             m == [l \in Location |-> MapQuantity(s, l)]
  <2>1. r \in Row /\ RowCovered(r) /\ RowTells(r) /\ k \in Location /\ QuantityAt(r) = r.quantity
    BY <1>1, LocatedTotals
  <2>2. r.quantity \in Nat /\ \A l \in Location : r.at[l].quantity \in Nat
    <3> HIDE DEF r
    <3> QED
      BY <2>1, FreeCells
  <2>3. q \in [Location -> Int] /\ SumFunction(q) = r.quantity
    BY <2>1, <2>2 DEF QuantityAt
  <2>4. \A l \in Location \ {k} : m[l] = q[l]
    BY <2>2 DEF MapQuantity
  <2>5. m[k] = IF r.at[k].quantity = 0 THEN r.quantity ELSE q[k]
    BY <1>1, <2>1, <2>2 DEF MapQuantity, Located, AtLeastZero
  <2>6. q[k] = r.at[k].quantity /\ q[k] \in Nat
    BY <2>1, <2>2
  <2>7. m \in [Location -> Int]
    <3>1. m \in [Location -> {m[l] : l \in Location}] /\ \A l \in Location : m[l] \in Int
      BY <2>2, <2>3, <2>4, <2>5
    <3> QED
      BY <3>1
  <2> HIDE DEF q, m
  <2>8. SumFunction(m) = SumFunction(q) - q[k] + m[k]
    BY <2>1, <2>3, <2>4, <2>7, SumChange, LocationAssumption
  <2>9. SumFunction(m) = IF r.at[k].quantity = 0 THEN 2 * r.quantity ELSE r.quantity
    BY <2>2, <2>3, <2>5, <2>6, <2>8
  <2> QED
    BY <2>9 DEF m
<1>2. ASSUME NEW l \in OnMap, NEW s \in Sku, ~(saved[s].at[l].quantity <= 0)
      PROVE  l \in MapOccupied
  <2>1. l \in Location /\ saved[s].at[l].quantity \in Int
    BY CellsType DEF OnMap
  <2>2. MapQuantity(s, l) > 0
    BY <1>2, <2>1 DEF MapQuantity
  <2> QED
    BY <2>2 DEF MapOccupied
<1> QED
  BY <1>1, <1>2 DEF MapShowsAll

\* What the two pages of the ledger make of a ledger row.
InOf(s) ==
  [e \in LedgerRow |->
     IF e.sku = s /\ ~e.removed /\ (e.kind = "INBOUND" \/ (e.kind = "ADJUSTMENT" /\ e.delta > 0))
     THEN (IF e.delta < 0 THEN -e.delta ELSE e.delta) ELSE 0]
OutOf(s) ==
  [e \in LedgerRow |->
     IF e.sku = s /\ ~e.removed /\ (e.kind = "OUTBOUND" \/ (e.kind = "ADJUSTMENT" /\ e.delta < 0))
     THEN (IF e.delta < 0 THEN -e.delta ELSE e.delta) ELSE 0]

\* A row that moves stock as its kind says is on one page, with what it moved.
LEMMA PagesOfRow ==
  ASSUME NEW s \in Sku, NEW e \in LedgerRow, Signed(e)
  PROVE  DeltaIn(s)[e] = InOf(s)[e] + (-1) * OutOf(s)[e]
<1>1. e.delta \in Int /\ e.removed \in BOOLEAN
      /\ e.kind \in {"INBOUND", "OUTBOUND", "ADJUSTMENT", "STOCK_LOCK", "STOCK_RELEASE"}
  BY DEF LedgerRow, LedgerKind
<1>2. /\ DeltaIn(s)[e] = IF e.sku = s /\ ~e.removed THEN e.delta ELSE 0
      /\ InOf(s)[e] =
           IF e.sku = s /\ ~e.removed
              /\ (e.kind = "INBOUND" \/ (e.kind = "ADJUSTMENT" /\ e.delta > 0))
           THEN (IF e.delta < 0 THEN -e.delta ELSE e.delta) ELSE 0
      /\ OutOf(s)[e] =
           IF e.sku = s /\ ~e.removed
              /\ (e.kind = "OUTBOUND" \/ (e.kind = "ADJUSTMENT" /\ e.delta < 0))
           THEN (IF e.delta < 0 THEN -e.delta ELSE e.delta) ELSE 0
  BY DEF DeltaIn, InOf, OutOf
<1>3. CASE e.sku = s /\ ~e.removed
  <2>1. CASE e.kind = "INBOUND"
    BY <1>1, <1>2, <1>3, <2>1 DEF Signed
  <2>2. CASE e.kind = "OUTBOUND"
    BY <1>1, <1>2, <1>3, <2>2 DEF Signed
  <2>3. CASE e.kind = "ADJUSTMENT"
    BY <1>1, <1>2, <1>3, <2>3
  <2>4. CASE e.kind \in {"STOCK_LOCK", "STOCK_RELEASE"}
    BY <1>1, <1>2, <1>3, <2>4 DEF Signed
  <2> QED
    BY <1>1, <2>1, <2>2, <2>3, <2>4
<1>4. CASE ~(e.sku = s /\ ~e.removed)
  BY <1>2, <1>4
<1> QED
  BY <1>3, <1>4

LEMMA PageWeights ==
  ASSUME NEW s \in Sku
  PROVE  InOf(s) \in [LedgerRow -> Int] /\ OutOf(s) \in [LedgerRow -> Int]
<1>1. \A e \in LedgerRow : e.delta \in Int
  BY DEF LedgerRow
<1>2. InOf(s) \in [LedgerRow -> Int]
  BY <1>1 DEF InOf
<1>3. OutOf(s) \in [LedgerRow -> Int]
  BY <1>1 DEF OutOf
<1> QED
  BY <1>2, <1>3

\* The pages add up to what the ledger is worth.
LEMMA PagesAreWorth ==
  ASSUME DbTypeOK, NEW s \in Sku
  PROVE  /\ PageSum(s, OnInboundPage) = Worth(ledger, InOf(s))
         /\ PageSum(s, OnOutboundPage) = Worth(ledger, OutOf(s))
<1>1. ledger \in Seq(LedgerRow)
  BY DEF DbTypeOK
<1>2. \A i \in DOMAIN ledger : ledger[i] \in LedgerRow /\ ledger[i].delta \in Int
  <2>1. \A i \in DOMAIN ledger : ledger[i] \in LedgerRow
    BY <1>1, ElementOf
  <2> QED
    BY <2>1 DEF LedgerRow
<1>3. PageSum(s, OnInboundPage) = Worth(ledger, InOf(s))
  <2> DEFINE T == {j \in LedgerRows(s) : OnInboundPage(j)}
             f == [i \in T |-> StockQuantity(i)]
  <2>1. T \in SUBSET DOMAIN ledger /\ f \in [T -> Int]
    BY <1>2 DEF LedgerRows, StockQuantity
  <2>2. \A i \in DOMAIN ledger : InOf(s)[ledger[i]] = IF i \in T THEN f[i] ELSE 0
    BY <1>2 DEF InOf, LedgerRows, StockQuantity, OnInboundPage
  <2>3. PageSum(s, OnInboundPage) = SumFunction(f)
    BY DEF PageSum
  <2> HIDE DEF T, f
  <2>4. SumFunction(f) = Worth(ledger, InOf(s))
    BY <1>1, <2>1, <2>2, SelectedWorth, PageWeights
  <2> QED
    BY <2>3, <2>4, Zenon
<1>4. PageSum(s, OnOutboundPage) = Worth(ledger, OutOf(s))
  <2> DEFINE T == {j \in LedgerRows(s) : OnOutboundPage(j)}
             f == [i \in T |-> StockQuantity(i)]
  <2>1. T \in SUBSET DOMAIN ledger /\ f \in [T -> Int]
    BY <1>2 DEF LedgerRows, StockQuantity
  <2>2. \A i \in DOMAIN ledger : OutOf(s)[ledger[i]] = IF i \in T THEN f[i] ELSE 0
    BY <1>2 DEF OutOf, LedgerRows, StockQuantity, OnOutboundPage
  <2>3. PageSum(s, OnOutboundPage) = SumFunction(f)
    BY DEF PageSum
  <2> HIDE DEF T, f
  <2>4. SumFunction(f) = Worth(ledger, OutOf(s))
    BY <1>1, <2>1, <2>2, SelectedWorth, PageWeights
  <2> QED
    BY <2>3, <2>4, Zenon
<1> QED
  BY <1>3, <1>4

\* The two pages explain the stock, as the ledger does.
LEMMA LedgerPagesTell ==
  ASSUME DbTypeOK, StockExplained, AllSigned
  PROVE  PagesExplainStock
<1>1. ledger \in Seq(LedgerRow) /\ \A i \in DOMAIN ledger : ledger[i] \in LedgerRow
  BY ElementOf DEF DbTypeOK
<1>2. ASSUME NEW s \in Sku
      PROVE  saved[s].quantity = StartRow[s].quantity + PageSum(s, OnInboundPage)
                                                      - PageSum(s, OnOutboundPage)
  <2> DEFINE S == DOMAIN ledger
             f == [i \in S |-> InOf(s)[ledger[i]]]
             d == [i \in S |-> OutOf(s)[ledger[i]]]
             h == [i \in S |-> DeltaIn(s)[ledger[i]]]
             m == -1
  <2>1. /\ f \in [S -> Int] /\ d \in [S -> Int] /\ h \in [S -> Int] /\ IsFiniteSet(S)
    BY <1>1, WorthDomain, WeightsInt, PageWeights
  <2>2. \A i \in S : h[i] = f[i] + m * d[i]
    BY <1>1, PagesOfRow DEF AllSigned
  <2>3. /\ Worth(ledger, InOf(s)) = SumFunction(f)
        /\ Worth(ledger, OutOf(s)) = SumFunction(d)
        /\ Worth(ledger, DeltaIn(s)) = SumFunction(h)
    BY DEF Worth
  <2>4. /\ Worth(ledger, InOf(s)) \in Int /\ Worth(ledger, OutOf(s)) \in Int
    BY <1>1, WorthInt, PageWeights
  <2>5. m \in {-1, 0, 1}
    OBVIOUS
  <2>6. saved[s].quantity = StartRow[s].quantity + Worth(ledger, DeltaIn(s))
        /\ StartRow[s].quantity \in Int
    BY StockDbAssumption DEF StockExplained, Row
  <2> HIDE DEF S, f, d, h, m
  <2>7. SumFunction(h) = SumFunction(f) + m * SumFunction(d)
    BY <2>1, <2>2, <2>5, SumPlus
  <2>8. Worth(ledger, DeltaIn(s)) = Worth(ledger, InOf(s)) - Worth(ledger, OutOf(s))
    BY <2>3, <2>4, <2>7 DEF m
  <2> QED
    BY <2>4, <2>6, <2>8, PagesAreWorth
<1>3. ASSUME NEW s \in Sku, NEW i \in LedgerRows(s)
      PROVE  /\ ledger[i].delta > 0 => TypeDirection(i) = "INBOUND"
             /\ ledger[i].delta < 0 => TypeDirection(i) = "OUTBOUND"
             /\ ~OnInboundPage(i) /\ ~OnOutboundPage(i) => ledger[i].delta = 0
  <2>1. ledger[i] \in LedgerRow /\ Signed(ledger[i])
    BY <1>1 DEF LedgerRows, AllSigned
  <2>2. ledger[i].delta \in Int
        /\ ledger[i].kind \in {"INBOUND", "OUTBOUND", "ADJUSTMENT", "STOCK_LOCK", "STOCK_RELEASE"}
    BY <2>1 DEF LedgerRow, LedgerKind
  <2> QED
    BY <2>1, <2>2 DEF Signed, TypeDirection, OnInboundPage, OnOutboundPage
<1> QED
  BY <1>2, <1>3 DEF PagesExplainStock

\* Locations are marked by bookings and by those who edit them, and orders leave them be.
NobodyReserves ==
  /\ \A l \in Location : status[l] \notin {"LOCKED", "RESERVED"}
  /\ \A k \in Keeper : loc[k] # Resting => loc[k].copy \notin {"LOCKED", "RESERVED"}

LEMMA OrdStepStatus ==
  ASSUME Typed, OrdStep
  PROVE  UNCHANGED status
<1>1. ASSUME NEW w \in Worker, Begin(w) PROVE UNCHANGED status
  <2>1. \E o, phase, copy, effect : Start(w, o, phase, copy, effect)
    BY <1>1, BeginShape
  <2> QED
    BY <2>1 DEF Start, dbVars
<1>2. ASSUME NEW w \in Worker, Proceed(w) PROVE UNCHANGED status
  <2>1. CASE StockFail(w) \/ SaveFail(w) \/ LockWaitFails(w)
    BY <2>1, AbortShape DEF Abort, RollbackTx
  <2> QED
    BY <1>2, <2>1 DEF Proceed, StockStep, ReadRow, Save, Delete, Patch, dbVars
<1>3. ASSUME NEW o \in Order, NEW source, NEW type, NEW st, Create(o, source, type, st)
      PROVE  UNCHANGED status
  BY <1>3 DEF Create, dbVars
<1> QED
  BY <1>1, <1>2, <1>3 DEF OrdStep

LEMMA NextReserves ==
  ASSUME StatusChoice \intersect {"LOCKED", "RESERVED"} = {},
         TypeOK, NobodyReserves, [Next]_vars
  PROVE  NobodyReserves'
<1>0. status \in [Location -> LocationStatus] /\ loc \in [Keeper -> LocationRequest \union {Resting}]
  BY DEF TypeOK, DbTypeOK, LocTypeOK
<1>1. ASSUME UNCHANGED <<status, loc>> PROVE NobodyReserves'
  BY <1>1 DEF NobodyReserves
<1>2. CASE OrdStep /\ UNCHANGED <<inv, loc>>
  BY <1>1, <1>2, TypedToo, OrdStepStatus
<1>3. ASSUME NEW c \in Clerk, Commit(c), UNCHANGED loc PROVE NobodyReserves'
  <2>1. \A l \in Location : status'[l] \in {status[l], "OCCUPIED", "AVAILABLE"}
    BY <1>0, <1>3 DEF Commit, Occupancy
  <2> QED
    BY <1>3, <2>1 DEF NobodyReserves
<1>4. CASE InvStep /\ UNCHANGED <<orders, req, loc>>
  BY <1>1, <1>3, <1>4 DEF InvStep, Open, ReadEntry, LockForRemove, LockWaitTimeout, Reject,
                          RollbackTx, dbVars
<1>5. ASSUME NEW k \in Keeper, NEW l \in Location, NEW phase, NEW copy,
             copy \notin {"LOCKED", "RESERVED"}, Load(k, l, phase, copy)
      PROVE  NobodyReserves'
  BY <1>0, <1>5 DEF Load, NobodyReserves, dbVars
<1>6. ASSUME NEW k \in Keeper, NEW l \in Location, BeginUpdate(k, l) PROVE NobodyReserves'
  <2>1. PICK st \in StatusChoice \union {status[l]} : Load(k, l, "updating", st)
    BY <1>6 DEF BeginUpdate
  <2>2. st \notin {"LOCKED", "RESERVED"}
    BY DEF NobodyReserves
  <2> QED
    BY <1>5, <2>1, <2>2
<1>7. ASSUME NEW k \in Keeper, NEW l \in Location, BeginRemove(k, l) PROVE NobodyReserves'
  BY <1>5, <1>7 DEF BeginRemove, NobodyReserves
<1>8. ASSUME NEW k \in Keeper, FinishUpdate(k) \/ FinishRemove(k) PROVE NobodyReserves'
  <2>1. loc[k] # Resting
    BY <1>8 DEF FinishUpdate, FinishRemove, Resting
  <2>2. \A l \in Location : status'[l] \in {status[l], loc[k].copy, "GONE"}
    BY <1>0, <1>8 DEF FinishUpdate, FinishRemove
  <2>3. \A j \in Keeper : loc'[j] \in {loc[j], Resting}
    BY <1>0, <1>8 DEF FinishUpdate, FinishRemove
  <2> QED
    BY <2>1, <2>2, <2>3 DEF NobodyReserves
<1>9. CASE LocStep
  BY <1>6, <1>7, <1>8, <1>9 DEF LocStep
<1>10. CASE Crash
  BY <1>10 DEF Crash, RollbackAll, NobodyReserves
<1> QED
  BY <1>1, <1>2, <1>4, <1>9, <1>10 DEF Next, vars, dbVars

\* Lists, filters, alerts, lamps, offers, the map and the pages of the ledger tell one
\* story of the stock, though they read different rows, as long as every manual operation
\* names a location, one ledger row is taken back at a time, and nobody marks a location
\* as locked or reserved, which hides it from a choice and not from an offer.  To what the
\* theorems above say of totals and ledger it adds that locations without a row of the
\* SKU have none of it (AllRowsTell) and that ledger rows move stock the way their kind
\* says (AllSigned).
THEOREM ViewsTellOneStory ==
  ASSUME NoLocation \notin ManualLocation,
         \A s \in Sku : AddsUp(StartRow[s]) /\ RowTells(StartRow[s]),
         MaxRemove <= 1, IsFiniteSet(Clerk),
         StatusChoice \intersect {"LOCKED", "RESERVED"} = {}
  PROVE  Spec => []ViewsAgree
<1> DEFINE I == AllRowsTell /\ AllSigned /\ NobodyReserves
<1>1. Init => I
  <2>1. Init => AllRowsTell
    BY DEF Init, DbInit, AllRowsTell
  <2>2. Init => AllSigned
    <3>1. Init => ledger = <<>> /\ \A w \in Worker : Rows(w) = <<>>
      BY DEF Init, DbInit, OrdInit, Rows
    <3> QED
      BY <3>1 DEF AllSigned
  <2>3. Init => NobodyReserves
    BY DEF Init, DbInit, LocInit, NobodyReserves
  <2> QED
    BY <2>1, <2>2, <2>3
<1>2. WarehouseInv /\ I /\ [Next]_vars => I'
  <2> SUFFICES ASSUME WarehouseInv, I, [Next]_vars PROVE I'
    OBVIOUS
  <2>1. /\ TypeOK /\ Isolated /\ StockCovered /\ Locking /\ Typed
        /\ AllRowsTell /\ AllSigned /\ NobodyReserves
    BY TypedToo DEF WarehouseInv
  <2>2. NobodyReserves'
    BY <2>1, NextReserves
  <2>3. ASSUME UNCHANGED <<stock, saved, ledger, req>> PROVE AllRowsTell' /\ AllSigned'
    BY <2>1, <2>3 DEF AllRowsTell, AllSigned, Rows
  <2>4. CASE OrdStep /\ UNCHANGED <<inv, loc>>
    BY <2>1, <2>2, <2>4, OrdStepTells, OrdStepSigned
  <2>5. CASE InvStep /\ UNCHANGED <<orders, req, loc>>
    BY <2>1, <2>2, <2>5, InvStepTells, InvStepSigned
  <2>6. CASE LocStep /\ UNCHANGED <<orders, req, inv>>
    BY <2>2, <2>3, <2>6, LocStepStill
  <2>7. CASE Crash
    <3>1. AllRowsTell'
      BY <2>1, <2>7 DEF Crash, RollbackAll, AllRowsTell
    <3>2. AllSigned'
      BY <2>1, <2>7 DEF Crash, RollbackAll, AllSigned, Rows
    <3> QED
      BY <2>2, <3>1, <3>2
  <2>8. CASE UNCHANGED vars
    BY <2>2, <2>3, <2>8 DEF vars, dbVars
  <2> QED
    BY <2>4, <2>5, <2>6, <2>7, <2>8 DEF Next
<1>3. WarehouseInv /\ StockExplained /\ AllAddUp /\ I => ViewsAgree
  BY PagesTell, LampsTell, OffersTell, MapTells, LedgerPagesTell
     DEF ViewsAgree, WarehouseInv, TypeOK, NobodyReserves
<1>4. Spec => [](WarehouseInv /\ StockExplained)
  BY StockExplainedEver
<1>5. Spec => [](WarehouseInv /\ AllAddUp)
  BY AddUpEver
<1> HIDE DEF I
<1> QED
  BY <1>1, <1>2, <1>3, <1>4, <1>5, PTL DEF Spec
=============================================================================
