------------------------------ MODULE StockRow ------------------------------
(***************************************************************************)
(* The stock of one SKU of one tenant: its `inventory` row together with   *)
(* its `inventory_locations` rows, and what the order service and the      *)
(* inventory service make of them inside one database transaction.         *)
(*                                                                         *)
(* Every operation is the set of its possible outcomes.  The empty set is  *)
(* a BusinessException / BadRequestException: the transaction rolls back.  *)
(*                                                                         *)
(* `(tenantId, sku)` is unique in `inventory`, so the code's loops over    *)
(* "inventories" see at most one row.  The loops over location rows are    *)
(* greedy in `updatedAt` order; that order is left open here.              *)
(***************************************************************************)
EXTENDS Integers, FiniteSets, Functions

CONSTANTS
  Location,    \* ids of warehouse locations
  NoLocation   \* a NULL locationId

ASSUME LocationAssumption ==
  /\ IsFiniteSet(Location)
  /\ NoLocation \notin Location

\* A row of inventory_locations; a location without a row is an empty cell.
Cell == [quantity : Int, locked : Int]

Row == [exists : BOOLEAN,                        \* the inventory row is there
        quantity : Int, locked : Int,            \* its quantity, lockedQuantity
        home : Location \union {NoLocation},     \* its default locationId
        rows : SUBSET Location,                  \* locations with a detail row
        at : [Location -> Cell]]                 \* the detail rows

\* The hold of a row is covered by its quantity, in total and per location.
Covered(c) == 0 <= c.locked /\ c.locked <= c.quantity

RowCovered(r) == Covered(r) /\ \A l \in Location : Covered(r.at[l])

-----------------------------------------------------------------------------
AtLeastZero(n) == IF n > 0 THEN n ELSE 0

\* What a greedy loop can still take from each location row.
FreeAt(r) == [l \in Location |-> AtLeastZero(r.at[l].quantity - r.at[l].locked)]
HeldAt(r) == [l \in Location |-> AtLeastZero(r.at[l].locked)]

(***************************************************************************)
(* The ways a greedy loop over the rows, in some order, takes q units from *)
(* the capacities cap: it empties rows until the last one it touches, so   *)
(* at most one row is taken from only in part.  There is no way when the   *)
(* capacities add up to less than q.                                       *)
(***************************************************************************)
Splits(cap, q) ==
  {take \in [Location -> 0..q] :
     /\ \A l \in Location : take[l] <= cap[l]
     /\ \A k, l \in Location :
          0 < take[k] /\ take[k] < cap[k] /\ 0 < take[l] /\ take[l] < cap[l]
            => k = l
     /\ SumFunction(take) = q}

\* One greedy pass: quantity moves by sq, lockedQuantity by sl (-1, 0 or 1) per
\* unit taken, in total and in the rows taken from; the audit row names the
\* first row of the order, which is taken from before any other.
Taken(r, take, q, sq, sl) ==
  [r EXCEPT !.quantity = @ + sq * q,
            !.locked = @ + sl * q,
            !.at = [l \in Location |->
                      [quantity |-> r.at[l].quantity + sq * take[l],
                       locked |-> r.at[l].locked + sl * take[l]]]]

Passes(r, cap, q, sq, sl) ==
  {[row |-> Taken(r, p[1], q, sq, sl), location |-> p[2]] :
     p \in {p \in Splits(cap, q) \X r.rows :
              p[1][p[2]] = IF cap[p[2]] < q THEN cap[p[2]] ELSE q}}

\* Fault: the hold of other orders is not subtracted.
LockOutcomesOfTotal(r, q) ==
  IF r.exists /\ r.quantity >= q
  THEN Passes(r, [l \in Location |-> r.at[l].quantity], q, 0, 1)
  ELSE {}

\* lockOrderItemsStock for one item, with updateLocationLockedQuantity(+q).
LockOutcomes(r, q) ==
  IF r.exists /\ r.quantity - r.locked >= q
  THEN Passes(r, FreeAt(r), q, 0, 1)
  ELSE {}

\* Fault: everything held on the SKU is released.
ReleaseOutcomesOfAll(r, q) ==
  IF r.exists /\ r.locked >= q
  THEN Passes(r, HeldAt(r), r.locked, 0, -1)
  ELSE {}

\* releaseOrderItemsStock for one item, with updateLocationLockedQuantity(-q).
ReleaseOutcomes(r, q) ==
  IF r.exists /\ r.locked >= q
  THEN Passes(r, HeldAt(r), q, 0, -1)
  ELSE {}

\* Fault: the stock goes, the hold on it stays.
DeductOutcomesKeepingHold(r, q) ==
  IF r.exists /\ r.locked >= q /\ r.quantity >= q
  THEN Passes(r, HeldAt(r), q, -1, 0)
  ELSE {}

\* deductOrderItemsStock for one item, with deductLocationStock.
DeductOutcomes(r, q) ==
  IF /\ r.exists /\ r.locked >= q /\ r.quantity >= q
     /\ SumFunction([l \in Location |-> r.at[l].quantity]) >= q
  THEN Passes(r, HeldAt(r), q, -1, -1)
  ELSE {}

-----------------------------------------------------------------------------

\* changeLocationStock: when it does not throw ...
CellAccepts(r, l, delta) ==
  \/ l = NoLocation
  \/ delta = 0
  \/ /\ delta < 0 => l \in r.rows
     /\ r.at[l].quantity + delta >= 0
     /\ r.at[l].quantity + delta >= r.at[l].locked

\* ... and what it writes.
CellChanged(r, l, delta) ==
  IF l = NoLocation \/ delta = 0
  THEN r
  ELSE [r EXCEPT !.rows = @ \union {l}, !.at[l].quantity = @ + delta]

\* dto.locationId || inventory.locationId
EffectiveLocation(r, l) == IF l = NoLocation THEN r.home ELSE l

\* Fault: an outbound leaves the location row as it was.
MovedInTotal(r, l, delta) ==
  LET next == [r EXCEPT !.exists = TRUE, !.quantity = @ + delta,
                        !.home = IF r.exists THEN @ ELSE l]
  IN  IF delta < 0 THEN next ELSE CellChanged(next, l, delta)

\* Total and cell of a row moved together by delta; no row: one is created.
Moved(r, l, delta) ==
  LET home == IF r.exists THEN r.home ELSE l
  IN  CellChanged([r EXCEPT !.exists = TRUE, !.home = home,
                            !.quantity = @ + delta],
                  l, delta)
=============================================================================
