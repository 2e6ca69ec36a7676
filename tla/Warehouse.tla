----------------------------- MODULE Warehouse ------------------------------
(***************************************************************************)
(* The services that share the stock tables of a tenant, side by side in   *)
(* one server: order, inventory and location requests interleave at every  *)
(* await.                                                                  *)
(***************************************************************************)
EXTENDS OrderService, InventoryService, LocationService

vars == <<dbVars, orders, req, inv, loc>>

TypeOK == DbTypeOK /\ OrdTypeOK /\ InvTypeOK /\ LocTypeOK

Init == DbInit /\ OrdInit /\ InvInit /\ LocInit

\* The server dies and comes back: open transactions roll back.
Crash ==
  /\ RollbackAll
  /\ req' = [w \in Worker |-> Free]
  /\ inv' = [c \in Clerk |-> Idle]
  /\ loc' = [k \in Keeper |-> Resting]
  /\ UNCHANGED orders

Next ==
  \/ OrdStep /\ UNCHANGED <<inv, loc>>
  \/ InvStep /\ UNCHANGED <<orders, req, loc>>
  \/ LocStep /\ UNCHANGED <<orders, req, inv>>
  \/ Crash

Spec == Init /\ [][Next]_vars

\* With the plain endpoints on inventory rows, too.
RawNext == RawStep /\ UNCHANGED <<orders, req, loc>>

RawSpec == Init /\ [][Next \/ RawNext]_vars

-----------------------------------------------------------------------------
(* The stock of a SKU lies somewhere: once its inventory row has a default  *)
(* location, every operation moves the total and a location together, and   *)
(* the location rows add up to the total.                                   *)
LocatedStockAddsUp ==
  \A s \in Sku :
    saved[s].home # NoLocation
      => AtSum(saved[s], LAMBDA c : c.quantity) = saved[s].quantity

(* Goods and holds are somewhere: the location rows of a SKU add up to both  *)
(* of its totals, though different loops and statements move them.           *)
LocationsAddUp == LocationHoldsAddUp /\ LocatedStockAddsUp

(* A deleted location has no stock.                                         *)
GoneHoldsNoStock ==
  \A l \in Location, s \in Sku : status[l] = "GONE" => saved[s].at[l].quantity <= 0

(* OCCUPIED and AVAILABLE say whether the location has stock; an order that    *)
(* has shipped may have emptied an OCCUPIED one, for orders never refresh it.  *)
StatusShowsStock ==
  \A l \in Location :
    /\ status[l] = "OCCUPIED" =>
         \/ \E s \in Sku : saved[s].at[l].quantity > 0
         \/ \E i \in DOMAIN ledger : ledger[i].order # NoOrder /\ ledger[i].delta < 0
    /\ status[l] = "AVAILABLE" => \A s \in Sku : saved[s].at[l].quantity <= 0

(* Orders and manual operations together implement the reservation book.    *)
KeepsOpenBook == Book!OpenBookSpec
=============================================================================
