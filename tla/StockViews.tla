----------------------------- MODULE StockViews ------------------------------
(***************************************************************************)
(* What the inventory service, the location service and the shelf lamps    *)
(* show of the stock: lists, alerts, the map, what may be picked for an    *)
(* outbound, and the pages of the ledger.  Each is a query of committed    *)
(* rows; they compute the same facts from different rows.                  *)
(*                                                                         *)
(* A list reads its rows and counts them, and the map reads detail rows    *)
(* and default locations, in queries of their own; they are taken here as  *)
(* one read.  Keywords, paging, units and wording are left out.            *)
(***************************************************************************)
EXTENDS StockDb

CONSTANT SafetyLevel   \* safety stocks that products may have

ASSUME StockViewsAssumption == SafetyLevel \subseteq Nat

Stocked(s) == saved[s].exists
Located(s) == Stocked(s) /\ saved[s].home # NoLocation
Usable(l) == status[l] \notin {"DISABLED", "GONE"}
AllUsable == \A l \in Location : Usable(l)

\* quantity - lockedQuantity, of the inventory row and of a location row
FreeOf(s) == saved[s].quantity - saved[s].locked
FreeIn(s, l) == saved[s].at[l].quantity - saved[s].at[l].locked

-----------------------------------------------------------------------------
\* findPage lists the SKUs that have a location row ...
OnStockPage(s) == Stocked(s) /\ saved[s].rows # {}

\* ... and filters them by a status, in the query;
Filtered(s, st, safety) ==
  CASE st = "OUT_OF_STOCK" -> FreeOf(s) = 0
    [] st = "LOW_STOCK"    -> FreeOf(s) > 0 /\ FreeOf(s) < safety
    [] st = "IN_STOCK"     -> FreeOf(s) >= safety

\* calculateStockStatus says what is shown.
StockStatus(s, safety) ==
  IF AtLeastZero(FreeOf(s)) = 0 THEN "OUT_OF_STOCK"
  ELSE IF FreeOf(s) < safety THEN "LOW_STOCK" ELSE "IN_STOCK"

\* getAlerts
OnAlertPage(s, safety) == Stocked(s) /\ FreeOf(s) < safety

\* calculateAlertLevel; every level above HIGH's bound is MEDIUM
AlertLevel(s, safety) ==
  IF FreeOf(s) <= 0 THEN "CRITICAL"
  ELSE IF safety # 0 /\ FreeOf(s) * 5 < safety THEN "HIGH" ELSE "MEDIUM"

\* checkAndSendStockWarning, after an outbound or an adjustment
Warns(s, safety) == safety > 0 /\ Stocked(s) /\ FreeOf(s) < safety

\* Fault: the stock of the inventory row is compared, holds included.
LampColourOfTotal(s, safety) ==
  IF saved[s].quantity <= 0 THEN "red"
  ELSE IF saved[s].quantity <= safety THEN "yellow" ELSE "green"

\* resolveStockColors: the location rows of the SKU are summed.
LampColour(s, safety) ==
  LET total == SumFunction([l \in saved[s].rows |-> FreeIn(s, l)])
  IN  IF total <= 0 THEN "red" ELSE IF total <= safety THEN "yellow" ELSE "green"

-----------------------------------------------------------------------------
\* findLocationsBySku: the location rows, with their sums.
FoundBySku(s) == {l \in saved[s].rows : status[l] # "GONE"}
SearchTotals(s) ==
  [quantity |-> SumFunction([l \in FoundBySku(s) |-> saved[s].at[l].quantity]),
   locked |-> SumFunction([l \in FoundBySku(s) |-> saved[s].at[l].locked])]

\* getAvailableForOutbound
OfferedForOutbound == {s \in Sku : Stocked(s) /\ FreeOf(s) > 0}

DetailOffers(s) ==
  [l \in {k \in saved[s].rows : FreeIn(s, k) > 0 /\ Usable(k)} |-> FreeIn(s, l)]

\* getStockLocations: without a location row to offer, the default location is offered.
StockLocations(s) ==
  IF DOMAIN DetailOffers(s) # {} THEN DetailOffers(s)
  ELSE [l \in {k \in Location : Stocked(s) /\ saved[s].home = k /\ FreeOf(s) > 0 /\ Usable(k)}
          |-> FreeOf(s)]

\* getAvailableForSelection
Selectable == {l \in Location : status[l] \in {"AVAILABLE", "OCCUPIED"}}

-----------------------------------------------------------------------------

\* getVisualMap: the location rows with stock, and where a default location has none,
\* the stock of the inventory row.
MapQuantity(s, l) ==
  IF saved[s].at[l].quantity > 0 THEN saved[s].at[l].quantity
  ELSE IF Stocked(s) /\ saved[s].home = l THEN AtLeastZero(saved[s].quantity) ELSE 0

OnMap == {l \in Location : status[l] # "GONE"}
MapOccupied == {l \in OnMap : \E s \in Sku : MapQuantity(s, l) > 0}

-----------------------------------------------------------------------------
\* Rows of the ledger, and what formatTransactionListItem shows as the stock moved.
LedgerRows(s) == {i \in DOMAIN ledger : ledger[i].sku = s /\ ~ledger[i].removed}
StockQuantity(i) == IF ledger[i].delta < 0 THEN -ledger[i].delta ELSE ledger[i].delta

\* getInboundTransactionsPage: INBOUND_* and ADJUSTMENT_IN
OnInboundPage(i) ==
  ledger[i].kind = "INBOUND" \/ (ledger[i].kind = "ADJUSTMENT" /\ ledger[i].delta > 0)

\* getOutboundTransactionsPage: OUTBOUND_* and ADJUSTMENT_OUT
OnOutboundPage(i) ==
  ledger[i].kind = "OUTBOUND" \/ (ledger[i].kind = "ADJUSTMENT" /\ ledger[i].delta < 0)

\* getTransactionDirection: the sign exportTransactions gives a row
TypeDirection(i) ==
  IF OnInboundPage(i) \/ ledger[i].kind = "STOCK_RELEASE" THEN "INBOUND"
  ELSE IF OnOutboundPage(i) \/ ledger[i].kind = "STOCK_LOCK" THEN "OUTBOUND" ELSE "OTHER"

PageSum(s, On(_)) == SumFunction([i \in {j \in LedgerRows(s) : On(j)} |-> StockQuantity(i)])

-----------------------------------------------------------------------------
(* With a safety stock set, the list of stock, its filters, the alerts and    *)
(* the warnings sent out agree: a SKU is under exactly the filter of the      *)
(* status it is shown with, it is on the alert page if and only if a warning  *)
(* goes out, and then it is shown as low, or as out when the level is         *)
(* CRITICAL.                                                                  *)
PagesAgree ==
  \A s \in {t \in Sku : OnStockPage(t)}, n \in SafetyLevel \ {0} :
    /\ \A st \in {"OUT_OF_STOCK", "LOW_STOCK", "IN_STOCK"} :
         Filtered(s, st, n) <=> StockStatus(s, n) = st
    /\ OnAlertPage(s, n) <=> Warns(s, n)
    /\ OnAlertPage(s, n) <=> StockStatus(s, n) # "IN_STOCK"
    /\ AlertLevel(s, n) = "CRITICAL" <=> StockStatus(s, n) = "OUT_OF_STOCK"

(* The lamps, which sum the location rows, agree with the list, which reads   *)
(* the inventory row: red is out of stock, low is yellow, and yellow is low   *)
(* or exactly the safety stock.                                               *)
LampsAgree ==
  \A s \in {t \in Sku : Located(t)}, n \in SafetyLevel :
    /\ LampColour(s, n) = "red" <=> StockStatus(s, n) = "OUT_OF_STOCK"
    /\ StockStatus(s, n) = "LOW_STOCK" => LampColour(s, n) = "yellow"
    /\ LampColour(s, n) = "yellow" => StockStatus(s, n) = "LOW_STOCK" \/ FreeOf(s) = n

(* What is offered can be booked out: while no location is disabled, each     *)
(* location offered for a SKU covers an outbound of what is offered there,    *)
(* and the offers, the search by SKU and the offer of the SKU as a whole say  *)
(* the same in total.                                                         *)
OffersBookable ==
  AllUsable => \A s \in {t \in Sku : Located(t)} :
    LET offers == StockLocations(s)
    IN  /\ \A l \in DOMAIN offers :
             /\ CellAccepts(saved[s], l, -offers[l])
             /\ offers[l] <= FreeOf(s) /\ l \in Selectable
        /\ SumFunction(offers) = FreeOf(s)
        /\ SearchTotals(s) = [quantity |-> saved[s].quantity, locked |-> saved[s].locked]
        /\ s \in OfferedForOutbound <=> DOMAIN offers # {}

(* The map hides no stock: what it shows of a SKU adds up to its stock, or to  *)
(* twice that while its default location is empty, which then shows the stock *)
(* that lies elsewhere once more; and a location with stock is occupied.      *)
MapShowsAll ==
  /\ \A s \in {t \in Sku : Located(t)} :
       LET shown == SumFunction([l \in Location |-> MapQuantity(s, l)])
       IN  IF saved[s].at[saved[s].home].quantity = 0 THEN shown = 2 * saved[s].quantity
           ELSE shown = saved[s].quantity
  /\ \A l \in OnMap : l \in MapOccupied \/ \A s \in Sku : saved[s].at[l].quantity <= 0

(* The two pages of the ledger explain the stock: what the inbound page says  *)
(* came in, less what the outbound page says went out, is the change of the   *)
(* stock; rows on neither page moved nothing, and the export signs every row  *)
(* the way its page does.                                                     *)
PagesExplainStock ==
  \A s \in Sku :
    /\ saved[s].quantity = StartRow[s].quantity + PageSum(s, OnInboundPage)
                                                - PageSum(s, OnOutboundPage)
    /\ \A i \in LedgerRows(s) :
         /\ ledger[i].delta > 0 => TypeDirection(i) = "INBOUND"
         /\ ledger[i].delta < 0 => TypeDirection(i) = "OUTBOUND"
         /\ ~OnInboundPage(i) /\ ~OnOutboundPage(i) => ledger[i].delta = 0

(* The lists, filters, alerts, lamps, offers, the map and the ledger pages,   *)
(* each with conditions of its own, tell one story of the stock.              *)
ViewsAgree == PagesAgree /\ LampsAgree /\ OffersBookable /\ MapShowsAll /\ PagesExplainStock
=============================================================================
