------------------------------ MODULE Products ------------------------------
(***************************************************************************)
(* Products: what a tenant's stock is called and measured in.  A product   *)
(* has a code, the SKU that stock is booked under, a barcode and a unit;   *)
(* units, the tenant's own or the platform's, are known by their codes in  *)
(* the conversion rules.  Handlers look first and save whole copies later; *)
(* a booking reads its product before it locks the stock.                  *)
(***************************************************************************)
EXTENDS Integers, FiniteSets

CONSTANTS
  UnitId,      \* units, by id
  OwnUnits,    \* those that are the tenant's own
  UnitCode,
  ProductId,
  Sku,         \* product codes and barcodes
  Ratio,       \* conversion ratios, in ten-thousandths (decimal(15,4))
  Quantity,    \* quantities asked for, in thousandths: nothing limits their decimals
  Caller,      \* requests that may be in flight at once
  MaxBookings, \* bookings into and out of stock
  NoUnit

ASSUME ProductsAssumption ==
  /\ OwnUnits \subseteq UnitId /\ NoUnit \notin UnitId
  /\ Ratio \subseteq Nat \ {0} /\ Quantity \subseteq Nat \ {0} /\ MaxBookings \in Nat

VARIABLES
  unit,     \* the units' rows
  product,  \* the products' rows
  rules,    \* unit_conversions of the tenant
  shelf,    \* inventory: per SKU the unit and the quantity, in hundredths
  measured, \* the units of the ledger's rows
  call,     \* the requests in flight
  exact,    \* history: per SKU what was booked without rounding, in ten-millionths
  bookings, \* history: how many bookings there were
  taken,    \* history: a product took a code under which there was stock
  crossed   \* history: what requests overlapped over

productVars == <<unit, product, rules, shelf, measured, call, exact, bookings, taken, crossed>>

UnitRow == [row : {"live", "gone"}, code : UnitCode, active : BOOLEAN]
ProductRow == [row : {"live", "gone"}, code : Sku, barcode : Sku, unit : UnitId,
               active : BOOLEAN]
Rule == [from : UnitCode, to : UnitCode, ratio : Ratio]
Unmade == [row |-> "none"]
NoCall == [op |-> "none"]
NoShelf == [unit |-> NoUnit, quantity |-> 0]

\* Rows and copies keep their shape, no stock is below zero.
ProductsTypeOK ==
  /\ \A u \in UnitId : unit[u] \in UnitRow \union {Unmade}
  /\ \A p \in ProductId : product[p] \in ProductRow \union {Unmade}
  /\ rules \subseteq Rule
  /\ shelf \in [Sku -> [unit : UnitId \union {NoUnit}, quantity : Nat]]
  /\ measured \subseteq UnitId
  /\ \A c \in Caller :
       \/ call[c] = NoCall
       \/ call[c] \in [op : {"unit"}, u : UnitId, copy : UnitRow]
       \/ call[c] \in [op : {"dropUnit"}, u : UnitId]
       \/ call[c] \in [op : {"clear", "fill"}, to : UnitCode, set : SUBSET Rule]
       \/ call[c] \in [op : {"product"}, p : ProductId, copy : ProductRow]
       \/ call[c] \in [op : {"in"}, s : Sku, p : ProductId, unit : UnitId,
                       by : UnitId, n : Quantity, ratio : Ratio \union {10000}]
       \/ call[c] \in [op : {"out"}, s : Sku, p : ProductId, unit : UnitId, n : Quantity]
  /\ exact \in [Sku -> Int] /\ bookings \in 0..MaxBookings
  /\ taken \in BOOLEAN /\ crossed \subseteq {"codes", "units"}

ProductsInit ==
  /\ unit = [u \in UnitId |-> Unmade] /\ product = [p \in ProductId |-> Unmade]
  /\ rules = {} /\ shelf = [s \in Sku |-> NoShelf] /\ measured = {}
  /\ call = [c \in Caller |-> NoCall]
  /\ exact = [s \in Sku |-> 0] /\ bookings = 0 /\ taken = FALSE /\ crossed = {}

LiveUnit(u) == unit[u].row = "live"
LiveProduct(p) == product[p].row = "live"

\* Two saves that were checked against each other's past; a change of a unit, of a
\* product's unit or of a product that is deleted, beside a booking or another.
Crossing(r, q) ==
  {x \in {"codes", "units"} :
     \/ x = "codes" /\ r.op = q.op /\ r.op \in {"unit", "product"}
     \/ x = "units" /\ {r.op, q.op} \in {{"product", "in"}, {"dropUnit", "in"},
                                         {"product"}, {"unit", "dropUnit"}}}

Calls(c, r) ==
  /\ call[c] = NoCall
  /\ call' = [call EXCEPT ![c] = r]
  /\ crossed' = crossed \union UNION {Crossing(r, call[d]) : d \in Caller}
  /\ UNCHANGED <<unit, product, rules, shelf, measured, exact, bookings, taken>>

Returns(c) == call' = [call EXCEPT ![c] = NoCall] /\ UNCHANGED crossed

-----------------------------------------------------------------------------

\* readableScopeWhere: a tenant sees its own units and the platform's, the platform
\* its own.
UnitCodeFree(k, u) ==
  \A v \in UnitId \ {u} :
    LiveUnit(v) /\ (u \in OwnUnits \/ v \notin OwnUnits) => unit[v].code # k

\* create; generateUnitCode draws codes until one is free.
CreateUnit(c, u, k) ==
  /\ unit[u] = Unmade /\ UnitCodeFree(k, u)
  /\ ~\E d \in Caller : call[d].op = "unit" /\ call[d].u = u
  /\ Calls(c, [op |-> "unit", u |-> u, copy |-> [row |-> "live", code |-> k, active |-> TRUE]])

\* update: the code and whether it is active are among what may be changed; a code that
\* is not given is not looked for.
UpdateUnit(c, u, k, on) ==
  /\ LiveUnit(u)
  /\ k = unit[u].code \/ UnitCodeFree(k, u)
  /\ Calls(c, [op |-> "unit", u |-> u, copy |-> [unit[u] EXCEPT !.code = k, !.active = on]])

CommitUnit(c) ==
  /\ call[c].op = "unit"
  /\ unit' = [unit EXCEPT ![call[c].u] = call[c].copy]
  /\ Returns(c)
  /\ UNCHANGED <<product, rules, shelf, measured, exact, bookings, taken>>

\* The rows of inventory and of inventory_transactions are counted.
Used(u) == u \in measured \/ \E s \in Sku : shelf[s].unit = u

\* remove: of the platform's units nothing is counted, of none the products.
RemoveUnit(c, u) ==
  /\ LiveUnit(u) /\ (u \in OwnUnits => ~Used(u))
  /\ Calls(c, [op |-> "dropUnit", u |-> u])

CommitRemoveUnit(c) ==
  /\ call[c].op = "dropUnit"
  /\ unit' = [unit EXCEPT ![call[c].u].row = "gone"]
  /\ Returns(c)
  /\ UNCHANGED <<product, rules, shelf, measured, exact, bookings, taken>>

UnitsOf(k) == {u \in UnitId : LiveUnit(u) /\ unit[u].code = k}

\* saveConversions: every source is looked up and none given twice.
SaveConversions(c, to, set) ==
  /\ UnitsOf(to) # {}
  /\ \A r \in set : UnitsOf(r.from) # {}
  /\ \A r, q \in set : r.from = q.from => r = q
  /\ Calls(c, [op |-> "clear", to |-> to, set |-> set])

\* The old rules go ...
ClearRules(c) ==
  /\ call[c].op = "clear"
  /\ rules' = {r \in rules : r.to # call[c].to}
  /\ call' = [call EXCEPT ![c].op = "fill"]
  /\ UNCHANGED <<unit, product, shelf, measured, exact, bookings, taken, crossed>>

\* unit_conversion_tenant_from_to_unique
Clashes(set) == \E r \in set, q \in rules : r.from = q.from /\ r.to = q.to

\* ... and the new ones come, in a statement of their own.
FillRules(c) ==
  /\ call[c].op = "fill"
  /\ rules' = IF Clashes(call[c].set) THEN rules ELSE rules \union call[c].set
  /\ Returns(c)
  /\ UNCHANGED <<unit, product, shelf, measured, exact, bookings, taken>>

-----------------------------------------------------------------------------

\* Neither the code nor the barcode is another product's; those deleted do not count.
SkuFree(s, b, p) ==
  \A q \in ProductId \ {p} : LiveProduct(q) => product[q].code # s /\ product[q].barcode # b

\* validateUnit
UsableUnit(u) == LiveUnit(u) /\ unit[u].active

NewProduct(s, b, u) ==
  [row |-> "live", code |-> s, barcode |-> b, unit |-> u, active |-> TRUE]

Unborn(p) ==
  /\ product[p] = Unmade
  /\ ~\E d \in Caller : call[d].op = "product" /\ call[d].p = p

\* save: without a code one is made up, without a barcode it is the code.
SaveProduct(c, p, s, b, u) ==
  /\ Unborn(p) /\ UsableUnit(u) /\ SkuFree(s, b, p)
  /\ Calls(c, [op |-> "product", p |-> p, copy |-> NewProduct(s, b, u)])

\* validateAndSaveProduct of an import: the code is the barcode, and on asks whether it
\* is offered.
ImportProduct(c, p, s, u, on) ==
  /\ Unborn(p) /\ UsableUnit(u) /\ SkuFree(s, s, p)
  /\ Calls(c, [op |-> "product", p |-> p,
               copy |-> [NewProduct(s, s, u) EXCEPT !.active = on]])

\* Fault: only what lies on the shelf is counted.
UnstockedNow(s) == shelf[s].quantity = 0

\* assertProductUnitCanChange: neither stock nor ledger rows under the code.
Unstocked(s) == shelf[s].unit = NoUnit

\* update: the unit may change while there is no stock under the old code.
UpdateProduct(c, p, s, b, u) ==
  /\ LiveProduct(p) /\ UsableUnit(u) /\ SkuFree(s, b, p)
  /\ u # product[p].unit => Unstocked(product[p].code)
  /\ Calls(c, [op |-> "product", p |-> p,
               copy |-> [product[p] EXCEPT !.code = s, !.barcode = b, !.unit = u]])

\* product_tenant_barcode_unique holds of deleted rows, too.
BarcodeTaken(p, b) ==
  \E q \in ProductId \ {p} : product[q] # Unmade /\ product[q].barcode = b

\* The whole copy is written; a product deleted meanwhile is back.
CommitProduct(c) ==
  LET p == call[c].p
      copy == call[c].copy
  IN  /\ call[c].op = "product"
      /\ Returns(c)
      /\ IF BarcodeTaken(p, copy.barcode) THEN UNCHANGED <<product, taken>>
         ELSE /\ product' = [product EXCEPT ![p] = copy]
              /\ taken' = \/ taken
                          \/ /\ shelf[copy.code] # NoShelf
                             /\ ~(LiveProduct(p) /\ product[p].code = copy.code)
      /\ UNCHANGED <<unit, rules, shelf, measured, exact, bookings>>

\* updateStatus and delete write one column.
UpdateProductStatus(p, on) ==
  /\ LiveProduct(p)
  /\ product' = [product EXCEPT ![p].active = on]
  /\ UNCHANGED <<unit, rules, shelf, measured, call, exact, bookings, taken, crossed>>

DeleteProduct(p) ==
  /\ LiveProduct(p)
  /\ product' = [product EXCEPT ![p].row = "gone"]
  /\ UNCHANGED <<unit, rules, shelf, measured, call, exact, bookings, taken, crossed>>

-----------------------------------------------------------------------------
\* getConvertibleOperationUnit: the product's own unit, or a rule that leads to it.
Ratios(by, u) ==
  IF unit[by].code = unit[u].code THEN {10000}
  ELSE {r.ratio : r \in {q \in rules : q.from = unit[by].code /\ q.to = unit[u].code}}

Booking == {d \in Caller : call[d].op \in {"in", "out"}}
MayBook == bookings + Cardinality(Booking) < MaxBookings

\* inbound, up to its transaction: n of unit by under code s.
Inbound(c, s, by, n) ==
  /\ MayBook
  /\ \E p \in ProductId :
       /\ LiveProduct(p) /\ product[p].code = s
       /\ UsableUnit(product[p].unit) /\ UsableUnit(by)
       /\ \E ratio \in Ratios(by, product[p].unit) :
            Calls(c, [op |-> "in", s |-> s, p |-> p, unit |-> product[p].unit, by |-> by,
                      n |-> n, ratio |-> ratio])

\* Fault: what is left below a hundredth is cut off.
RoundedDown(amount) == amount \div 100000

\* To hundredths: Math.round(quantity * ratio * 100) / 100, and the columns' scale.
Rounded(amount) == (amount + 50000) \div 100000

\* Stock that is measured otherwise is refused.
Measures(s, u) == shelf[s].unit \in {NoUnit, u}

CommitInbound(c) ==
  LET w == call[c]
  IN  /\ w.op = "in"
      /\ Returns(c)
      /\ IF ~Measures(w.s, w.unit) THEN UNCHANGED <<shelf, measured, exact, bookings>>
         ELSE /\ shelf' = [shelf EXCEPT ![w.s] =
                   [unit |-> w.unit, quantity |-> @.quantity + Rounded(w.n * w.ratio)]]
              /\ measured' = measured \union {w.by}
              /\ exact' = [exact EXCEPT ![w.s] = @ + w.n * w.ratio]
              /\ bookings' = bookings + 1
      /\ UNCHANGED <<unit, product, rules, taken>>

\* outbound and adjust speak of the product's unit only.
Outbound(c, s, n) ==
  /\ MayBook
  /\ \E p \in ProductId :
       /\ LiveProduct(p) /\ product[p].code = s /\ UsableUnit(product[p].unit)
       /\ Calls(c, [op |-> "out", s |-> s, p |-> p, unit |-> product[p].unit, n |-> n])

Enough(s, u, n) == shelf[s].unit = u /\ shelf[s].quantity * 10 >= n

CommitOutbound(c) ==
  LET w == call[c]
  IN  /\ w.op = "out"
      /\ Returns(c)
      /\ IF ~Enough(w.s, w.unit, w.n) THEN UNCHANGED <<shelf, measured, exact, bookings>>
         ELSE /\ shelf' = [shelf EXCEPT ![w.s].quantity = Rounded(@ * 100000 - w.n * 10000)]
              /\ measured' = measured \union {w.unit}
              /\ exact' = [exact EXCEPT ![w.s] = @ - w.n * 10000]
              /\ bookings' = bookings + 1
      /\ UNCHANGED <<unit, product, rules, taken>>

ProductsNext ==
  \/ \E c \in Caller :
       \/ \E u \in UnitId, k \in UnitCode : CreateUnit(c, u, k)
       \/ \E u \in UnitId, k \in UnitCode, on \in BOOLEAN : UpdateUnit(c, u, k, on)
       \/ \E u \in UnitId : RemoveUnit(c, u)
       \/ \E to \in UnitCode : \E set \in SUBSET [from : UnitCode \ {to}, to : {to}, ratio : Ratio] :
            SaveConversions(c, to, set)
       \/ \E p \in ProductId, s, b \in Sku, u \in UnitId :
            SaveProduct(c, p, s, b, u) \/ UpdateProduct(c, p, s, b, u)
       \/ \E p \in ProductId, s \in Sku, u \in UnitId, on \in BOOLEAN :
            ImportProduct(c, p, s, u, on)
       \/ \E s \in Sku, by \in UnitId, n \in Quantity : Inbound(c, s, by, n)
       \/ \E s \in Sku, n \in Quantity : Outbound(c, s, n)
       \/ CommitUnit(c) \/ CommitRemoveUnit(c) \/ ClearRules(c) \/ FillRules(c)
       \/ CommitProduct(c) \/ CommitInbound(c) \/ CommitOutbound(c)
  \/ \E p \in ProductId, on \in BOOLEAN : UpdateProductStatus(p, on)
  \/ \E p \in ProductId : DeleteProduct(p)

ProductsSpec == ProductsInit /\ [][ProductsNext]_productVars

-----------------------------------------------------------------------------
(* Stock is measured in its product's unit, or no booking would be accepted    *)
(* any more, unless a product took a code under which there was stock already  *)
(* or a change of the product overlapped a booking.                            *)
MeasuredAlike ==
  ~(taken \/ "units" \in crossed) =>
    \A p \in ProductId : LiveProduct(p) => Measures(product[p].code, product[p].unit)

(* The tenant's own units that stock is measured in are there, unless one was  *)
(* removed while it was being booked or changed.                               *)
MeasureStays ==
  "units" \notin crossed =>
    \A s \in Sku : shelf[s].unit \in OwnUnits => LiveUnit(shelf[s].unit)

(* Stock, the product under its code and their unit go together.              *)
StockKeepsUnit == MeasuredAlike /\ MeasureStays

(* Two products or two units of one scope have one code only if saves of them  *)
(* overlapped: no index stands behind the lookups.                             *)
SkuNamesOne ==
  "codes" \notin crossed =>
    \A p, q \in ProductId : (p # q /\ LiveProduct(p) /\ LiveProduct(q)) =>
      product[p].code # product[q].code

UnitCodeNamesOne ==
  "codes" \notin crossed =>
    \A u, v \in UnitId :
      (u # v /\ LiveUnit(u) /\ LiveUnit(v) /\ (u \in OwnUnits) = (v \in OwnUnits)) =>
        unit[u].code # unit[v].code

(* There is one way from a unit to another, whichever saves overlapped: a      *)
(* booking does not depend on which of two rules it is given.                  *)
OneRatio == \A r, q \in rules : (r.from = q.from /\ r.to = q.to) => r = q

(* Rounding to hundredths costs at most half a hundredth per booking, into     *)
(* stock by a ratio or out of it with more decimals than the column has.       *)
RoundingBounded ==
  \A s \in Sku :
    LET off == shelf[s].quantity * 100000 - exact[s]
    IN  -50000 * bookings <= off /\ off <= 50000 * bookings
=============================================================================
