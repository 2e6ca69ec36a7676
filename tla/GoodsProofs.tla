----------------------------- MODULE GoodsProofs -----------------------------
(***************************************************************************)
(* Products, their units and stock; the catalogue; imports from sheets.    *)
(* Requests look first and write later: what they have seen still holds    *)
(* when they write, unless another request crossed them (crossed, clashed, *)
(* doubled, taken), for any number of rows and of requests.                *)
(*                                                                         *)
(*   ProductsShape  rows, copies and requests in flight keep their shape   *)
(*   NamesInv       codes that were free are still free                    *)
(*   MeasureInv     what bookings read of products and units still holds   *)
(*   FilingInv      products, moves and removals of categories             *)
(*   BindingInv     attributes bound to categories and removed             *)
(*   OptionsInv     options given to attributes and removed                *)
(*   SheetInv       an import takes the rows behind the mark, once         *)
(***************************************************************************)
EXTENDS Goods, FiniteSetTheorems, SequenceTheorems, TLAPS

-----------------------------------------------------------------------------
(* Products: shapes *)

\* What a request in flight may look like.
CallShape ==
  {NoCall}
  \union [op : {"unit"}, u : UnitId, copy : UnitRow]
  \union [op : {"dropUnit"}, u : UnitId]
  \union [op : {"clear", "fill"}, to : UnitCode, set : SUBSET Rule]
  \union [op : {"product"}, p : ProductId, copy : ProductRow]
  \union [op : {"in"}, s : Sku, p : ProductId, unit : UnitId,
          by : UnitId, n : Quantity, ratio : Ratio \union {10000}]
  \union [op : {"out"}, s : Sku, p : ProductId, unit : UnitId, n : Quantity]

ProductsShape ==
  /\ unit \in [UnitId -> UnitRow \union {Unmade}]
  /\ product \in [ProductId -> ProductRow \union {Unmade}]
  /\ rules \subseteq Rule
  /\ shelf \in [Sku -> [unit : UnitId \union {NoUnit}, quantity : Nat]]
  /\ measured \subseteq UnitId
  /\ call \in [Caller -> CallShape]
  /\ exact \in [Sku -> Int] /\ bookings \in Nat
  /\ taken \in BOOLEAN /\ crossed \subseteq {"codes", "units"}

\* The fields of a request are those of its operation.
LEMMA CallFields ==
  ASSUME NEW r \in CallShape
  PROVE  /\ r.op \in {"none", "unit", "dropUnit", "clear", "fill", "product", "in", "out"}
         /\ r.op = "none" => r = NoCall
         /\ r.op = "unit" => r.u \in UnitId /\ r.copy \in UnitRow
         /\ r.op = "dropUnit" => r.u \in UnitId
         /\ r.op \in {"clear", "fill"} => r.to \in UnitCode /\ r.set \in SUBSET Rule
         /\ r.op = "product" => r.p \in ProductId /\ r.copy \in ProductRow
         /\ r.op = "in" => /\ r.s \in Sku /\ r.p \in ProductId /\ r.unit \in UnitId
                           /\ r.by \in UnitId /\ r.n \in Quantity
                           /\ r.ratio \in Ratio \union {10000}
         /\ r.op = "out" => /\ r.s \in Sku /\ r.p \in ProductId /\ r.unit \in UnitId
                            /\ r.n \in Quantity
BY DEF CallShape, NoCall

\* Live rows have all their columns.
LEMMA LiveRows ==
  ASSUME ProductsShape
  PROVE  /\ \A u \in UnitId : LiveUnit(u) => unit[u] \in UnitRow
         /\ \A p \in ProductId : LiveProduct(p) => product[p] \in ProductRow
         /\ Unmade.row = "none"
BY DEF ProductsShape, LiveUnit, LiveProduct, Unmade

LEMMA CrossingCodes ==
  ASSUME NEW r, NEW q, r.op = q.op, r.op \in {"unit", "product"}
  PROVE  "codes" \in Crossing(r, q)
BY DEF Crossing

LEMMA CrossingUnits ==
  ASSUME NEW r, NEW q,
         \/ r.op = "product" /\ q.op \in {"product", "in"}
         \/ r.op = "in" /\ q.op \in {"product", "dropUnit"}
         \/ r.op = "dropUnit" /\ q.op = "in"
  PROVE  "units" \in Crossing(r, q)
<1>1. {r.op, q.op} \in {{"product", "in"}, {"dropUnit", "in"}, {"product"}, {"unit", "dropUnit"}}
  OBVIOUS
<1> QED
  BY <1>1 DEF Crossing

\* A request that comes in changes its own entry and notes whom it crosses.
LEMMA CallsMeans ==
  ASSUME ProductsShape, NEW c \in Caller, NEW r \in CallShape, Calls(c, r)
  PROVE  /\ call[c] = NoCall
         /\ call' \in [Caller -> CallShape]
         /\ call'[c] = r /\ \A d \in Caller \ {c} : call'[d] = call[d]
         /\ crossed' \subseteq {"codes", "units"} /\ crossed \subseteq crossed'
         /\ \A d \in Caller : Crossing(r, call[d]) \subseteq crossed'
         /\ UNCHANGED <<unit, product, rules, shelf, measured, exact, bookings, taken>>
<1>1. \A d \in Caller : Crossing(r, call[d]) \subseteq {"codes", "units"}
  BY DEF Crossing
<1>2. crossed' = crossed \union UNION {Crossing(r, call[d]) : d \in Caller}
  BY DEF Calls
<1>3. crossed' \subseteq {"codes", "units"} /\ \A d \in Caller : Crossing(r, call[d]) \subseteq crossed'
  <2>1. ASSUME NEW x \in crossed'  PROVE x \in {"codes", "units"}
    <3>1. x \in crossed \/ \E d \in Caller : x \in Crossing(r, call[d])
      BY <1>2, <2>1
    <3> QED
      BY <3>1, <1>1 DEF ProductsShape
  <2>2. ASSUME NEW d \in Caller, NEW x \in Crossing(r, call[d])  PROVE x \in crossed'
    BY <1>2, <2>2
  <2> QED
    BY <2>1, <2>2
<1> QED
  BY <1>2, <1>3 DEF Calls, ProductsShape

LEMMA ReturnsMeans ==
  ASSUME ProductsShape, NEW c \in Caller, Returns(c)
  PROVE  /\ call' \in [Caller -> CallShape]
         /\ call'[c] = NoCall /\ \A d \in Caller \ {c} : call'[d] = call[d]
         /\ UNCHANGED crossed
BY DEF ProductsShape, Returns, CallShape

\* What is left of an amount after rounding.
LEMMA RoundsNear ==
  ASSUME NEW m \in Nat
  PROVE  /\ Rounded(m) \in Nat
         /\ Rounded(m) * 100000 - m <= 50000 /\ m - Rounded(m) * 100000 <= 50000
<1>1. /\ (m + 50000) \div 100000 \in Nat
      /\ ((m + 50000) \div 100000) * 100000 - m <= 50000
      /\ m - ((m + 50000) \div 100000) * 100000 <= 50000
  BY Z3
<1> QED
  BY <1>1 DEF Rounded

LEMMA Amounts ==
  ASSUME NEW n \in Quantity, NEW ratio \in Ratio \union {10000}
  PROVE  /\ n * ratio \in Nat /\ Rounded(n * ratio) \in Nat
         /\ Rounded(n * ratio) * 100000 - n * ratio <= 50000
         /\ n * ratio - Rounded(n * ratio) * 100000 <= 50000
<1>1. n \in Nat /\ ratio \in Nat
  BY ProductsAssumption
<1>2. n * ratio \in Nat
  BY <1>1
<1> QED
  BY <1>2, RoundsNear

\* What a request has seen when it comes in.
Grounds(r) ==
  /\ r.op \in {"unit", "dropUnit", "clear", "product", "in", "out"}
  /\ r.op = "unit" =>
       /\ r.copy.row = "live"
       /\ \/ UnitCodeFree(r.copy.code, r.u)
          \/ LiveUnit(r.u) /\ r.u \in UnitId /\ unit[r.u].code = r.copy.code
  /\ r.op = "dropUnit" => LiveUnit(r.u) /\ (r.u \in OwnUnits => ~Used(r.u))
  /\ r.op = "clear" => \A x, y \in r.set : x.from = y.from => x = y
  /\ r.op = "product" =>
       /\ SkuFree(r.copy.code, r.copy.barcode, r.p)
       /\ LiveProduct(r.p) /\ r.copy.unit # product[r.p].unit => Unstocked(product[r.p].code)
  /\ r.op = "in" =>
       /\ LiveProduct(r.p) /\ product[r.p].code = r.s /\ product[r.p].unit = r.unit
       /\ LiveUnit(r.unit)
  /\ r.op \in {"in", "out"} => MayBook

\* The requests that may come in.
ComesIn(c) ==
  \/ \E u \in UnitId, k \in UnitCode : CreateUnit(c, u, k)
  \/ \E u \in UnitId, k \in UnitCode, on \in BOOLEAN : UpdateUnit(c, u, k, on)
  \/ \E u \in UnitId : RemoveUnit(c, u)
  \/ \E to \in UnitCode : \E set \in SUBSET [from : UnitCode \ {to}, to : {to}, ratio : Ratio] :
       SaveConversions(c, to, set)
  \/ \E p \in ProductId, s, b \in Sku, u \in UnitId :
       SaveProduct(c, p, s, b, u) \/ UpdateProduct(c, p, s, b, u)
  \/ \E p \in ProductId, s \in Sku, u \in UnitId, on \in BOOLEAN :
       ImportProduct(c, p, s, u, on)
  \/ \E s \in Sku, by \in UnitId, n \in Quantity : Inbound(c, s, by, n)
  \/ \E s \in Sku, n \in Quantity : Outbound(c, s, n)

LEMMA NextOf ==
  ASSUME ProductsNext
  PROVE  \/ \E c \in Caller :
              \/ ComesIn(c)
              \/ CommitUnit(c) \/ CommitRemoveUnit(c) \/ ClearRules(c) \/ FillRules(c)
              \/ CommitProduct(c) \/ CommitInbound(c) \/ CommitOutbound(c)
         \/ \E p \in ProductId, on \in BOOLEAN : UpdateProductStatus(p, on)
         \/ \E p \in ProductId : DeleteProduct(p)
BY DEF ProductsNext, ComesIn

LEMMA ComesWithGrounds ==
  ASSUME ProductsShape, NEW c \in Caller, ComesIn(c)
  PROVE  \E r \in CallShape : Calls(c, r) /\ Grounds(r)
<1>0. /\ \A u \in UnitId : LiveUnit(u) => unit[u] \in UnitRow
      /\ \A p \in ProductId : LiveProduct(p) => product[p] \in ProductRow
  BY LiveRows
<1> DEFINE Goal == \E r \in CallShape : Calls(c, r) /\ Grounds(r)
<1>w. ASSUME NEW r, r \in CallShape, Calls(c, r), Grounds(r)  PROVE Goal
  BY <1>w
<1> HIDE DEF Goal
<1>1. ASSUME NEW u \in UnitId, NEW k \in UnitCode, CreateUnit(c, u, k)  PROVE Goal
  <2> DEFINE r == [op |-> "unit", u |-> u, copy |-> [row |-> "live", code |-> k, active |-> TRUE]]
  <2>1. r \in CallShape
    BY DEF CallShape, UnitRow
  <2>2. Calls(c, r) /\ Grounds(r)
    BY <1>1 DEF CreateUnit, Grounds
  <2> QED
    BY <2>1, <2>2, <1>w
<1>2. ASSUME NEW u \in UnitId, NEW k \in UnitCode, NEW on \in BOOLEAN, UpdateUnit(c, u, k, on)
      PROVE Goal
  <2> DEFINE r == [op |-> "unit", u |-> u, copy |-> [unit[u] EXCEPT !.code = k, !.active = on]]
  <2>0. unit[u] \in UnitRow /\ unit[u].row = "live"
    BY <1>2, <1>0 DEF UpdateUnit, LiveUnit
  <2>3. ASSUME NEW x \in UnitRow, x.row = "live"
        PROVE  LET y == [x EXCEPT !.code = k, !.active = on]
               IN  y \in UnitRow /\ y.row = "live" /\ y.code = k
    BY <2>3 DEF UnitRow
  <2>4. r.copy \in UnitRow /\ r.copy.row = "live" /\ r.copy.code = k
    BY <2>0, <2>3
  <2>1. r \in CallShape /\ r.copy.row = "live" /\ r.copy.code = k
    BY <2>4 DEF CallShape
  <2>2. Calls(c, r) /\ Grounds(r)
    BY <1>2, <2>1 DEF UpdateUnit, Grounds
  <2> QED
    BY <2>1, <2>2, <1>w
<1>3. ASSUME NEW u \in UnitId, RemoveUnit(c, u)  PROVE Goal
  <2> DEFINE r == [op |-> "dropUnit", u |-> u]
  <2>1. r \in CallShape
    BY DEF CallShape
  <2>2. Calls(c, r) /\ Grounds(r)
    BY <1>3 DEF RemoveUnit, Grounds
  <2> QED
    BY <2>1, <2>2, <1>w
<1>4. ASSUME NEW to \in UnitCode,
             NEW set \in SUBSET [from : UnitCode \ {to}, to : {to}, ratio : Ratio],
             SaveConversions(c, to, set)
      PROVE Goal
  <2> DEFINE r == [op |-> "clear", to |-> to, set |-> set]
  <2>0. set \subseteq Rule
    BY DEF Rule
  <2>1. r \in CallShape
    BY <2>0 DEF CallShape
  <2>2. Calls(c, r) /\ Grounds(r)
    BY <1>4 DEF SaveConversions, Grounds
  <2> QED
    BY <2>1, <2>2, <1>w
<1>5. ASSUME NEW p \in ProductId, NEW s \in Sku, NEW b \in Sku, NEW u \in UnitId,
             SaveProduct(c, p, s, b, u)
      PROVE Goal
  <2> DEFINE r == [op |-> "product", p |-> p, copy |-> NewProduct(s, b, u)]
  <2>1. r \in CallShape /\ r.copy.code = s /\ r.copy.barcode = b
    BY DEF CallShape, NewProduct, ProductRow
  <2>2. ~LiveProduct(p)
    BY <1>5, LiveRows DEF SaveProduct, Unborn, LiveProduct
  <2>3. Calls(c, r) /\ Grounds(r)
    BY <1>5, <2>1, <2>2 DEF SaveProduct, Grounds
  <2> QED
    BY <2>1, <2>3, <1>w
<1>6. ASSUME NEW p \in ProductId, NEW s \in Sku, NEW b \in Sku, NEW u \in UnitId,
             UpdateProduct(c, p, s, b, u)
      PROVE Goal
  <2> DEFINE r == [op |-> "product", p |-> p,
                   copy |-> [product[p] EXCEPT !.code = s, !.barcode = b, !.unit = u]]
  <2>0. product[p] \in ProductRow
    BY <1>6, <1>0 DEF UpdateProduct
  <2>2. ASSUME NEW x \in ProductRow
        PROVE  LET y == [x EXCEPT !.code = s, !.barcode = b, !.unit = u]
               IN  y \in ProductRow /\ y.code = s /\ y.barcode = b /\ y.unit = u
    BY DEF ProductRow
  <2>4. r.copy \in ProductRow /\ r.copy.code = s /\ r.copy.barcode = b /\ r.copy.unit = u
    BY <2>0, <2>2
  <2>1. r \in CallShape /\ r.copy.code = s /\ r.copy.barcode = b /\ r.copy.unit = u
    BY <2>4 DEF CallShape
  <2>3. Calls(c, r) /\ Grounds(r)
    BY <1>6, <2>1 DEF UpdateProduct, Grounds
  <2> QED
    BY <2>1, <2>3, <1>w
<1>7. ASSUME NEW p \in ProductId, NEW s \in Sku, NEW u \in UnitId, NEW on \in BOOLEAN,
             ImportProduct(c, p, s, u, on)
      PROVE Goal
  <2> DEFINE r == [op |-> "product", p |-> p, copy |-> [NewProduct(s, s, u) EXCEPT !.active = on]]
  <2>1. r \in CallShape /\ r.copy.code = s /\ r.copy.barcode = s
    BY DEF CallShape, NewProduct, ProductRow
  <2>2. ~LiveProduct(p)
    BY <1>7, LiveRows DEF ImportProduct, Unborn, LiveProduct
  <2>3. Calls(c, r) /\ Grounds(r)
    BY <1>7, <2>1, <2>2 DEF ImportProduct, Grounds
  <2> QED
    BY <2>1, <2>3, <1>w
<1>8. ASSUME NEW s \in Sku, NEW by \in UnitId, NEW n \in Quantity, Inbound(c, s, by, n)
      PROVE Goal
  <2>1. PICK p \in ProductId :
          /\ LiveProduct(p) /\ product[p].code = s
          /\ UsableUnit(product[p].unit) /\ UsableUnit(by)
          /\ \E ratio \in Ratios(by, product[p].unit) :
               Calls(c, [op |-> "in", s |-> s, p |-> p, unit |-> product[p].unit, by |-> by,
                         n |-> n, ratio |-> ratio])
    BY <1>8 DEF Inbound
  <2>2. PICK ratio \in Ratios(by, product[p].unit) :
          Calls(c, [op |-> "in", s |-> s, p |-> p, unit |-> product[p].unit, by |-> by,
                    n |-> n, ratio |-> ratio])
    BY <2>1
  <2>3. ratio \in Ratio \union {10000}
    BY <2>2 DEF Ratios, ProductsShape, Rule
  <2>4. product[p].unit \in UnitId
    BY <2>1, <1>0 DEF ProductRow
  <2> DEFINE r == [op |-> "in", s |-> s, p |-> p, unit |-> product[p].unit, by |-> by,
                   n |-> n, ratio |-> ratio]
  <2>5. r \in CallShape
    BY <2>3, <2>4 DEF CallShape
  <2>6. Calls(c, r) /\ Grounds(r)
    BY <1>8, <2>1, <2>2 DEF Inbound, Grounds, UsableUnit
  <2> QED
    BY <2>5, <2>6, <1>w
<1>9. ASSUME NEW s \in Sku, NEW n \in Quantity, Outbound(c, s, n)  PROVE Goal
  <2>1. PICK p \in ProductId :
          /\ LiveProduct(p) /\ product[p].code = s
          /\ Calls(c, [op |-> "out", s |-> s, p |-> p, unit |-> product[p].unit, n |-> n])
    BY <1>9 DEF Outbound
  <2> DEFINE r == [op |-> "out", s |-> s, p |-> p, unit |-> product[p].unit, n |-> n]
  <2>2. product[p].unit \in UnitId
    BY <2>1, <1>0 DEF ProductRow
  <2>3. r \in CallShape
    BY <2>2 DEF CallShape
  <2>4. Calls(c, r) /\ Grounds(r)
    BY <1>9, <2>1 DEF Grounds, Outbound
  <2> QED
    BY <2>3, <2>4, <1>w
<1> QED
  BY <1>1, <1>2, <1>3, <1>4, <1>5, <1>6, <1>7, <1>8, <1>9 DEF ComesIn, Goal

-----------------------------------------------------------------------------
(* Products: shapes, bookings, rules and rounding *)

\* The bookings made and those in flight are not too many.
Booked == bookings + Cardinality(Booking) <= MaxBookings

\* A set of rules that is being saved gives no source twice.
SetsSound ==
  \A c \in Caller : call[c].op \in {"clear", "fill"} =>
    \A x, y \in call[c].set : x.from = y.from => x = y

\* What is deleted is there.
DropsARow == \A c \in Caller : call[c].op = "dropUnit" => unit[call[c].u] \in UnitRow

ProductsBase == ProductsShape /\ DropsARow /\ Booked /\ SetsSound /\ OneRatio /\ RoundingBounded

\* One caller more or less is booking.
LEMMA BookingCount ==
  ASSUME IsFiniteSet(Caller), ProductsShape, NEW c \in Caller,
         \A d \in Caller \ {c} : call'[d].op = call[d].op
  PROVE  /\ Cardinality(Booking) \in Nat /\ Cardinality(Booking') \in Nat
         /\ (call[c].op \in {"in", "out"} <=> call'[c].op \in {"in", "out"}) => Booking' = Booking
         /\ call'[c].op \notin {"in", "out"} => Cardinality(Booking') <= Cardinality(Booking)
         /\ call[c].op \in {"in", "out"} /\ call'[c].op \notin {"in", "out"} => Cardinality(Booking') = Cardinality(Booking) - 1
         /\ Cardinality(Booking') <= Cardinality(Booking) + 1
<1>1. IsFiniteSet(Booking) /\ IsFiniteSet(Booking')
  BY FS_Subset DEF Booking
<1>2. Cardinality(Booking) \in Nat /\ Cardinality(Booking') \in Nat
  BY <1>1, FS_CardinalityType
<1>3. (call[c].op \in {"in", "out"} <=> call'[c].op \in {"in", "out"}) => Booking' = Booking
  BY DEF Booking
<1>4. CASE call[c].op \in {"in", "out"} /\ call'[c].op \notin {"in", "out"}
  <2>1. Booking' = Booking \ {c} /\ c \in Booking
    BY <1>4 DEF Booking
  <2>2. Cardinality(Booking') = Cardinality(Booking) - 1
    BY <2>1, <1>1, FS_RemoveElement
  <2> QED
    BY <1>2, <1>3, <1>4, <2>2
<1>5. CASE call[c].op \notin {"in", "out"} /\ call'[c].op \in {"in", "out"}
  <2>1. Booking' = Booking \union {c} /\ c \notin Booking
    BY <1>5 DEF Booking
  <2>2. Cardinality(Booking') = Cardinality(Booking) + 1
    BY <2>1, <1>1, FS_AddElement
  <2> QED
    BY <1>2, <1>3, <1>5, <2>2
<1> QED
  BY <1>2, <1>3, <1>4, <1>5

LEMMA CallKeepsBase ==
  ASSUME IsFiniteSet(Caller), ProductsBase, NEW c \in Caller, NEW r \in CallShape,
         Calls(c, r), Grounds(r)
  PROVE  ProductsBase'
<1> USE DEF ProductsBase
<1>1. /\ call[c] = NoCall
      /\ call' \in [Caller -> CallShape]
      /\ call'[c] = r /\ \A d \in Caller \ {c} : call'[d] = call[d]
      /\ crossed' \subseteq {"codes", "units"}
      /\ UNCHANGED <<unit, product, rules, shelf, measured, exact, bookings, taken>>
  BY CallsMeans
<1>2. ProductsShape'
  BY <1>1 DEF ProductsShape
<1>3. Booked'
  <2>1. /\ Cardinality(Booking) \in Nat /\ Cardinality(Booking') \in Nat
        /\ call'[c].op \notin {"in", "out"} => Cardinality(Booking') <= Cardinality(Booking)
        /\ Cardinality(Booking') <= Cardinality(Booking) + 1
    BY <1>1, BookingCount
  <2>2. bookings' = bookings /\ bookings \in Nat /\ MaxBookings \in Nat
    BY <1>1, ProductsAssumption DEF ProductsShape
  <2>3. CASE r.op \in {"in", "out"}
    <3>1. bookings + Cardinality(Booking) < MaxBookings
      BY <2>3 DEF Grounds, MayBook
    <3> QED
      BY <3>1, <2>1, <2>2 DEF Booked
  <2>4. CASE r.op \notin {"in", "out"}
    BY <2>1, <2>2, <2>4, <1>1 DEF Booked
  <2> QED
    BY <2>3, <2>4
<1>4. SetsSound'
  <2> SUFFICES ASSUME NEW d \in Caller, call'[d].op \in {"clear", "fill"},
                      NEW x \in call'[d].set, NEW y \in call'[d].set, x.from = y.from
               PROVE  x = y
    BY DEF SetsSound
  <2>1. CASE d = c
    BY <2>1, <1>1 DEF Grounds
  <2>2. CASE d # c
    BY <2>2, <1>1 DEF SetsSound
  <2> QED
    BY <2>1, <2>2
<1>5. OneRatio' /\ RoundingBounded'
  BY <1>1 DEF OneRatio, RoundingBounded
<1>6. DropsARow'
  <2> SUFFICES ASSUME NEW d \in Caller, call'[d].op = "dropUnit"
               PROVE  unit[call'[d].u] \in UnitRow
    BY <1>1 DEF DropsARow
  <2>1. CASE d = c
    <3>1. r.op = "dropUnit" /\ r.u \in UnitId
      BY <2>1, <1>1, CallFields
    <3>2. LiveUnit(r.u)
      BY <3>1 DEF Grounds
    <3> QED
      BY <3>1, <3>2, <2>1, <1>1, LiveRows
  <2>2. CASE d # c
    BY <2>2, <1>1 DEF DropsARow
  <2> QED
    BY <2>1, <2>2
<1> QED
  BY <1>2, <1>3, <1>4, <1>5, <1>6

\* A step that ends a request: what it may change besides.
LEMMA ReturnKeepsBase ==
  ASSUME IsFiniteSet(Caller), ProductsBase, NEW c \in Caller, Returns(c),
         unit' \in [UnitId -> UnitRow \union {Unmade}],
         product' \in [ProductId -> ProductRow \union {Unmade}],
         taken' \in BOOLEAN,
         \A u \in UnitId : unit[u] \in UnitRow => unit'[u] \in UnitRow,
         UNCHANGED <<shelf, measured, exact, bookings>>,
         rules' \subseteq Rule, OneRatio'
  PROVE  ProductsBase'
<1> USE DEF ProductsBase
<1>1. /\ call' \in [Caller -> CallShape]
      /\ call'[c] = NoCall /\ \A d \in Caller \ {c} : call'[d] = call[d]
      /\ UNCHANGED crossed
  BY ReturnsMeans
<1>2. ProductsShape'
  BY <1>1 DEF ProductsShape
<1>3. Booked'
  <2>1. /\ Cardinality(Booking) \in Nat /\ Cardinality(Booking') \in Nat
        /\ call'[c].op \notin {"in", "out"} => Cardinality(Booking') <= Cardinality(Booking)
    BY <1>1, BookingCount
  <2>2. bookings' = bookings /\ bookings \in Nat /\ MaxBookings \in Nat
    BY ProductsAssumption DEF ProductsShape
  <2> QED
    BY <2>1, <2>2, <1>1 DEF Booked, NoCall
<1>4. SetsSound'
  BY <1>1 DEF SetsSound, NoCall
<1>5. RoundingBounded'
  BY DEF RoundingBounded
<1>6. DropsARow'
  <2> SUFFICES ASSUME NEW d \in Caller, call'[d].op = "dropUnit"
               PROVE  unit'[call'[d].u] \in UnitRow
    BY DEF DropsARow
  <2>1. d # c /\ call'[d] = call[d]
    BY <1>1 DEF NoCall
  <2>2. call[d].u \in UnitId
    BY <2>1, CallFields DEF ProductsShape
  <2> QED
    BY <2>1, <2>2 DEF DropsARow
<1> QED
  BY <1>2, <1>3, <1>4, <1>5, <1>6

LEMMA ProductsBaseStep ==
  ASSUME IsFiniteSet(Caller), ProductsBase, [ProductsNext]_productVars
  PROVE  ProductsBase'
<1> USE DEF ProductsBase
<1>1. ASSUME NEW c \in Caller, ComesIn(c)  PROVE ProductsBase'
  BY <1>1, ComesWithGrounds, CallKeepsBase
<1>2. ASSUME NEW c \in Caller, CommitUnit(c)  PROVE ProductsBase'
  <2>1. call[c].u \in UnitId /\ call[c].copy \in UnitRow
    BY <1>2, CallFields DEF CommitUnit, ProductsShape
  <2>2. /\ unit' \in [UnitId -> UnitRow \union {Unmade}]
        /\ \A u \in UnitId : unit[u] \in UnitRow => unit'[u] \in UnitRow
    BY <1>2, <2>1 DEF CommitUnit, ProductsShape
  <2> QED
    BY <1>2, <2>2, ReturnKeepsBase DEF CommitUnit, ProductsShape, OneRatio
<1>3. ASSUME NEW c \in Caller, CommitRemoveUnit(c)  PROVE ProductsBase'
  <2>1. call[c].u \in UnitId /\ unit[call[c].u] \in UnitRow
    BY <1>3, CallFields DEF CommitRemoveUnit, ProductsShape, DropsARow
  <2>2. /\ unit' \in [UnitId -> UnitRow \union {Unmade}]
        /\ \A u \in UnitId : unit[u] \in UnitRow => unit'[u] \in UnitRow
    <3>1. \A x \in UnitRow : [x EXCEPT !.row = "gone"] \in UnitRow
      BY DEF UnitRow
    <3> QED
      BY <1>3, <2>1, <3>1 DEF CommitRemoveUnit, ProductsShape
  <2> QED
    BY <1>3, <2>2, ReturnKeepsBase DEF CommitRemoveUnit, ProductsShape, OneRatio
<1>4. ASSUME NEW c \in Caller, ClearRules(c)  PROVE ProductsBase'
  <2>0. call[c] \in CallShape /\ call[c].op = "clear" /\ call[c].to \in UnitCode /\ call[c].set \in SUBSET Rule
    BY <1>4, CallFields DEF ClearRules, ProductsShape
  <2>1. [call[c] EXCEPT !.op = "fill"] \in CallShape
    BY <2>0 DEF CallShape, NoCall
  <2>2. /\ call'[c] = [call[c] EXCEPT !.op = "fill"]
        /\ \A d \in Caller \ {c} : call'[d] = call[d]
        /\ call' \in [Caller -> CallShape]
    BY <1>4, <2>1 DEF ClearRules, ProductsShape
  <2>3. rules' \subseteq rules
    BY <1>4 DEF ClearRules
  <2>4. ProductsShape' /\ OneRatio' /\ RoundingBounded'
    BY <1>4, <2>2, <2>3 DEF ClearRules, ProductsShape, OneRatio, RoundingBounded
  <2>5. call'[c].op = "fill" /\ call'[c].set = call[c].set
    BY <2>0, <2>2 DEF CallShape, NoCall
  <2>6. Booked'
    BY <1>4, <2>0, <2>2, <2>5, BookingCount DEF ClearRules, Booked
  <2>7. SetsSound' /\ DropsARow'
    BY <1>4, <2>0, <2>2, <2>5 DEF SetsSound, DropsARow, ClearRules
  <2> QED
    BY <2>4, <2>6, <2>7
<1>5. ASSUME NEW c \in Caller, FillRules(c)  PROVE ProductsBase'
  <2>1. call[c].set \in SUBSET Rule
    BY <1>5, CallFields DEF FillRules, ProductsShape
  <2>2. \A x, y \in call[c].set : x.from = y.from => x = y
    BY <1>5 DEF FillRules, SetsSound
  <2>3. rules' \subseteq Rule /\ OneRatio'
    BY <1>5, <2>1, <2>2 DEF FillRules, Clashes, OneRatio, ProductsShape
  <2> QED
    BY <1>5, <2>3, ReturnKeepsBase DEF FillRules, ProductsShape
<1>6. ASSUME NEW c \in Caller, CommitProduct(c)  PROVE ProductsBase'
  <2>1. call[c].p \in ProductId /\ call[c].copy \in ProductRow
    BY <1>6, CallFields DEF CommitProduct, ProductsShape
  <2>2. product' \in [ProductId -> ProductRow \union {Unmade}] /\ taken' \in BOOLEAN
    BY <1>6, <2>1 DEF CommitProduct, ProductsShape
  <2> QED
    BY <1>6, <2>2, ReturnKeepsBase DEF CommitProduct, ProductsShape, OneRatio
<1>7. ASSUME NEW c \in Caller, CommitInbound(c)  PROVE ProductsBase'
  <2> DEFINE w == call[c]
  <2>1. /\ w.op = "in" /\ w.s \in Sku /\ w.unit \in UnitId /\ w.by \in UnitId
        /\ w.n \in Quantity /\ w.ratio \in Ratio \union {10000}
    BY <1>7, CallFields DEF CommitInbound, ProductsShape
  <2>2. CASE ~Measures(w.s, w.unit)
    BY <1>7, <2>2, ReturnKeepsBase DEF CommitInbound, ProductsShape, OneRatio
  <2>3. CASE Measures(w.s, w.unit)
    <3>1. PICK m, h : m = w.n * w.ratio /\ h = Rounded(w.n * w.ratio)
      OBVIOUS
    <3>2. /\ m \in Nat /\ h \in Nat
          /\ h * 100000 - m <= 50000 /\ m - h * 100000 <= 50000
      BY <2>1, <3>1, Amounts
    <3>3. /\ call' \in [Caller -> CallShape]
          /\ call'[c] = NoCall /\ \A d \in Caller \ {c} : call'[d] = call[d]
          /\ UNCHANGED crossed
      BY <1>7, ReturnsMeans DEF CommitInbound
    <3>4. /\ shelf' = [shelf EXCEPT ![w.s] = [unit |-> w.unit, quantity |-> @.quantity + h]]
          /\ measured' = measured \union {w.by}
          /\ exact' = [exact EXCEPT ![w.s] = @ + m]
          /\ bookings' = bookings + 1
          /\ UNCHANGED <<unit, product, rules, taken>>
      BY <1>7, <2>3, <3>1 DEF CommitInbound
    <3> HIDE DEF w
    <3>5. /\ \A s \in Sku : shelf[s].quantity \in Nat /\ exact[s] \in Int
          /\ bookings \in Nat
      BY DEF ProductsShape
    <3>6. /\ shelf' \in [Sku -> [unit : UnitId \union {NoUnit}, quantity : Nat]]
          /\ shelf'[w.s].quantity = shelf[w.s].quantity + h
          /\ \A s \in Sku \ {w.s} : shelf'[s] = shelf[s]
      BY <2>1, <3>2, <3>4, <3>5 DEF ProductsShape
    <3>7. /\ exact' \in [Sku -> Int] /\ exact'[w.s] = exact[w.s] + m
          /\ \A s \in Sku \ {w.s} : exact'[s] = exact[s]
      BY <2>1, <3>2, <3>4, <3>5 DEF ProductsShape
    <3>8. ProductsShape'
      BY <2>1, <3>3, <3>4, <3>5, <3>6, <3>7 DEF ProductsShape
    <3>9. RoundingBounded'
      <4> SUFFICES ASSUME NEW s \in Sku
                   PROVE  /\ -50000 * bookings' <= shelf'[s].quantity * 100000 - exact'[s]
                          /\ shelf'[s].quantity * 100000 - exact'[s] <= 50000 * bookings'
        BY DEF RoundingBounded
      <4>1. /\ -50000 * bookings <= shelf[s].quantity * 100000 - exact[s]
            /\ shelf[s].quantity * 100000 - exact[s] <= 50000 * bookings
        BY DEF RoundingBounded
      <4>2. CASE s = w.s
        BY <4>1, <4>2, <3>2, <3>4, <3>5, <3>6, <3>7
      <4>3. CASE s # w.s
        BY <4>1, <4>3, <3>4, <3>5, <3>6, <3>7
      <4> QED
        BY <4>2, <4>3
    <3>10. Booked'
      <4>1. call[c].op \in {"in", "out"} /\ call'[c].op \notin {"in", "out"}
        BY <2>1, <3>3 DEF w, NoCall
      <4>2. /\ Cardinality(Booking) \in Nat /\ Cardinality(Booking') \in Nat
            /\ Cardinality(Booking') = Cardinality(Booking) - 1
        BY <3>3, <4>1, BookingCount
      <4> QED
        BY <4>2, <3>4, <3>5, ProductsAssumption DEF Booked
    <3>11. SetsSound' /\ DropsARow' /\ OneRatio'
      BY <3>3, <3>4 DEF SetsSound, DropsARow, OneRatio, NoCall
    <3> QED
      BY <3>8, <3>9, <3>10, <3>11
  <2> QED
    BY <2>2, <2>3
<1>8. ASSUME NEW c \in Caller, CommitOutbound(c)  PROVE ProductsBase'
  <2> DEFINE w == call[c]
  <2>1. w.op = "out" /\ w.s \in Sku /\ w.unit \in UnitId /\ w.n \in Quantity
    BY <1>8, CallFields DEF CommitOutbound, ProductsShape
  <2>2. CASE ~Enough(w.s, w.unit, w.n)
    BY <1>8, <2>2, ReturnKeepsBase DEF CommitOutbound, ProductsShape, OneRatio
  <2>3. CASE Enough(w.s, w.unit, w.n)
    <3> DEFINE n == w.n
               h == Rounded(shelf[w.s].quantity * 100000 - w.n * 10000)
    <3>1. n = w.n /\ h = Rounded(shelf[w.s].quantity * 100000 - w.n * 10000)
      OBVIOUS
    <3>2. n \in Nat
      BY <2>1, ProductsAssumption
    <3>3. /\ call' \in [Caller -> CallShape]
          /\ call'[c] = NoCall /\ \A d \in Caller \ {c} : call'[d] = call[d]
          /\ UNCHANGED crossed
      BY <1>8, ReturnsMeans DEF CommitOutbound
    <3>4. /\ shelf' = [shelf EXCEPT ![w.s].quantity = h]
          /\ measured' = measured \union {w.unit}
          /\ exact' = [exact EXCEPT ![w.s] = @ - n * 10000]
          /\ bookings' = bookings + 1
          /\ UNCHANGED <<unit, product, rules, taken>>
      BY <1>8, <2>1, <2>3, <3>1 DEF CommitOutbound, ProductsShape
    <3>e. shelf[w.s].quantity * 10 >= n
      BY <2>3, <3>1 DEF Enough
    <3> HIDE DEF w
    <3>5. /\ \A s \in Sku : shelf[s].quantity \in Nat /\ exact[s] \in Int
          /\ bookings \in Nat
      BY DEF ProductsShape
    <3>r. /\ h \in Nat
          /\ h * 100000 - (shelf[w.s].quantity * 100000 - n * 10000) <= 50000
          /\ (shelf[w.s].quantity * 100000 - n * 10000) - h * 100000 <= 50000
      <4> DEFINE m == shelf[w.s].quantity * 100000 - n * 10000
      <4>1. m \in Nat
        BY <2>1, <3>2, <3>e, <3>5
      <4>2. h = Rounded(m)
        BY <3>1
      <4> QED
        BY <4>1, <4>2, RoundsNear
    <3>6. /\ shelf' \in [Sku -> [unit : UnitId \union {NoUnit}, quantity : Nat]]
          /\ shelf'[w.s].quantity = h
          /\ \A s \in Sku \ {w.s} : shelf'[s] = shelf[s]
      BY <2>1, <3>r, <3>4, <3>5 DEF ProductsShape
    <3>7. /\ exact' \in [Sku -> Int] /\ exact'[w.s] = exact[w.s] - n * 10000
          /\ \A s \in Sku \ {w.s} : exact'[s] = exact[s]
      BY <2>1, <3>2, <3>4, <3>5 DEF ProductsShape
    <3>8. ProductsShape'
      BY <2>1, <3>3, <3>4, <3>5, <3>6, <3>7 DEF ProductsShape
    <3>9. RoundingBounded'
      <4> SUFFICES ASSUME NEW s \in Sku
                   PROVE  /\ -50000 * bookings' <= shelf'[s].quantity * 100000 - exact'[s]
                          /\ shelf'[s].quantity * 100000 - exact'[s] <= 50000 * bookings'
        BY DEF RoundingBounded
      <4>1. /\ -50000 * bookings <= shelf[s].quantity * 100000 - exact[s]
            /\ shelf[s].quantity * 100000 - exact[s] <= 50000 * bookings
        BY DEF RoundingBounded
      <4>2. CASE s = w.s
        BY <2>1, <4>1, <4>2, <3>2, <3>r, <3>4, <3>5, <3>6, <3>7
      <4>3. CASE s # w.s
        BY <4>1, <4>3, <3>4, <3>5, <3>6, <3>7
      <4> QED
        BY <4>2, <4>3
    <3>10. Booked'
      <4>1. call[c].op \in {"in", "out"} /\ call'[c].op \notin {"in", "out"}
        BY <2>1, <3>3 DEF w, NoCall
      <4>2. /\ Cardinality(Booking) \in Nat /\ Cardinality(Booking') \in Nat
            /\ Cardinality(Booking') = Cardinality(Booking) - 1
        BY <3>3, <4>1, BookingCount
      <4> QED
        BY <4>2, <3>4, <3>5, ProductsAssumption DEF Booked
    <3>11. SetsSound' /\ DropsARow' /\ OneRatio'
      BY <3>3, <3>4 DEF SetsSound, DropsARow, OneRatio, NoCall
    <3> QED
      BY <3>8, <3>9, <3>10, <3>11
  <2> QED
    BY <2>2, <2>3
<1>9. ASSUME NEW p \in ProductId, NEW on \in BOOLEAN, UpdateProductStatus(p, on)
      PROVE  ProductsBase'
  <2>1. product[p] \in ProductRow
    BY <1>9, LiveRows DEF UpdateProductStatus
  <2>2. \A x \in ProductRow : [x EXCEPT !.active = on] \in ProductRow
    BY DEF ProductRow
  <2>3. product' \in [ProductId -> ProductRow \union {Unmade}]
    BY <1>9, <2>1, <2>2 DEF UpdateProductStatus, ProductsShape
  <2> QED
    BY <1>9, <2>3 DEF UpdateProductStatus, ProductsShape, Booked, Booking, SetsSound, DropsARow,
                      OneRatio, RoundingBounded
<1>10. ASSUME NEW p \in ProductId, DeleteProduct(p)  PROVE ProductsBase'
  <2>1. product[p] \in ProductRow
    BY <1>10, LiveRows DEF DeleteProduct
  <2>2. \A x \in ProductRow : [x EXCEPT !.row = "gone"] \in ProductRow
    BY DEF ProductRow
  <2>3. product' \in [ProductId -> ProductRow \union {Unmade}]
    BY <1>10, <2>1, <2>2 DEF DeleteProduct, ProductsShape
  <2> QED
    BY <1>10, <2>3 DEF DeleteProduct, ProductsShape, Booked, Booking, SetsSound, DropsARow,
                      OneRatio, RoundingBounded
<1>11. CASE UNCHANGED productVars
  BY <1>11 DEF productVars, ProductsShape, Booked, Booking, SetsSound, DropsARow,
               OneRatio, RoundingBounded
<1> QED
  BY <1>1, <1>2, <1>3, <1>4, <1>5, <1>6, <1>7, <1>8, <1>9, <1>10, <1>11, NextOf

LEMMA ProductsStarts == ASSUME IsFiniteSet(Caller), ProductsInit  PROVE ProductsBase
<1>0. /\ \A c \in Caller : call[c] = NoCall /\ call[c].op = "none"
      /\ \A s \in Sku : shelf[s].quantity = 0 /\ exact[s] = 0
      /\ rules = {} /\ bookings = 0
  BY DEF ProductsInit, NoCall, NoShelf
<1>1. ProductsShape
  <2>1. NoCall \in CallShape /\ NoShelf \in [unit : UnitId \union {NoUnit}, quantity : Nat]
    BY DEF CallShape, NoShelf
  <2>2. /\ unit \in [UnitId -> UnitRow \union {Unmade}]
        /\ product \in [ProductId -> ProductRow \union {Unmade}]
    BY DEF ProductsInit
  <2>3. shelf \in [Sku -> [unit : UnitId \union {NoUnit}, quantity : Nat]]
    BY <2>1 DEF ProductsInit
  <2>4. call \in [Caller -> CallShape]
    BY <2>1 DEF ProductsInit
  <2>5. rules \subseteq Rule /\ measured \subseteq UnitId /\ crossed \subseteq {"codes", "units"}
    BY DEF ProductsInit
  <2>6. exact \in [Sku -> Int] /\ bookings \in Nat
    BY DEF ProductsInit
  <2>7. taken \in BOOLEAN
    BY DEF ProductsInit
  <2> QED
    BY <2>2, <2>3, <2>4, <2>5, <2>6, <2>7 DEF ProductsShape
<1>4. DropsARow /\ SetsSound /\ OneRatio /\ RoundingBounded
  BY <1>0 DEF DropsARow, SetsSound, OneRatio, RoundingBounded
<1>2. Booking = {}
  BY DEF Booking, ProductsInit, NoCall
<1>3. Booked
  BY <1>2, FS_EmptySet, ProductsAssumption DEF Booked, ProductsInit
<1> QED
  BY <1>1, <1>3, <1>4 DEF ProductsBase

-----------------------------------------------------------------------------
(* Products: what requests in flight have seen *)

\* The codes that are to be written are free.
\* No other unit of u's side has code k.
FreeBeside(k, u) ==
  \A v \in UnitId \ {u} : LiveUnit(v) /\ (u \in OwnUnits) = (v \in OwnUnits) => unit[v].code # k

UnitsFree == \A c \in Caller : call[c].op = "unit" => FreeBeside(call[c].copy.code, call[c].u)
SkusFree ==
  \A c \in Caller : call[c].op = "product" =>
    SkuFree(call[c].copy.code, call[c].copy.barcode, call[c].p)

SkusDiffer ==
  \A p, q \in ProductId : (p # q /\ LiveProduct(p) /\ LiveProduct(q)) =>
    product[p].code # product[q].code

UnitsDiffer ==
  \A u, v \in UnitId :
    (u # v /\ LiveUnit(u) /\ LiveUnit(v) /\ (u \in OwnUnits) = (v \in OwnUnits)) =>
      unit[u].code # unit[v].code

\* One save of a kind at a time.
OneSaves ==
  \A c, d \in Caller :
    call[c].op \in {"unit", "product"} /\ call[d].op = call[c].op => c = d

NamesInv ==
  "codes" \notin crossed => OneSaves /\ UnitsFree /\ SkusFree /\ SkusDiffer /\ UnitsDiffer

\* While a booking is in flight no product is saved and no unit deleted.
Apart ==
  /\ \A c, d \in Caller : call[c].op = "product" /\ call[d].op = "product" => c = d
  /\ \A c, d \in Caller : call[c].op \in {"product", "dropUnit"} => call[d].op # "in"

\* A booking's product is still measured as it was read, and alone under its code.
BookingsSee ==
  \A c \in Caller : call[c].op = "in" =>
    /\ LiveUnit(call[c].unit)
    /\ product[call[c].p] # Unmade
    /\ product[call[c].p].code = call[c].s /\ product[call[c].p].unit = call[c].unit
    /\ \A q \in ProductId : LiveProduct(q) /\ product[q].code = call[c].s => q = call[c].p

\* A unit that is being deleted measures nothing.
DropsSee ==
  \A c \in Caller : call[c].op = "dropUnit" /\ call[c].u \in OwnUnits =>
    \A s \in Sku : shelf[s].unit # call[c].u

\* Where the unit of a product is being changed there is no stock.
CopiesSee ==
  \A c \in Caller : call[c].op = "product" =>
    (LiveProduct(call[c].p) /\ call[c].copy.unit # product[call[c].p].unit
       => Unstocked(product[call[c].p].code))

\* No unit is saved as deleted.
CopiesLive == \A c \in Caller : call[c].op = "unit" => call[c].copy.row = "live"

UnitsLive == \A s \in Sku : shelf[s].unit \in OwnUnits => LiveUnit(shelf[s].unit)

StockFits ==
  \A p \in ProductId : LiveProduct(p) => Measures(product[p].code, product[p].unit)

MeasureInv ==
  "units" \notin crossed =>
    /\ Apart /\ SkusFree /\ SkusDiffer /\ CopiesLive
    /\ BookingsSee /\ DropsSee /\ CopiesSee /\ UnitsLive
    /\ ~taken => StockFits

LEMMA CallKeepsNames ==
  ASSUME ProductsShape, NamesInv, NEW c \in Caller, NEW r \in CallShape, Calls(c, r), Grounds(r)
  PROVE  NamesInv'
<1> SUFFICES ASSUME "codes" \notin crossed'
             PROVE  OneSaves' /\ UnitsFree' /\ SkusFree' /\ SkusDiffer' /\ UnitsDiffer'
  BY DEF NamesInv
<1>1. /\ call[c] = NoCall
      /\ call'[c] = r /\ \A d \in Caller \ {c} : call'[d] = call[d]
      /\ crossed \subseteq crossed'
      /\ \A d \in Caller : Crossing(r, call[d]) \subseteq crossed'
      /\ UNCHANGED <<unit, product>>
  BY CallsMeans
<1>2. OneSaves /\ UnitsFree /\ SkusFree /\ SkusDiffer /\ UnitsDiffer
  BY <1>1 DEF NamesInv
<1>3. \A d \in Caller : r.op \in {"unit", "product"} => call[d].op # r.op
  BY <1>1, CrossingCodes
<1>4. OneSaves'
  <2> SUFFICES ASSUME NEW d \in Caller, NEW e \in Caller,
                      call'[d].op \in {"unit", "product"}, call'[e].op = call'[d].op
               PROVE  d = e
    BY DEF OneSaves
  <2> QED
    BY <1>1, <1>2, <1>3 DEF OneSaves
<1>5. UnitsFree'
  BY <1>1, <1>2 DEF UnitsFree, UnitsDiffer, Grounds, FreeBeside, UnitCodeFree, LiveUnit
<1>6. SkusFree'
  BY <1>1, <1>2 DEF SkusFree, Grounds, SkuFree, LiveProduct
<1>7. SkusDiffer' /\ UnitsDiffer'
  BY <1>1, <1>2 DEF SkusDiffer, UnitsDiffer, LiveProduct, LiveUnit
<1> QED
  BY <1>4, <1>5, <1>6, <1>7

\* A step that takes no code for a unit or a product leaves what was free free.
LEMMA QuietNames ==
  ASSUME ProductsShape, NamesInv, crossed \subseteq crossed',
         \A c \in Caller : call'[c].op \in {"unit", "product"} => call'[c] = call[c],
         \A u \in UnitId : LiveUnit(u)' => LiveUnit(u) /\ unit'[u].code = unit[u].code,
         \A p \in ProductId : LiveProduct(p)' =>
           LiveProduct(p) /\ product'[p].code = product[p].code
             /\ product'[p].barcode = product[p].barcode
  PROVE  NamesInv'
<1> SUFFICES ASSUME "codes" \notin crossed'
             PROVE  OneSaves' /\ UnitsFree' /\ SkusFree' /\ SkusDiffer' /\ UnitsDiffer'
  BY DEF NamesInv
<1>2. OneSaves /\ UnitsFree /\ SkusFree /\ SkusDiffer /\ UnitsDiffer
  BY DEF NamesInv
<1>4. OneSaves'
  <2> SUFFICES ASSUME NEW d \in Caller, NEW e \in Caller,
                      call'[d].op \in {"unit", "product"}, call'[e].op = call'[d].op
               PROVE  d = e
    BY DEF OneSaves
  <2> QED
    BY <1>2 DEF OneSaves
<1>5. UnitsFree'
  <2> SUFFICES ASSUME NEW c \in Caller, call'[c].op = "unit",
                      NEW v \in UnitId \ {call'[c].u}, LiveUnit(v)',
                      (call'[c].u \in OwnUnits) = (v \in OwnUnits)
               PROVE  unit'[v].code # call'[c].copy.code
    BY DEF UnitsFree, FreeBeside
  <2> QED
    BY <1>2 DEF UnitsFree, FreeBeside
<1>6. SkusFree'
  <2> SUFFICES ASSUME NEW c \in Caller, call'[c].op = "product",
                      NEW q \in ProductId \ {call'[c].p}, LiveProduct(q)'
               PROVE  product'[q].code # call'[c].copy.code /\ product'[q].barcode # call'[c].copy.barcode
    BY DEF SkusFree, SkuFree
  <2> QED
    BY <1>2 DEF SkusFree, SkuFree
<1>7. SkusDiffer'
  BY <1>2 DEF SkusDiffer
<1>8. UnitsDiffer'
  BY <1>2 DEF UnitsDiffer
<1> QED
  BY <1>4, <1>5, <1>6, <1>7, <1>8

LEMMA NamesStep ==
  ASSUME ProductsShape, NamesInv, [ProductsNext]_productVars
  PROVE  NamesInv'
<1>1. ASSUME NEW c \in Caller, ComesIn(c)  PROVE NamesInv'
  BY <1>1, ComesWithGrounds, CallKeepsNames
<1>r. ASSUME NEW c \in Caller, Returns(c)
      PROVE  /\ crossed' = crossed /\ call'[c] = NoCall /\ call'[c].op = "none"
             /\ \A d \in Caller \ {c} : call'[d] = call[d]
             /\ \A d \in Caller : call'[d].op \in {"unit", "product"} => d # c /\ call'[d] = call[d]
  BY <1>r, ReturnsMeans DEF NoCall
<1>2. ASSUME NEW c \in Caller, CommitUnit(c)  PROVE NamesInv'
  <2> SUFFICES ASSUME "codes" \notin crossed'
               PROVE  OneSaves' /\ UnitsFree' /\ SkusFree' /\ SkusDiffer' /\ UnitsDiffer'
    BY DEF NamesInv
  <2>1. call[c].op = "unit" /\ call[c].u \in UnitId /\ call[c].copy \in UnitRow
    BY <1>2, CallFields DEF CommitUnit, ProductsShape
  <2>2. OneSaves /\ UnitsFree /\ SkusFree /\ SkusDiffer /\ UnitsDiffer
    BY <1>2, <1>r DEF NamesInv, CommitUnit
  <2>3. /\ \A d \in Caller : call'[d].op \in {"unit", "product"} => d # c /\ call'[d] = call[d]
        /\ \A d \in Caller : call'[d].op # "unit"
    <3>1. \A d \in Caller : call'[d].op \in {"unit", "product"} => d # c /\ call'[d] = call[d]
      BY <1>2, <1>r DEF CommitUnit
    <3> QED
      BY <3>1, <2>1, <2>2 DEF OneSaves
  <2>4. OneSaves' /\ UnitsFree'
    BY <2>2, <2>3 DEF OneSaves, UnitsFree
  <2>5. product' = product
    BY <1>2 DEF CommitUnit
  <2>6. SkusFree' /\ SkusDiffer'
    BY <2>2, <2>3, <2>5 DEF SkusFree, SkuFree, SkusDiffer, LiveProduct
  <2>7. UnitsDiffer'
    <3>1. FreeBeside(call[c].copy.code, call[c].u)
      BY <2>1, <2>2 DEF UnitsFree
    <3>2. /\ unit'[call[c].u] = call[c].copy
          /\ \A v \in UnitId \ {call[c].u} : unit'[v] = unit[v]
      BY <1>2, <2>1 DEF CommitUnit, ProductsShape
    <3> SUFFICES ASSUME NEW u \in UnitId, NEW v \in UnitId, u # v, LiveUnit(u)', LiveUnit(v)',
                        (u \in OwnUnits) = (v \in OwnUnits)
                 PROVE  unit'[u].code # unit'[v].code
      BY DEF UnitsDiffer
    <3>3. CASE u # call[c].u /\ v # call[c].u
      BY <3>2, <3>3, <2>2 DEF UnitsDiffer, LiveUnit
    <3>4. CASE u = call[c].u
      BY <3>1, <3>2, <3>4 DEF FreeBeside, LiveUnit
    <3>5. CASE v = call[c].u
      BY <3>1, <3>2, <3>5 DEF FreeBeside, LiveUnit
    <3> QED
      BY <3>3, <3>4, <3>5
  <2> QED
    BY <2>4, <2>6, <2>7
<1>3. ASSUME NEW c \in Caller, CommitRemoveUnit(c)  PROVE NamesInv'
  <2>1. \A u \in UnitId : LiveUnit(u)' => LiveUnit(u) /\ unit'[u].code = unit[u].code
    <3>1. call[c].u \in UnitId
      BY <1>3, CallFields DEF CommitRemoveUnit, ProductsShape
    <3>2. /\ unit'[call[c].u] = [unit[call[c].u] EXCEPT !.row = "gone"]
          /\ \A v \in UnitId \ {call[c].u} : unit'[v] = unit[v]
      BY <1>3, <3>1 DEF CommitRemoveUnit, ProductsShape
    <3>3. unit'[call[c].u].row # "live"
      BY <3>1, <3>2 DEF ProductsShape, UnitRow, Unmade
    <3> QED
      BY <3>2, <3>3 DEF LiveUnit
  <2> QED
    BY <1>3, <2>1, <1>r, QuietNames DEF CommitRemoveUnit, LiveProduct
<1>4. ASSUME NEW c \in Caller, ClearRules(c)  PROVE NamesInv'
  <2>1. call[c].op = "clear" /\ call[c] \in CallShape
    BY <1>4 DEF ClearRules, ProductsShape
  <2>2. [call[c] EXCEPT !.op = "fill"].op = "fill"
    BY <2>1 DEF CallShape, NoCall
  <2>3. \A d \in Caller : call'[d].op \in {"unit", "product"} => call'[d] = call[d]
    BY <1>4, <2>2 DEF ClearRules, ProductsShape
  <2> QED
    BY <1>4, <2>3, QuietNames DEF ClearRules, LiveUnit, LiveProduct
<1>5. ASSUME NEW c \in Caller, FillRules(c) \/ CommitInbound(c) \/ CommitOutbound(c)
      PROVE  NamesInv'
  <2>1. Returns(c) /\ UNCHANGED <<unit, product>>
    BY <1>5 DEF FillRules, CommitInbound, CommitOutbound
  <2> QED
    BY <2>1, <1>r, QuietNames DEF LiveUnit, LiveProduct
<1>6. ASSUME NEW c \in Caller, CommitProduct(c)  PROVE NamesInv'
  <2> SUFFICES ASSUME "codes" \notin crossed'
               PROVE  OneSaves' /\ UnitsFree' /\ SkusFree' /\ SkusDiffer' /\ UnitsDiffer'
    BY DEF NamesInv
  <2>1. call[c].op = "product" /\ call[c].p \in ProductId /\ call[c].copy \in ProductRow
    BY <1>6, CallFields DEF CommitProduct, ProductsShape
  <2>2. OneSaves /\ UnitsFree /\ SkusFree /\ SkusDiffer /\ UnitsDiffer
    BY <1>6, <1>r DEF NamesInv, CommitProduct
  <2>3. /\ \A d \in Caller : call'[d].op \in {"unit", "product"} => d # c /\ call'[d] = call[d]
        /\ \A d \in Caller : call'[d].op # "product"
    <3>1. \A d \in Caller : call'[d].op \in {"unit", "product"} => d # c /\ call'[d] = call[d]
      BY <1>6, <1>r DEF CommitProduct
    <3> QED
      BY <3>1, <2>1, <2>2 DEF OneSaves
  <2>4. OneSaves' /\ SkusFree'
    BY <2>2, <2>3 DEF OneSaves, SkusFree
  <2>5. unit' = unit
    BY <1>6 DEF CommitProduct
  <2>6. UnitsFree' /\ UnitsDiffer'
    BY <2>2, <2>3, <2>5 DEF UnitsFree, FreeBeside, UnitsDiffer, LiveUnit
  <2>7. SkusDiffer'
    <3>1. SkuFree(call[c].copy.code, call[c].copy.barcode, call[c].p)
      BY <2>1, <2>2 DEF SkusFree
    <3>2. product' \in {product, [product EXCEPT ![call[c].p] = call[c].copy]}
      BY <1>6 DEF CommitProduct
    <3>3. /\ product'[call[c].p] \in {product[call[c].p], call[c].copy}
          /\ product'[call[c].p] = product[call[c].p] => product' = product
          /\ \A q \in ProductId \ {call[c].p} : product'[q] = product[q]
      BY <3>2, <2>1 DEF ProductsShape
    <3>4. CASE product' = product
      BY <3>4, <2>2 DEF SkusDiffer, LiveProduct
    <3>5. CASE product'[call[c].p] = call[c].copy
      <4> SUFFICES ASSUME NEW u \in ProductId, NEW v \in ProductId, u # v,
                          LiveProduct(u)', LiveProduct(v)'
                   PROVE  product'[u].code # product'[v].code
        BY DEF SkusDiffer
      <4>3. CASE u # call[c].p /\ v # call[c].p
        BY <3>3, <4>3, <2>2 DEF SkusDiffer, LiveProduct
      <4>4. CASE u = call[c].p
        BY <3>1, <3>3, <3>5, <4>4 DEF SkuFree, LiveProduct
      <4>5. CASE v = call[c].p
        BY <3>1, <3>3, <3>5, <4>5 DEF SkuFree, LiveProduct
      <4> QED
        BY <4>3, <4>4, <4>5
    <3> QED
      BY <3>3, <3>4, <3>5
  <2> QED
    BY <2>4, <2>6, <2>7
<1>7. ASSUME NEW p \in ProductId, NEW on \in BOOLEAN, UpdateProductStatus(p, on)
      PROVE  NamesInv'
  <2>1. \A q \in ProductId : LiveProduct(q)' =>
           LiveProduct(q) /\ product'[q].code = product[q].code
             /\ product'[q].barcode = product[q].barcode
    BY <1>7, LiveRows DEF UpdateProductStatus, ProductsShape, ProductRow, LiveProduct
  <2> QED
    BY <1>7, <2>1, QuietNames DEF UpdateProductStatus, LiveUnit
<1>8. ASSUME NEW p \in ProductId, DeleteProduct(p)
      PROVE  NamesInv'
  <2>1. \A q \in ProductId : LiveProduct(q)' =>
           LiveProduct(q) /\ product'[q].code = product[q].code
             /\ product'[q].barcode = product[q].barcode
    BY <1>8, LiveRows DEF DeleteProduct, ProductsShape, ProductRow, LiveProduct
  <2> QED
    BY <1>8, <2>1, QuietNames DEF DeleteProduct, LiveUnit
<1>9. CASE UNCHANGED productVars
  BY <1>9, QuietNames DEF productVars, LiveUnit, LiveProduct
<1> QED
  BY <1>1, <1>2, <1>3, <1>4, <1>5, <1>6, <1>7, <1>8, <1>9, NextOf

\* What MeasureInv says while nothing crossed.
Uncrossed ==
  /\ Apart /\ SkusFree /\ SkusDiffer /\ CopiesLive
  /\ BookingsSee /\ DropsSee /\ CopiesSee /\ UnitsLive
  /\ ~taken => StockFits

LEMMA MeasureInvIs == MeasureInv <=> ("units" \notin crossed => Uncrossed)
BY DEF MeasureInv, Uncrossed

\* A row that is not deleted is one.
LEMMA LiveIsMade ==
  ASSUME NEW p \in ProductId, LiveProduct(p)
  PROVE  product[p] # Unmade
BY DEF LiveProduct, Unmade

LEMMA CallKeepsMeasures ==
  ASSUME ProductsShape, MeasureInv, NEW c \in Caller, NEW r \in CallShape, Calls(c, r), Grounds(r)
  PROVE  MeasureInv'
<1> SUFFICES ASSUME "units" \notin crossed'  PROVE Uncrossed'
  BY DEF MeasureInv, Uncrossed
<1>1. /\ call[c] = NoCall
      /\ call'[c] = r /\ \A d \in Caller \ {c} : call'[d] = call[d]
      /\ crossed \subseteq crossed'
      /\ \A d \in Caller : Crossing(r, call[d]) \subseteq crossed'
      /\ UNCHANGED <<unit, product, shelf, taken>>
  BY CallsMeans
<1>2. Uncrossed
  BY <1>1, MeasureInvIs
<1>3. \A d \in Caller :
        /\ r.op = "product" => call[d].op \notin {"product", "in"}
        /\ r.op = "in" => call[d].op \notin {"product", "dropUnit"}
        /\ r.op = "dropUnit" => call[d].op # "in"
  BY <1>1, CrossingUnits
<1>4. Apart'
  BY <1>1, <1>2, <1>3 DEF Apart, Uncrossed
<1>5. SkusFree' /\ CopiesLive'
  BY <1>1, <1>2 DEF SkusFree, CopiesLive, Uncrossed, Grounds, SkuFree, LiveProduct
<1>6. SkusDiffer' /\ UnitsLive' /\ (~taken' => StockFits')
  BY <1>1, <1>2 DEF SkusDiffer, UnitsLive, StockFits, Uncrossed, LiveProduct, LiveUnit, Measures
<1>7. BookingsSee'
  <2> SUFFICES ASSUME NEW d \in Caller, call'[d].op = "in"
               PROVE  /\ LiveUnit(call'[d].unit)
                      /\ product[call'[d].p] # Unmade
                      /\ product[call'[d].p].code = call'[d].s
                      /\ product[call'[d].p].unit = call'[d].unit
                      /\ \A q \in ProductId :
                           LiveProduct(q) /\ product[q].code = call'[d].s => q = call'[d].p
    BY <1>1 DEF BookingsSee, LiveProduct, LiveUnit
  <2>1. CASE d = c
    <3>1. r.op = "in" /\ r.p \in ProductId
      BY <2>1, <1>1, CallFields
    <3>2. /\ LiveProduct(r.p) /\ product[r.p].code = r.s /\ product[r.p].unit = r.unit
          /\ LiveUnit(r.unit)
      BY <3>1 DEF Grounds
    <3>3. \A q \in ProductId : LiveProduct(q) /\ product[q].code = r.s => q = r.p
      BY <3>1, <3>2, <1>2 DEF Uncrossed, SkusDiffer
    <3> QED
      BY <3>1, <3>2, <3>3, <2>1, <1>1, LiveIsMade
  <2>2. CASE d # c
    BY <2>2, <1>1, <1>2 DEF BookingsSee, Uncrossed
  <2> QED
    BY <2>1, <2>2
<1>8. DropsSee'
  BY <1>1, <1>2 DEF DropsSee, Uncrossed, Grounds, Used
<1>9. CopiesSee'
  BY <1>1, <1>2 DEF CopiesSee, Uncrossed, Grounds, Unstocked, LiveProduct
<1> QED
  BY <1>4, <1>5, <1>6, <1>7, <1>8, <1>9 DEF Uncrossed

\* A step that saves no product, deletes no unit and leaves measures as they are.
LEMMA QuietMeasures ==
  ASSUME ProductsShape, MeasureInv, crossed \subseteq crossed', taken => taken',
         \A c \in Caller : call'[c].op \in {"unit", "product", "in", "dropUnit"} => call'[c] = call[c],
         \A s \in Sku : shelf'[s].unit = shelf[s].unit,
         \A u \in UnitId : LiveUnit(u) => LiveUnit(u)',
         \A p \in ProductId : product[p] # Unmade =>
           /\ product'[p] # Unmade
           /\ product'[p].code = product[p].code /\ product'[p].unit = product[p].unit
           /\ product'[p].barcode = product[p].barcode,
         \A p \in ProductId : LiveProduct(p)' => LiveProduct(p)
  PROVE  MeasureInv'
<1> SUFFICES ASSUME "units" \notin crossed'  PROVE Uncrossed'
  BY DEF MeasureInv, Uncrossed
<1>2. Uncrossed
  BY MeasureInvIs
<1>3. \A p \in ProductId : LiveProduct(p)' =>
        /\ LiveProduct(p) /\ product[p] \in ProductRow
        /\ product'[p].code = product[p].code /\ product'[p].unit = product[p].unit
        /\ product'[p].barcode = product[p].barcode
  BY LiveRows, LiveIsMade
<1>4. Apart' /\ CopiesLive'
  BY <1>2 DEF Apart, CopiesLive, Uncrossed
<1>5. SkusFree'
  <2> SUFFICES ASSUME NEW c \in Caller, call'[c].op = "product",
                      NEW q \in ProductId \ {call'[c].p}, LiveProduct(q)'
               PROVE  product'[q].code # call'[c].copy.code /\ product'[q].barcode # call'[c].copy.barcode
    BY DEF SkusFree, SkuFree
  <2> QED
    BY <1>2, <1>3 DEF SkusFree, SkuFree, Uncrossed
<1>6. SkusDiffer'
  BY <1>2, <1>3 DEF SkusDiffer, Uncrossed
<1>7. UnitsLive'
  <2> SUFFICES ASSUME NEW s \in Sku, shelf'[s].unit \in OwnUnits
               PROVE  unit'[shelf'[s].unit].row = "live"
    BY DEF UnitsLive, LiveUnit
  <2> DEFINE u == shelf'[s].unit
  <2>1. u = shelf[s].unit /\ u \in UnitId
    BY ProductsAssumption
  <2>2. LiveUnit(u)
    BY <2>1, <1>2 DEF UnitsLive, Uncrossed
  <2> QED
    BY <2>1, <2>2 DEF LiveUnit
<1>8. ASSUME ~taken'  PROVE StockFits'
  <2> SUFFICES ASSUME NEW p \in ProductId, LiveProduct(p)'
               PROVE  shelf'[product'[p].code].unit \in {NoUnit, product'[p].unit}
    BY DEF StockFits, Measures
  <2>1. product[p].code \in Sku /\ product'[p].code = product[p].code
    BY <1>3 DEF ProductRow
  <2> QED
    BY <2>1, <1>8, <1>2, <1>3 DEF StockFits, Measures, Uncrossed
<1>9. BookingsSee'
  <2> SUFFICES ASSUME NEW d \in Caller, call'[d].op = "in"
               PROVE  /\ unit'[call'[d].unit].row = "live"
                      /\ product'[call'[d].p] # Unmade
                      /\ product'[call'[d].p].code = call'[d].s
                      /\ product'[call'[d].p].unit = call'[d].unit
                      /\ \A q \in ProductId :
                           LiveProduct(q)' /\ product'[q].code = call'[d].s => q = call'[d].p
    BY DEF BookingsSee, LiveUnit, LiveProduct
  <2>1. call'[d] = call[d] /\ call[d].op = "in"
    OBVIOUS
  <2>2. call[d].p \in ProductId /\ call[d].unit \in UnitId
    BY <2>1, CallFields DEF ProductsShape
  <2>3. /\ LiveUnit(call[d].unit)
        /\ product[call[d].p] # Unmade
        /\ product[call[d].p].code = call[d].s /\ product[call[d].p].unit = call[d].unit
        /\ \A q \in ProductId : LiveProduct(q) /\ product[q].code = call[d].s => q = call[d].p
    BY <2>1, <1>2 DEF Uncrossed, BookingsSee
  <2> DEFINE u == call[d].unit
  <2>4. u \in UnitId /\ LiveUnit(u) /\ call'[d].unit = u
    BY <2>1, <2>2, <2>3
  <2>6. unit'[call'[d].unit].row = "live"
    BY <2>4 DEF LiveUnit
  <2> QED
    BY <2>1, <2>2, <2>3, <2>6, <1>3
<1>10. DropsSee'
  BY <1>2 DEF DropsSee, Uncrossed
<1>11. CopiesSee'
  <2> SUFFICES ASSUME NEW c \in Caller, call'[c].op = "product",
                      product'[call'[c].p].row = "live",
                      call'[c].copy.unit # product'[call'[c].p].unit
               PROVE  shelf'[product'[call'[c].p].code].unit = NoUnit
    BY DEF CopiesSee, Unstocked, LiveProduct
  <2>1. call'[c] = call[c] /\ call[c].op = "product"
    OBVIOUS
  <2> DEFINE p == call[c].p
  <2>2. p \in ProductId /\ p = call'[c].p
    BY <2>1, CallFields DEF ProductsShape
  <2>3. LiveProduct(p)'
    BY <2>2 DEF LiveProduct
  <2>4. /\ LiveProduct(p) /\ product[p].code \in Sku
        /\ product'[p].code = product[p].code /\ product'[p].unit = product[p].unit
    BY <2>2, <2>3, <1>3 DEF ProductRow
  <2>5. shelf[product[p].code].unit = NoUnit
    BY <2>1, <2>2, <2>4, <1>2 DEF CopiesSee, Unstocked, Uncrossed
  <2> QED
    BY <2>2, <2>4, <2>5
<1> QED
  BY <1>4, <1>5, <1>6, <1>7, <1>8, <1>9, <1>10, <1>11 DEF Uncrossed

LEMMA MeasureStep ==
  ASSUME ProductsShape, DropsARow, MeasureInv, [ProductsNext]_productVars
  PROVE  MeasureInv'
<1>1. ASSUME NEW c \in Caller, ComesIn(c)  PROVE MeasureInv'
  BY <1>1, ComesWithGrounds, CallKeepsMeasures
<1>r. ASSUME NEW c \in Caller, Returns(c)
      PROVE  /\ crossed' = crossed /\ call'[c] = NoCall /\ call'[c].op = "none"
             /\ \A d \in Caller \ {c} : call'[d] = call[d]
             /\ \A d \in Caller : call'[d].op \in {"unit", "product", "in", "dropUnit"} =>
                  d # c /\ call'[d] = call[d]
  BY <1>r, ReturnsMeans DEF NoCall
<1>s. ASSUME UNCHANGED product
      PROVE  /\ \A p \in ProductId : product[p] # Unmade =>
                  /\ product'[p] # Unmade
                  /\ product'[p].code = product[p].code /\ product'[p].unit = product[p].unit
                  /\ product'[p].barcode = product[p].barcode
             /\ \A p \in ProductId : LiveProduct(p)' => LiveProduct(p)
  BY <1>s DEF LiveProduct
<1>2. ASSUME NEW c \in Caller, CommitUnit(c)  PROVE MeasureInv'
  <2>1. call[c].op = "unit" /\ call[c].u \in UnitId /\ call[c].copy \in UnitRow
    BY <1>2, CallFields DEF CommitUnit, ProductsShape
  <2>2. CASE "units" \in crossed
    BY <2>2, <1>2, <1>r DEF MeasureInv, CommitUnit
  <2>3. CASE "units" \notin crossed
    <3>1. call[c].copy.row = "live"
      BY <2>1, <2>3, MeasureInvIs DEF Uncrossed, CopiesLive
    <3>2. \A u \in UnitId : LiveUnit(u) => LiveUnit(u)'
      BY <1>2, <2>1, <3>1 DEF CommitUnit, LiveUnit, ProductsShape
    <3>3. Returns(c) /\ UNCHANGED <<product, shelf, taken>>
      BY <1>2 DEF CommitUnit
    <3> QED
      BY <3>2, <3>3, <1>r, <1>s, QuietMeasures
  <2> QED
    BY <2>2, <2>3
<1>3. ASSUME NEW c \in Caller, CommitRemoveUnit(c)  PROVE MeasureInv'
  <2> SUFFICES ASSUME "units" \notin crossed'  PROVE Uncrossed'
    BY DEF MeasureInv, Uncrossed
  <2>0. Returns(c) /\ UNCHANGED <<product, shelf, taken>>
    BY <1>3 DEF CommitRemoveUnit
  <2>1. call[c].op = "dropUnit" /\ call[c].u \in UnitId
    BY <1>3, CallFields DEF CommitRemoveUnit, ProductsShape
  <2>2. Uncrossed
    BY <2>0, <1>r, MeasureInvIs
  <2>3. \A v \in UnitId \ {call[c].u} : unit'[v] = unit[v]
    BY <1>3, <2>1 DEF CommitRemoveUnit, ProductsShape
  <2>4. Apart' /\ SkusFree' /\ SkusDiffer' /\ CopiesLive'
    BY <2>0, <2>2, <1>r DEF Uncrossed, Apart, SkusFree, SkuFree, SkusDiffer, CopiesLive, LiveProduct
  <2>5. \A d \in Caller : call'[d].op # "in"
    BY <2>0, <2>1, <2>2, <1>r DEF Uncrossed, Apart
  <2>6. BookingsSee'
    BY <2>5 DEF BookingsSee
  <2>7. DropsSee' /\ CopiesSee' /\ (~taken' => StockFits')
    BY <2>0, <2>2, <1>r
       DEF Uncrossed, DropsSee, CopiesSee, StockFits, LiveProduct, Unstocked, Measures
  <2>8. UnitsLive'
    <3> SUFFICES ASSUME NEW s \in Sku, shelf'[s].unit \in OwnUnits
                 PROVE  unit'[shelf'[s].unit].row = "live"
      BY DEF UnitsLive, LiveUnit
    <3>1. shelf'[s].unit = shelf[s].unit /\ shelf[s].unit \in UnitId
      BY <2>0, ProductsAssumption
    <3>2. shelf[s].unit # call[c].u
      BY <2>1, <2>2, <3>1 DEF Uncrossed, DropsSee
    <3>3. unit[shelf[s].unit].row = "live"
      BY <3>1, <2>2 DEF Uncrossed, UnitsLive, LiveUnit
    <3> QED
      BY <3>1, <3>2, <3>3, <2>3
  <2> QED
    BY <2>4, <2>6, <2>7, <2>8 DEF Uncrossed
<1>4. ASSUME NEW c \in Caller, ClearRules(c)  PROVE MeasureInv'
  <2>1. call[c].op = "clear" /\ call[c] \in CallShape
    BY <1>4 DEF ClearRules, ProductsShape
  <2>2. [call[c] EXCEPT !.op = "fill"].op = "fill"
    BY <2>1 DEF CallShape, NoCall
  <2>3. \A d \in Caller : call'[d].op \in {"unit", "product", "in", "dropUnit"} => call'[d] = call[d]
    BY <1>4, <2>2 DEF ClearRules, ProductsShape
  <2>4. UNCHANGED <<crossed, unit, product, shelf, taken>>
    BY <1>4 DEF ClearRules
  <2> QED
    BY <2>3, <2>4, <1>s, QuietMeasures DEF LiveUnit
<1>5. ASSUME NEW c \in Caller, FillRules(c)  PROVE MeasureInv'
  <2>1. Returns(c) /\ UNCHANGED <<unit, product, shelf, taken>>
    BY <1>5 DEF FillRules
  <2> QED
    BY <2>1, <1>r, <1>s, QuietMeasures DEF LiveUnit
<1>6. ASSUME NEW c \in Caller, CommitProduct(c)  PROVE MeasureInv'
  <2>0. Returns(c) /\ UNCHANGED <<unit, shelf>>
    BY <1>6 DEF CommitProduct
  <2> DEFINE p == call[c].p
             copy == call[c].copy
  <2>1. call[c].op = "product" /\ p \in ProductId /\ copy \in ProductRow
    BY <1>6, CallFields DEF CommitProduct, ProductsShape
  <2>2. CASE BarcodeTaken(p, copy.barcode)
    <3>1. UNCHANGED <<product, taken>>
      BY <1>6, <2>2 DEF CommitProduct
    <3> QED
      BY <3>1, <2>0, <1>r, <1>s, QuietMeasures DEF LiveUnit
  <2>3. CASE ~BarcodeTaken(p, copy.barcode)
    <3> SUFFICES ASSUME "units" \notin crossed'  PROVE Uncrossed'
      BY DEF MeasureInv, Uncrossed
    <3>1. /\ product' = [product EXCEPT ![p] = copy]
          /\ taken' = (taken \/ (shelf[copy.code] # NoShelf
                                 /\ ~(LiveProduct(p) /\ product[p].code = copy.code)))
      BY <1>6, <2>3 DEF CommitProduct
    <3>2. Uncrossed
      BY <2>0, <1>r, MeasureInvIs
    <3>3. /\ SkuFree(copy.code, copy.barcode, p)
          /\ LiveProduct(p) /\ copy.unit # product[p].unit => Unstocked(product[p].code)
      BY <2>1, <3>2 DEF Uncrossed, SkusFree, CopiesSee
    <3>4. \A d \in Caller : call'[d].op \notin {"in", "product"}
      BY <2>0, <2>1, <3>2, <1>r DEF Uncrossed, Apart
    <3>5. product'[p] = copy /\ \A q \in ProductId \ {p} : product'[q] = product[q]
      BY <2>1, <3>1 DEF ProductsShape
    <3>c. /\ call'[c].op = "none"
          /\ \A d \in Caller \ {c} : call'[d] = call[d]
      BY <2>0, <1>r
    <3> HIDE DEF p, copy
    <3>6. Apart' /\ SkusFree' /\ BookingsSee' /\ CopiesSee'
      BY <3>4 DEF Apart, SkusFree, BookingsSee, CopiesSee
    <3>7. CopiesLive' /\ DropsSee' /\ UnitsLive'
      BY <2>0, <3>2, <3>c DEF Uncrossed, CopiesLive, DropsSee, UnitsLive, LiveUnit
    <3>8. SkusDiffer'
      <4> SUFFICES ASSUME NEW u \in ProductId, NEW v \in ProductId, u # v,
                          LiveProduct(u)', LiveProduct(v)'
                   PROVE  product'[u].code # product'[v].code
        BY DEF SkusDiffer
      <4>3. CASE u # p /\ v # p
        BY <3>5, <4>3, <3>2 DEF Uncrossed, SkusDiffer, LiveProduct
      <4>4. CASE u = p
        BY <3>3, <3>5, <4>4 DEF SkuFree, LiveProduct
      <4>5. CASE v = p
        BY <3>3, <3>5, <4>5 DEF SkuFree, LiveProduct
      <4> QED
        BY <4>3, <4>4, <4>5
    <3>9. ASSUME ~taken'  PROVE StockFits'
      <4> SUFFICES ASSUME NEW q \in ProductId, LiveProduct(q)'
                   PROVE  shelf[product'[q].code].unit \in {NoUnit, product'[q].unit}
        BY <2>0 DEF StockFits, Measures
      <4>1. ~taken /\ StockFits
        BY <3>1, <3>2, <3>9 DEF Uncrossed, ProductsShape
      <4>2. CASE q # p
        BY <4>1, <4>2, <3>5 DEF StockFits, Measures, LiveProduct
      <4>3. CASE q = p /\ shelf[copy.code] = NoShelf
        BY <4>3, <3>5 DEF NoShelf
      <4>4. CASE q = p /\ LiveProduct(p) /\ product[p].code = copy.code
        <5>1. shelf[copy.code].unit \in {NoUnit, product[p].unit}
          BY <4>1, <4>4, <2>1 DEF StockFits, Measures
        <5>2. copy.unit # product[p].unit => shelf[copy.code].unit = NoUnit
          BY <4>4, <3>3 DEF Unstocked
        <5> QED
          BY <4>4, <5>1, <5>2, <3>5
      <4> QED
        BY <4>2, <4>3, <4>4, <3>1, <3>9
    <3> QED
      BY <3>6, <3>7, <3>8, <3>9 DEF Uncrossed
  <2> QED
    BY <2>2, <2>3
<1>7. ASSUME NEW c \in Caller, CommitInbound(c)  PROVE MeasureInv'
  <2>0. Returns(c) /\ UNCHANGED <<unit, product, taken>>
    BY <1>7 DEF CommitInbound
  <2> DEFINE w == call[c]
  <2>1. w.op = "in" /\ w.s \in Sku /\ w.unit \in UnitId /\ w.p \in ProductId
    BY <1>7, CallFields DEF CommitInbound, ProductsShape
  <2>2. CASE ~Measures(w.s, w.unit)
    <3>1. UNCHANGED shelf
      BY <1>7, <2>2 DEF CommitInbound
    <3> QED
      BY <3>1, <2>0, <1>r, <1>s, QuietMeasures DEF LiveUnit
  <2>3. CASE Measures(w.s, w.unit)
    <3> SUFFICES ASSUME "units" \notin crossed'  PROVE Uncrossed'
      BY DEF MeasureInv, Uncrossed
    <3>1. shelf' = [shelf EXCEPT ![w.s] =
                 [unit |-> w.unit, quantity |-> @.quantity + Rounded(w.n * w.ratio)]]
      BY <1>7, <2>3 DEF CommitInbound
    <3>2. Uncrossed
      BY <2>0, <1>r, MeasureInvIs
    <3>3. /\ LiveUnit(w.unit)
          /\ product[w.p].code = w.s /\ product[w.p].unit = w.unit
          /\ \A q \in ProductId : LiveProduct(q) /\ product[q].code = w.s => q = w.p
      BY <2>1, <3>2 DEF Uncrossed, BookingsSee
    <3>4. \A d \in Caller : call'[d].op \notin {"product", "dropUnit"}
      BY <2>0, <2>1, <3>2, <1>r DEF Uncrossed, Apart
    <3>c. /\ call'[c].op = "none"
          /\ \A d \in Caller \ {c} : call'[d] = call[d]
      BY <2>0, <1>r
    <3> HIDE DEF w
    <3>5. shelf'[w.s].unit = w.unit /\ \A s \in Sku \ {w.s} : shelf'[s].unit = shelf[s].unit
      BY <2>1, <3>1 DEF ProductsShape
    <3>6. Apart' /\ SkusFree' /\ CopiesSee' /\ DropsSee'
      BY <3>4 DEF Apart, SkusFree, DropsSee, CopiesSee
    <3>7. CopiesLive' /\ SkusDiffer' /\ BookingsSee'
      BY <2>0, <3>2, <3>c
         DEF Uncrossed, CopiesLive, SkusDiffer, BookingsSee, LiveUnit, LiveProduct
    <3>8. UnitsLive'
      <4> SUFFICES ASSUME NEW s \in Sku, shelf'[s].unit \in OwnUnits
                   PROVE  unit[shelf'[s].unit].row = "live"
        BY <2>0 DEF UnitsLive, LiveUnit
      <4> QED
        BY <3>2, <3>3, <3>5 DEF Uncrossed, UnitsLive, LiveUnit
    <3>9. ASSUME ~taken'  PROVE StockFits'
      <4> SUFFICES ASSUME NEW q \in ProductId, LiveProduct(q)
                   PROVE  shelf'[product[q].code].unit \in {NoUnit, product[q].unit}
        BY <2>0 DEF StockFits, Measures, LiveProduct
      <4>1. StockFits /\ product[q].code \in Sku
        BY <2>0, <3>2, <3>9, LiveRows DEF Uncrossed, ProductRow
      <4>2. CASE product[q].code = w.s
        BY <4>2, <3>3, <3>5
      <4>3. CASE product[q].code # w.s
        BY <4>1, <4>3, <3>5 DEF StockFits, Measures
      <4> QED
        BY <4>2, <4>3
    <3> QED
      BY <3>6, <3>7, <3>8, <3>9 DEF Uncrossed
  <2> QED
    BY <2>2, <2>3
<1>8. ASSUME NEW c \in Caller, CommitOutbound(c)  PROVE MeasureInv'
  <2>0. Returns(c) /\ UNCHANGED <<unit, product, taken>>
    BY <1>8 DEF CommitOutbound
  <2>1. call[c].s \in Sku
    BY <1>8, CallFields DEF CommitOutbound, ProductsShape
  <2>2. \/ shelf' = shelf
        \/ shelf' = [shelf EXCEPT ![call[c].s].quantity =
                     Rounded(@ * 100000 - call[c].n * 10000)]
    BY <1>8 DEF CommitOutbound
  <2>3. \A s \in Sku : shelf'[s].unit = shelf[s].unit
    BY <2>1, <2>2 DEF ProductsShape
  <2> QED
    BY <2>0, <2>3, <1>r, <1>s, QuietMeasures DEF LiveUnit
<1>9. ASSUME NEW p \in ProductId, NEW on \in BOOLEAN, UpdateProductStatus(p, on)
      PROVE  MeasureInv'
  <2>1. product[p] \in ProductRow
    BY <1>9, LiveRows DEF UpdateProductStatus
  <2>2. \A x \in ProductRow :
          LET y == [x EXCEPT !.active = on]
          IN  /\ y.row = x.row /\ y.code = x.code /\ y.unit = x.unit /\ y.barcode = x.barcode
              /\ y # Unmade
    BY DEF ProductRow, Unmade
  <2>3. product'[p] = [product[p] EXCEPT !.active = on]
    BY <1>9 DEF UpdateProductStatus, ProductsShape
  <2>4. \A q \in ProductId \ {p} : product'[q] = product[q]
    BY <1>9 DEF UpdateProductStatus, ProductsShape
  <2>5. UNCHANGED <<crossed, call, unit, shelf, taken>>
    BY <1>9 DEF UpdateProductStatus
  <2>6. /\ product'[p] # Unmade
        /\ product'[p].row = product[p].row
        /\ product'[p].code = product[p].code /\ product'[p].unit = product[p].unit
        /\ product'[p].barcode = product[p].barcode
    BY <2>1, <2>2, <2>3
  <2> QED
    BY <2>4, <2>5, <2>6, QuietMeasures DEF LiveUnit, LiveProduct
<1>10. ASSUME NEW p \in ProductId, DeleteProduct(p)
      PROVE  MeasureInv'
  <2>1. product[p] \in ProductRow /\ LiveProduct(p)
    BY <1>10, LiveRows DEF DeleteProduct
  <2>2. \A x \in ProductRow :
          LET y == [x EXCEPT !.row = "gone"]
          IN  /\ y.code = x.code /\ y.unit = x.unit /\ y.barcode = x.barcode
              /\ y # Unmade
    BY DEF ProductRow, Unmade
  <2>3. product'[p] = [product[p] EXCEPT !.row = "gone"]
    BY <1>10 DEF DeleteProduct, ProductsShape
  <2>4. \A q \in ProductId \ {p} : product'[q] = product[q]
    BY <1>10 DEF DeleteProduct, ProductsShape
  <2>5. UNCHANGED <<crossed, call, unit, shelf, taken>>
    BY <1>10 DEF DeleteProduct
  <2>6. /\ product'[p] # Unmade
        /\ product'[p].code = product[p].code /\ product'[p].unit = product[p].unit
        /\ product'[p].barcode = product[p].barcode
    BY <2>1, <2>2, <2>3
  <2> QED
    BY <2>1, <2>4, <2>5, <2>6, QuietMeasures DEF LiveUnit, LiveProduct
<1>11. CASE UNCHANGED productVars
  BY <1>11, <1>s, QuietMeasures DEF productVars, LiveUnit
<1> QED
  BY <1>1, <1>2, <1>3, <1>4, <1>5, <1>6, <1>7, <1>8, <1>9, <1>10, <1>11, NextOf

\* What is known of products at any time.
ProductsInv == ProductsBase /\ NamesInv /\ MeasureInv

LEMMA ProductsInvHolds == ASSUME IsFiniteSet(Caller)  PROVE ProductsSpec => []ProductsInv
<1>1. ProductsInit => ProductsInv
  <2> SUFFICES ASSUME ProductsInit  PROVE ProductsInv
    OBVIOUS
  <2>1. /\ \A c \in Caller : call[c].op = "none"
        /\ \A u \in UnitId : unit[u].row = "none"
        /\ \A p \in ProductId : product[p].row = "none"
        /\ \A s \in Sku : shelf[s].unit = NoUnit
    BY DEF ProductsInit, NoCall, Unmade, NoShelf
  <2>2. NamesInv
    BY <2>1 DEF NamesInv, OneSaves, UnitsFree, SkusFree, SkusDiffer, UnitsDiffer, LiveUnit, LiveProduct
  <2>3. UnitsLive
    BY <2>1, ProductsAssumption DEF UnitsLive
  <2>4. MeasureInv
    BY <2>1, <2>3 DEF MeasureInv, Apart, SkusFree, SkusDiffer, CopiesLive, BookingsSee, DropsSee,
                 CopiesSee, StockFits, LiveProduct
  <2> QED
    BY <2>2, <2>4, ProductsStarts DEF ProductsInv
<1>2. ProductsInv /\ [ProductsNext]_productVars => ProductsInv'
  BY ProductsBaseStep, NamesStep, MeasureStep DEF ProductsInv, ProductsBase
<1> QED
  BY <1>1, <1>2, PTL DEF ProductsSpec

\* The invariant says what the runs check.
LEMMA ProductsInvMeans ==
  ASSUME IsFiniteSet(Caller), ProductsInv
  PROVE  /\ ProductsTypeOK /\ SkuNamesOne /\ UnitCodeNamesOne /\ OneRatio
         /\ RoundingBounded /\ StockKeepsUnit
<1>1. ProductsShape /\ Booked /\ OneRatio /\ RoundingBounded /\ NamesInv /\ MeasureInv
  BY DEF ProductsInv, ProductsBase
<1>2. ProductsTypeOK
  <2>1. bookings \in 0..MaxBookings
    <3>1. IsFiniteSet(Booking)
      BY FS_Subset DEF Booking
    <3>2. Cardinality(Booking) \in Nat
      BY <3>1, FS_CardinalityType
    <3> QED
      BY <1>1, <3>2, ProductsAssumption DEF Booked, ProductsShape
  <2>2. \A c \in Caller : call[c] \in CallShape
    BY <1>1 DEF ProductsShape
  <2> QED
    BY <1>1, <2>1, <2>2 DEF ProductsTypeOK, ProductsShape, CallShape
<1>3. SkuNamesOne /\ UnitCodeNamesOne
  BY <1>1 DEF NamesInv, SkusDiffer, UnitsDiffer, SkuNamesOne, UnitCodeNamesOne
<1>4. StockKeepsUnit
  BY <1>1 DEF MeasureInv, StockFits, UnitsLive, StockKeepsUnit, MeasuredAlike, MeasureStays
<1> QED
  BY <1>1, <1>2, <1>3, <1>4

(* Stock, the product under its code and their unit go together (StockKeepsUnit),     *)
(* though bookings read the product and its unit before they lock the stock, and saves *)
(* write whole copies: unless a change of the product or of the unit overlapped the    *)
(* booking, or the code was taken over with the stock under it.  What carries it is    *)
(* that a booking's product keeps its code and unit until the booking commits.         *)
THEOREM StockStaysMeasured ==
  ASSUME IsFiniteSet(Caller)
  PROVE  ProductsSpec => []StockKeepsUnit
BY ProductsInvHolds, ProductsInvMeans, PTL

(* Converting and rounding to hundredths costs at most half a hundredth per booking    *)
(* (RoundingBounded), for any ratios and quantities.                                   *)
THEOREM RoundingStaysBounded ==
  ASSUME IsFiniteSet(Caller)
  PROVE  ProductsSpec => []RoundingBounded
BY ProductsInvHolds, ProductsInvMeans, PTL

-----------------------------------------------------------------------------
(* The catalogue: shapes, and what requests have seen *)

EditShape ==
  {NoEdit}
  \union [op : {"bind"}, k : Category, copy : CategoryRow, add : SUBSET Attr, drop : SUBSET Attr]
  \union [op : {"dropCategory"}, k : Category]
  \union [op : {"attr"}, a : Attr, select : BOOLEAN, rows : SUBSET OptionRow]
  \union [op : {"dropAttrs"}, ids : SUBSET Attr, own : BOOLEAN]
  \union [op : {"options"}, a : Attr, own : BOOLEAN, new : SUBSET Value]
  \union [op : {"option"}, o : Option, copy : OptionRow]
  \union [op : {"file"}, p : Item, k : Category]

CatalogueShape ==
  /\ category \in [Category -> CategoryRow \union {Blank}]
  /\ attr \in [Attr -> AttrRow \union {Blank}]
  /\ option \in [Option -> OptionRow \union {Blank}]
  /\ item \in [Item -> ItemRow \union {Blank}]
  /\ edit \in [Clerk -> EditShape]
  /\ doubled \in BOOLEAN /\ clashed \subseteq {"filing", "binding", "options"}

\* What a request has seen when it comes in.
EditGrounds(r) ==
  /\ r.op = "bind" => \A a \in r.add \union r.copy.attrs : Known(a)
  /\ r.op = "dropCategory" => Kept(r.k) /\ ~Filed(r.k)
  /\ r.op = "attr" => Known(r.a) /\ r.rows \subseteq OptionsFor(r.a)
  /\ r.op = "dropAttrs" => ~Bound(r.ids, r.own)
  /\ r.op = "options" => Known(r.a) /\ \A v \in r.new : ~Given(r.a, r.own, v, {})
  /\ r.op = "option" =>
       \/ Known(r.copy.of) /\ ~Given(r.copy.of, r.copy.own, r.copy.value, {r.o})
       \/ /\ Filled(r.o) /\ r.copy.of = option[r.o].of
          /\ r.copy.own = option[r.o].own /\ r.copy.value = option[r.o].value
  /\ r.op = "file" => Kept(r.k)

\* No category is deleted while a product is filed, none bound while attributes are.
FilingApart ==
  \A c, d \in Clerk : edit[c].op = "dropCategory" => edit[d].op # "file"
BindingApart ==
  \A c, d \in Clerk : edit[c].op = "bind" => edit[d].op # "dropAttrs"

\* What is being filed under is there, and under what is being deleted nothing is.
FilesSee == \A c \in Clerk : edit[c].op = "file" => Kept(edit[c].k)
EmptiesSee == \A c \in Clerk : edit[c].op = "dropCategory" => ~Filed(edit[c].k)
FiledKept == \A p \in Item : item[p].row = "live" /\ Own(item[p].under) => Kept(item[p].under)

FilingInv == "filing" \notin clashed => FilingApart /\ FilesSee /\ EmptiesSee /\ FiledKept

\* The attributes being bound are there, and none that is being deleted is bound.
BindsSee ==
  \A c \in Clerk : edit[c].op = "bind" => \A a \in edit[c].add \union edit[c].copy.attrs : Known(a)
UnbindsSee == \A c \in Clerk : edit[c].op = "dropAttrs" => ~Bound(edit[c].ids, edit[c].own)
BoundKnown ==
  \A k \in Category : Kept(k) => \A a \in category[k].attrs : (a \in OwnAttrs) = Own(k) => Known(a)

BindingInv == "binding" \notin clashed => BindingApart /\ BindsSee /\ UnbindsSee /\ BoundKnown

\* One request at a time writes options.
Optional == {"options", "option", "attr", "dropAttrs"}
OptionsApart == \A c, d \in Clerk : edit[c].op \in Optional /\ edit[d].op \in Optional => c = d

\* Options, written or about to be, have their attribute where it is of their own side.
HasAttr(a, own) == own = (a \in OwnAttrs) => Known(a)
OptionsKnown == \A o \in Option : Filled(o) => HasAttr(option[o].of, option[o].own)
WritesKnown ==
  \A c \in Clerk :
    /\ edit[c].op \in {"options", "attr"} => Known(edit[c].a)
    /\ edit[c].op = "option" => HasAttr(edit[c].copy.of, edit[c].copy.own)

\* Options differ, and those about to be written from those there are.
TakenBy(a, own, v, o) ==
  Filled(o) /\ option[o].of = a /\ option[o].own = own /\ option[o].value = v
OptionsDiffer ==
  \A o, q \in Option : (o # q /\ Filled(o)) =>
    ~TakenBy(option[o].of, option[o].own, option[o].value, q)
WritesDiffer ==
  \A c \in Clerk :
    /\ edit[c].op = "options" =>
         \A v \in edit[c].new, o \in Option : ~TakenBy(edit[c].a, edit[c].own, v, o)
    /\ edit[c].op = "option" =>
         \A o \in Option \ {edit[c].o} :
           ~TakenBy(edit[c].copy.of, edit[c].copy.own, edit[c].copy.value, o)

\* The rows of an attribute's update are its own.
RowsSound ==
  \A c \in Clerk : edit[c].op = "attr" => edit[c].rows \subseteq OptionsFor(edit[c].a)

OptionsInv ==
  "options" \notin clashed =>
    /\ OptionsApart /\ OptionsKnown /\ WritesKnown /\ RowsSound
    /\ ~doubled => OptionsDiffer /\ WritesDiffer

LEMMA EditFields ==
  ASSUME NEW r \in EditShape
  PROVE  /\ r.op \in {"none", "bind", "dropCategory", "attr", "dropAttrs", "options", "option", "file"}
         /\ r.op = "none" => r = NoEdit
         /\ r.op = "bind" => /\ r.k \in Category /\ r.copy \in CategoryRow
                             /\ r.add \in SUBSET Attr /\ r.drop \in SUBSET Attr
         /\ r.op = "dropCategory" => r.k \in Category
         /\ r.op = "attr" => r.a \in Attr /\ r.select \in BOOLEAN /\ r.rows \in SUBSET OptionRow
         /\ r.op = "dropAttrs" => r.ids \in SUBSET Attr /\ r.own \in BOOLEAN
         /\ r.op = "options" => r.a \in Attr /\ r.own \in BOOLEAN /\ r.new \in SUBSET Value
         /\ r.op = "option" => r.o \in Option /\ r.copy \in OptionRow
         /\ r.op = "file" => r.p \in Item /\ r.k \in Category
BY DEF EditShape, NoEdit

LEMMA FilledRows ==
  ASSUME CatalogueShape
  PROVE  /\ \A k \in Category : Kept(k) => category[k] \in CategoryRow
         /\ \A a \in Attr : Known(a) <=> attr[a] # Blank
         /\ \A o \in Option : Filled(o) <=> option[o] \in OptionRow
         /\ \A p \in Item : item[p].row = "live" => item[p] \in ItemRow
         /\ Blank.row = "none" /\ Blank \notin OptionRow /\ Blank \notin CategoryRow
<1>1. Blank.row = "none" /\ Blank \notin OptionRow /\ Blank \notin CategoryRow
  BY DEF Blank, OptionRow, CategoryRow
<1>2. /\ \A k \in Category : Kept(k) => category[k] \in CategoryRow
      /\ \A p \in Item : item[p].row = "live" => item[p] \in ItemRow
  BY <1>1 DEF CatalogueShape, Kept
<1>3. \A a \in Attr : Known(a) <=> attr[a] # Blank
  BY <1>1 DEF CatalogueShape, Known, AttrRow
<1>4. \A o \in Option : Filled(o) <=> option[o] \in OptionRow
  BY <1>1 DEF CatalogueShape, Filled
<1> QED
  BY <1>1, <1>2, <1>3, <1>4

LEMMA ClashingMeans ==
  ASSUME NEW r, NEW q
  PROVE  /\ {r.op, q.op} = {"dropCategory", "file"} => "filing" \in Clashing(r, q)
         /\ {r.op, q.op} = {"bind", "dropAttrs"} => "binding" \in Clashing(r, q)
         /\ r.op \in Optional /\ q.op \in Optional => "options" \in Clashing(r, q)
BY DEF Clashing, Optional

LEMMA AsksMeans ==
  ASSUME CatalogueShape, NEW c \in Clerk, NEW r \in EditShape, Asks(c, r)
  PROVE  /\ edit[c] = NoEdit /\ edit[c].op = "none"
         /\ edit' \in [Clerk -> EditShape]
         /\ edit'[c] = r /\ \A d \in Clerk \ {c} : edit'[d] = edit[d]
         /\ clashed' \subseteq {"filing", "binding", "options"} /\ clashed \subseteq clashed'
         /\ \A d \in Clerk : Clashing(r, edit[d]) \subseteq clashed'
         /\ UNCHANGED <<category, attr, option, item, doubled>>
<1>1. \A d \in Clerk : Clashing(r, edit[d]) \subseteq {"filing", "binding", "options"}
  BY DEF Clashing
<1>2. clashed' = clashed \union UNION {Clashing(r, edit[d]) : d \in Clerk}
  BY DEF Asks
<1>3. /\ clashed' \subseteq {"filing", "binding", "options"}
      /\ \A d \in Clerk : Clashing(r, edit[d]) \subseteq clashed'
  <2>1. ASSUME NEW x \in clashed'  PROVE x \in {"filing", "binding", "options"}
    <3>1. x \in clashed \/ \E d \in Clerk : x \in Clashing(r, edit[d])
      BY <1>2, <2>1
    <3> QED
      BY <3>1, <1>1 DEF CatalogueShape
  <2>2. ASSUME NEW d \in Clerk, NEW x \in Clashing(r, edit[d])  PROVE x \in clashed'
    BY <1>2, <2>2
  <2> QED
    BY <2>1, <2>2
<1>4. NoEdit.op = "none"
  BY DEF NoEdit
<1> QED
  BY <1>2, <1>3, <1>4 DEF Asks, CatalogueShape

LEMMA AnswersMeans ==
  ASSUME CatalogueShape, NEW c \in Clerk, Answers(c)
  PROVE  /\ edit' \in [Clerk -> EditShape]
         /\ edit'[c] = NoEdit /\ edit'[c].op = "none"
         /\ \A d \in Clerk \ {c} : edit'[d] = edit[d]
         /\ UNCHANGED clashed
<1>1. NoEdit.op = "none" /\ NoEdit \in EditShape
  BY DEF NoEdit, EditShape
<1> QED
  BY <1>1 DEF CatalogueShape, Answers

\* The requests that may come in.
AsksIn(c) ==
  \/ \E k \in Category, as \in SUBSET Attr : SaveCategory(c, k, as) \/ UpdateCategory(c, k, as)
  \/ \E k \in Category : DeleteCategory(c, k)
  \/ \E a \in Attr, select \in BOOLEAN : \E rows \in SUBSET OptionsFor(a) :
       UpdateAttribute(c, a, select, rows)
  \/ \E ids \in SUBSET Attr, own \in BOOLEAN : DeleteAttributes(c, ids, own)
  \/ \E a \in Attr, own \in BOOLEAN, vs \in SUBSET Value : SaveOptions(c, a, own, vs)
  \/ \E o \in Option, a \in Attr, v \in Value : UpdateOption(c, o, a, v)
  \/ \E o \in Option, on \in BOOLEAN : UpdateOptionStatus(c, o, on)
  \/ \E p \in Item, k \in Category : FileProduct(c, p, k) \/ ImportUnder(c, p, k)

\* An attribute saved with its options.
SavesAttribute(a, f) ==
  /\ DOMAIN f \subseteq Unfilled
  /\ f \in [DOMAIN f -> OptionsFor(a)]
  /\ \E select \in BOOLEAN : SaveAttribute(a, select, f)

LEMMA CatalogueNextOf ==
  ASSUME CatalogueNext
  PROVE  \/ \E c \in Clerk :
              \/ AsksIn(c)
              \/ CommitCategory(c) \/ CommitDeleteCategory(c) \/ CommitAttribute(c)
              \/ CommitDeleteAttributes(c) \/ CommitOptions(c) \/ CommitOption(c) \/ CommitFile(c)
         \/ \E k \in Category, on \in BOOLEAN : UpdateCategoryStatus(k, on)
         \/ \E a \in Attr : \E f : SavesAttribute(a, f)
         \/ \E os \in SUBSET Option : DeleteOptions(os)
         \/ \E p \in Item : RemoveProduct(p)
<1>1. ASSUME NEW a \in Attr, NEW select \in BOOLEAN, NEW S \in SUBSET Unfilled,
             NEW f \in [S -> OptionsFor(a)],
             SaveAttribute(a, select, f)
      PROVE  SavesAttribute(a, f)
  BY <1>1 DEF SavesAttribute
<1>2. ASSUME \E a \in Attr, select \in BOOLEAN : \E S \in SUBSET Unfilled :
               \E f \in [S -> OptionsFor(a)] :
                 SaveAttribute(a, select, f)
      PROVE  \E a \in Attr : \E f : SavesAttribute(a, f)
  BY <1>1, <1>2
<1> QED
  BY <1>2 DEF CatalogueNext, AsksIn

LEMMA AsksWithGrounds ==
  ASSUME CatalogueShape, NEW c \in Clerk, AsksIn(c)
  PROVE  \E r \in EditShape : Asks(c, r) /\ EditGrounds(r)
<1> DEFINE Goal == \E r \in EditShape : Asks(c, r) /\ EditGrounds(r)
<1>w. ASSUME NEW r, r \in EditShape, Asks(c, r), EditGrounds(r)  PROVE Goal
  BY <1>w
<1> HIDE DEF Goal
<1>1. ASSUME NEW k \in Category, NEW as \in SUBSET Attr, SaveCategory(c, k, as)  PROVE Goal
  <2> DEFINE r == [op |-> "bind", k |-> k, copy |-> [row |-> "live", on |-> TRUE, attrs |-> as],
                   add |-> as, drop |-> {}]
  <2>1. r \in EditShape
    BY DEF EditShape, CategoryRow
  <2>2. Asks(c, r) /\ EditGrounds(r)
    BY <1>1 DEF SaveCategory, EditGrounds, MayBind
  <2> QED
    BY <2>1, <2>2, <1>w
<1>2. ASSUME NEW k \in Category, NEW as \in SUBSET Attr, UpdateCategory(c, k, as)  PROVE Goal
  <2> DEFINE r == [op |-> "bind", k |-> k, copy |-> [category[k] EXCEPT !.attrs = as],
                   add |-> as \ category[k].attrs, drop |-> category[k].attrs \ as]
  <2>0. category[k] \in CategoryRow
    BY <1>2, FilledRows DEF UpdateCategory
  <2>3. \A x \in CategoryRow :
          LET y == [x EXCEPT !.attrs = as] IN y \in CategoryRow /\ y.attrs = as /\ x.attrs \in SUBSET Attr
    BY DEF CategoryRow
  <2>4. r.copy \in CategoryRow /\ r.copy.attrs = as /\ r.add \in SUBSET Attr /\ r.drop \in SUBSET Attr
    BY <2>0, <2>3
  <2>1. r \in EditShape
    BY <2>4 DEF EditShape
  <2>2. Asks(c, r) /\ EditGrounds(r)
    BY <1>2, <2>4 DEF UpdateCategory, EditGrounds, MayBind
  <2> QED
    BY <2>1, <2>2, <1>w
<1>3. ASSUME NEW k \in Category, DeleteCategory(c, k)  PROVE Goal
  <2> DEFINE r == [op |-> "dropCategory", k |-> k]
  <2>1. r \in EditShape
    BY DEF EditShape
  <2>2. Asks(c, r) /\ EditGrounds(r)
    BY <1>3 DEF DeleteCategory, EditGrounds
  <2> QED
    BY <2>1, <2>2, <1>w
<1>4. ASSUME NEW a \in Attr, NEW select \in BOOLEAN, NEW rows \in SUBSET OptionsFor(a),
             UpdateAttribute(c, a, select, rows)
      PROVE  Goal
  <2> DEFINE r == [op |-> "attr", a |-> a, select |-> select, rows |-> rows]
  <2>1. rows \subseteq OptionRow
    BY DEF OptionsFor, OptionRow
  <2>2. r \in EditShape
    BY <2>1 DEF EditShape
  <2>3. Asks(c, r) /\ EditGrounds(r)
    BY <1>4 DEF UpdateAttribute, EditGrounds
  <2> QED
    BY <2>2, <2>3, <1>w
<1>5. ASSUME NEW ids \in SUBSET Attr, NEW own \in BOOLEAN, DeleteAttributes(c, ids, own)  PROVE Goal
  <2> DEFINE r == [op |-> "dropAttrs", ids |-> ids, own |-> own]
  <2>1. r \in EditShape
    BY DEF EditShape
  <2>2. Asks(c, r) /\ EditGrounds(r)
    BY <1>5 DEF DeleteAttributes, EditGrounds
  <2> QED
    BY <2>1, <2>2, <1>w
<1>6. ASSUME NEW a \in Attr, NEW own \in BOOLEAN, NEW vs \in SUBSET Value, SaveOptions(c, a, own, vs)
      PROVE  Goal
  <2> DEFINE new == {v \in vs : ~Given(a, own, v, {})}
             r == [op |-> "options", a |-> a, own |-> own, new |-> new]
  <2>1. r \in EditShape
    BY DEF EditShape
  <2>2. Asks(c, r) /\ EditGrounds(r)
    BY <1>6 DEF SaveOptions, EditGrounds, MayAdd
  <2> QED
    BY <2>1, <2>2, <1>w
<1>7. ASSUME NEW o \in Option, NEW a \in Attr, NEW v \in Value, UpdateOption(c, o, a, v)  PROVE Goal
  <2> DEFINE r == [op |-> "option", o |-> o, copy |-> [option[o] EXCEPT !.of = a, !.value = v]]
  <2>0. option[o] \in OptionRow
    BY <1>7, FilledRows DEF UpdateOption
  <2>3. \A x \in OptionRow :
          LET y == [x EXCEPT !.of = a, !.value = v]
          IN  y \in OptionRow /\ y.of = a /\ y.value = v /\ y.own = x.own
    BY DEF OptionRow
  <2>4. r.copy \in OptionRow /\ r.copy.of = a /\ r.copy.value = v /\ r.copy.own = option[o].own
    BY <2>0, <2>3
  <2>1. r \in EditShape
    BY <2>4 DEF EditShape
  <2>2. Asks(c, r) /\ EditGrounds(r)
    BY <1>7, <2>4 DEF UpdateOption, EditGrounds, MayAdd
  <2> QED
    BY <2>1, <2>2, <1>w
<1>8. ASSUME NEW o \in Option, NEW on \in BOOLEAN, UpdateOptionStatus(c, o, on)  PROVE Goal
  <2> DEFINE r == [op |-> "option", o |-> o, copy |-> [option[o] EXCEPT !.on = on]]
  <2>0. option[o] \in OptionRow
    BY <1>8, FilledRows DEF UpdateOptionStatus
  <2>3. \A x \in OptionRow :
          LET y == [x EXCEPT !.on = on]
          IN  y \in OptionRow /\ y.of = x.of /\ y.value = x.value /\ y.own = x.own
    BY DEF OptionRow
  <2>4. /\ r.copy \in OptionRow /\ r.copy.of = option[o].of /\ r.copy.value = option[o].value
        /\ r.copy.own = option[o].own
    BY <2>0, <2>3
  <2>1. r \in EditShape
    BY <2>4 DEF EditShape
  <2>2. Asks(c, r) /\ EditGrounds(r)
    BY <1>8, <2>4 DEF UpdateOptionStatus, EditGrounds
  <2> QED
    BY <2>1, <2>2, <1>w
<1>9. ASSUME NEW p \in Item, NEW k \in Category, FileProduct(c, p, k) \/ ImportUnder(c, p, k)
      PROVE  Goal
  <2> DEFINE r == [op |-> "file", p |-> p, k |-> k]
  <2>1. r \in EditShape
    BY DEF EditShape
  <2>2. Asks(c, r) /\ EditGrounds(r)
    BY <1>9 DEF FileProduct, ImportUnder, Usable, EditGrounds
  <2> QED
    BY <2>1, <2>2, <1>w
<1> QED
  BY <1>1, <1>2, <1>3, <1>4, <1>5, <1>6, <1>7, <1>8, <1>9 DEF AsksIn, Goal

\* A category that is being deleted has a row.
EmptiesARow == \A c \in Clerk : edit[c].op = "dropCategory" => category[edit[c].k] \in CategoryRow

LEMMA InsertMeans ==
  ASSUME NEW opts \in [Option -> OptionRow \union {Blank}], NEW f, DOMAIN f \subseteq Option,
         \A o \in DOMAIN f : f[o] \in OptionRow
  PROVE  /\ Insert(opts, f) \in [Option -> OptionRow \union {Blank}]
         /\ \A o \in DOMAIN f : Insert(opts, f)[o] = f[o]
         /\ \A o \in Option \ DOMAIN f : Insert(opts, f)[o] = opts[o]
BY DEF Insert

\* What is left when the options of some attributes go.
LEMMA WithoutMeans ==
  ASSUME CatalogueShape, NEW ids, NEW own
  PROVE  /\ OptionsWithout(ids, own) \in [Option -> OptionRow \union {Blank}]
         /\ \A o \in Option :
              \/ OptionsWithout(ids, own)[o] = Blank
              \/ /\ OptionsWithout(ids, own)[o] = option[o]
                 /\ ~(option[o].of \in ids /\ option[o].own = own)
BY DEF OptionsWithout, CatalogueShape, Filled

\* The rows an attribute is saved with.
LEMMA SavedRows ==
  ASSUME CatalogueShape, NEW a \in Attr, NEW f, SavesAttribute(a, f)
  PROVE  /\ DOMAIN f \subseteq Option /\ \A o \in DOMAIN f : option[o] = Blank
         /\ \A o \in DOMAIN f : /\ f[o] \in OptionRow
                                /\ f[o].of = a /\ f[o].own = (a \in OwnAttrs)
         /\ option' \in [Option -> OptionRow \union {Blank}]
         /\ \A o \in DOMAIN f : option'[o] = f[o]
         /\ \A o \in Option \ DOMAIN f : option'[o] = option[o]
         /\ attr[a] = Blank /\ attr'[a] \in AttrRow
         /\ attr' \in [Attr -> AttrRow \union {Blank}]
         /\ \A b \in Attr \ {a} : attr'[b] = attr[b]
         /\ doubled' = (doubled \/ Twice(f))
         /\ UNCHANGED <<category, item, edit, clashed>>
<1>1. PICK select \in BOOLEAN : SaveAttribute(a, select, f)
  BY DEF SavesAttribute
<1>2. DOMAIN f \subseteq Option /\ \A o \in DOMAIN f : option[o] = Blank
  BY DEF SavesAttribute, Unfilled
<1>3. \A o \in DOMAIN f : f[o] \in OptionsFor(a)
  BY DEF SavesAttribute
<1>4. \A x \in OptionsFor(a) : x \in OptionRow /\ x.of = a /\ x.own = (a \in OwnAttrs)
  BY DEF OptionsFor, OptionRow
<1>5. \A o \in DOMAIN f : /\ f[o] \in OptionRow
                          /\ f[o].of = a /\ f[o].own = (a \in OwnAttrs)
  BY <1>3, <1>4
<1>7. option \in [Option -> OptionRow \union {Blank}] /\ option' = Insert(option, f)
  BY <1>1 DEF SaveAttribute, CatalogueShape
<1>8. /\ option' \in [Option -> OptionRow \union {Blank}]
      /\ \A o \in DOMAIN f : option'[o] = f[o]
      /\ \A o \in Option \ DOMAIN f : option'[o] = option[o]
  BY <1>2, <1>5, <1>7, InsertMeans
<1>9. [row |-> "live", select |-> select] \in AttrRow
  BY DEF AttrRow
<1>10. /\ attr[a] = Blank /\ attr'[a] \in AttrRow
       /\ attr' \in [Attr -> AttrRow \union {Blank}]
       /\ \A b \in Attr \ {a} : attr'[b] = attr[b]
  BY <1>1, <1>9 DEF SaveAttribute, CatalogueShape
<1>11. doubled' = (doubled \/ Twice(f)) /\ UNCHANGED <<category, item, edit, clashed>>
  BY <1>1 DEF SaveAttribute
<1> QED
  BY <1>2, <1>5, <1>8, <1>10, <1>11

\* An update of an attribute puts its new rows into the place of the old ones.
LEMMA UpdatedRows ==
  ASSUME CatalogueShape, NEW c \in Clerk, CommitAttribute(c)
  PROVE  LET w == edit[c]
             left == OptionsWithout({w.a}, w.a \in OwnAttrs)
         IN  /\ w.op = "attr" /\ w.a \in Attr /\ w.rows \in SUBSET OptionRow
             /\ Answers(c) /\ UNCHANGED <<category, item>>
             /\ doubled' \in BOOLEAN /\ (doubled => doubled')
             /\ attr' \in [Attr -> AttrRow \union {Blank}]
             /\ \A a \in Attr : Known(a)' <=> Known(a)
             /\ option' \in [Option -> OptionRow \union {Blank}]
             /\ \E S \in SUBSET Option :
                  /\ \A o \in S : option'[o] \in w.rows
                  /\ ~doubled' => \A o, q \in S : option'[o].value = option'[q].value => o = q
                  /\ \A o \in Option \ S : option'[o] = left[o]
<1> DEFINE w == edit[c]
           left == OptionsWithout({w.a}, w.a \in OwnAttrs)
<1>1. w.op = "attr" /\ w.a \in Attr /\ w.rows \in SUBSET OptionRow /\ w.select \in BOOLEAN
  BY EditFields DEF CommitAttribute, CatalogueShape
<1>2. /\ Answers(c) /\ UNCHANGED <<category, item>>
      /\ attr' = IF Known(w.a) THEN [attr EXCEPT ![w.a].select = w.select] ELSE attr
      /\ \E S \in SUBSET {o \in Option : left[o] = Blank} :
           \E f \in [S -> w.rows] : /\ option' = Insert(left, f)
                                    /\ doubled' = (doubled \/ Twice(f))
  BY DEF CommitAttribute
<1>3. /\ attr' \in [Attr -> AttrRow \union {Blank}]
      /\ \A a \in Attr : Known(a)' <=> Known(a)
  <2>1. \A x \in AttrRow : LET y == [x EXCEPT !.select = w.select] IN y \in AttrRow /\ y.row = x.row
    BY <1>1 DEF AttrRow
  <2>2. Known(w.a) => attr[w.a] \in AttrRow
    BY <1>1, FilledRows DEF CatalogueShape
  <2> QED
    BY <1>1, <1>2, <2>1, <2>2 DEF CatalogueShape, Known
<1>4. PICK S \in SUBSET {o \in Option : left[o] = Blank} :
        \E f \in [S -> w.rows] : option' = Insert(left, f) /\ doubled' = (doubled \/ Twice(f))
  BY <1>2
<1>5. PICK f \in [S -> w.rows] : option' = Insert(left, f) /\ doubled' = (doubled \/ Twice(f))
  BY <1>4
<1>6. left \in [Option -> OptionRow \union {Blank}]
  BY WithoutMeans
<1> HIDE DEF left, w
<1>7. /\ option' \in [Option -> OptionRow \union {Blank}]
      /\ \A o \in S : option'[o] = f[o]
      /\ \A o \in Option \ S : option'[o] = left[o]
  <2>1. DOMAIN f = S /\ S \subseteq Option /\ \A o \in S : f[o] \in OptionRow
    BY <1>1, <1>5
  <2> QED
    BY <2>1, <1>5, <1>6, InsertMeans
<1>8. ~doubled' => \A o, q \in S : option'[o].value = option'[q].value => o = q
  BY <1>5, <1>7 DEF Twice
<1>9. S \in SUBSET Option /\ \A o \in S : option'[o] \in w.rows
  BY <1>5, <1>7
<1>10. \E T \in SUBSET Option :
                  /\ \A o \in T : option'[o] \in w.rows
                  /\ ~doubled' => \A o, q \in T : option'[o].value = option'[q].value => o = q
                  /\ \A o \in Option \ T : option'[o] = left[o]
  BY <1>7, <1>8, <1>9
<1>11. doubled' \in BOOLEAN /\ (doubled => doubled')
  BY <1>5 DEF CatalogueShape, Twice
<1> QED
  BY <1>1, <1>2, <1>3, <1>7, <1>10, <1>11 DEF w, left

\* Options that are added are of one attribute and one side, with the values asked for.
LEMMA AddedRows ==
  ASSUME CatalogueShape, NEW c \in Clerk, CommitOptions(c)
  PROVE  LET w == edit[c]
         IN  /\ w.op = "options" /\ w.a \in Attr /\ w.own \in BOOLEAN
             /\ Answers(c) /\ UNCHANGED <<category, attr, item, doubled>>
             /\ option' \in [Option -> OptionRow \union {Blank}]
             /\ \E S \in SUBSET Option :
                  /\ \A o \in S : /\ option'[o] \in OptionRow
                                  /\ option'[o].of = w.a /\ option'[o].own = w.own
                                  /\ option'[o].value \in w.new
                  /\ \A o, q \in S : option'[o].value = option'[q].value => o = q
                  /\ \A o \in Option \ S : option'[o] = option[o]
<1> DEFINE w == edit[c]
           rows == {OptionOf(w.a, w.own, v) : v \in w.new}
<1>1. w.op = "options" /\ w.a \in Attr /\ w.own \in BOOLEAN /\ w.new \in SUBSET Value
  BY EditFields DEF CommitOptions, CatalogueShape
<1>2. /\ Answers(c) /\ UNCHANGED <<category, attr, item, doubled>>
      /\ \E S \in SUBSET Unfilled :
           \E f \in [S -> rows] : ~Twice(f) /\ option' = Insert(option, f)
  BY DEF CommitOptions
<1>4. PICK S \in SUBSET Unfilled :
        \E f \in [S -> rows] : ~Twice(f) /\ option' = Insert(option, f)
  BY <1>2
<1>5. PICK f \in [S -> rows] : ~Twice(f) /\ option' = Insert(option, f)
  BY <1>4
<1>6. S \in SUBSET Option /\ option \in [Option -> OptionRow \union {Blank}]
  BY DEF Unfilled, CatalogueShape
<1>7. ASSUME NEW v \in w.new
      PROVE  LET x == OptionOf(w.a, w.own, v)
             IN  x \in OptionRow /\ x.of = w.a /\ x.own = w.own /\ x.value = v
  BY <1>1, <1>7 DEF OptionOf, OptionRow
<1>8. \A o \in S : \E v \in w.new : f[o] = OptionOf(w.a, w.own, v)
  BY <1>5
<1> HIDE DEF w, rows
<1>9. \A o \in S : /\ f[o] \in OptionRow /\ f[o].of = w.a /\ f[o].own = w.own
                   /\ f[o].value \in w.new /\ f[o] = OptionOf(w.a, w.own, f[o].value)
  BY <1>7, <1>8
<1>10. \A o, q \in S : f[o].value = f[q].value => o = q
  BY <1>5, <1>9 DEF Twice
<1>11. /\ option' \in [Option -> OptionRow \union {Blank}]
       /\ \A o \in S : option'[o] = f[o]
       /\ \A o \in Option \ S : option'[o] = option[o]
  <2>1. DOMAIN f = S /\ S \subseteq Option /\ \A o \in S : f[o] \in OptionRow
    BY <1>5, <1>6, <1>9
  <2> QED
    BY <2>1, <1>5, <1>6, InsertMeans
<1>12. \E T \in SUBSET Option :
         /\ \A o \in T : /\ option'[o] \in OptionRow
                         /\ option'[o].of = w.a /\ option'[o].own = w.own
                         /\ option'[o].value \in w.new
         /\ \A o, q \in T : option'[o].value = option'[q].value => o = q
         /\ \A o \in Option \ T : option'[o] = option[o]
  BY <1>6, <1>9, <1>10, <1>11
<1> QED
  BY <1>1, <1>2, <1>11, <1>12 DEF w

\* Attributes go with the options of their side.
LEMMA DroppedRows ==
  ASSUME CatalogueShape, NEW c \in Clerk, CommitDeleteAttributes(c)
  PROVE  LET w == edit[c]
         IN  /\ w.op = "dropAttrs" /\ w.ids \in SUBSET Attr /\ w.own \in BOOLEAN
             /\ Answers(c) /\ UNCHANGED <<category, item, doubled>>
             /\ attr' \in [Attr -> AttrRow \union {Blank}]
             /\ \A a \in Attr : Known(a) /\ ~Known(a)' => a \in w.ids /\ (a \in OwnAttrs) = w.own
             /\ option' \in [Option -> OptionRow \union {Blank}]
             /\ \A o \in Option : option'[o] # Blank =>
                  /\ option'[o] = option[o]
                  /\ ~(option[o].of \in w.ids /\ option[o].own = w.own)
<1> DEFINE w == edit[c]
<1>1. w.op = "dropAttrs" /\ w.ids \in SUBSET Attr /\ w.own \in BOOLEAN
  BY EditFields DEF CommitDeleteAttributes, CatalogueShape
<1>2. /\ Answers(c) /\ UNCHANGED <<category, item, doubled>>
      /\ option' = OptionsWithout(w.ids, w.own)
      /\ attr' = [a \in Attr |-> IF a \in w.ids /\ (a \in OwnAttrs) = w.own
                                 THEN Blank ELSE attr[a]]
  BY DEF CommitDeleteAttributes
<1> HIDE DEF w
<1>3. /\ attr' \in [Attr -> AttrRow \union {Blank}]
      /\ \A a \in Attr : attr'[a] = IF a \in w.ids /\ (a \in OwnAttrs) = w.own
                                    THEN Blank ELSE attr[a]
  BY <1>2 DEF CatalogueShape
<1>4. \A a \in Attr : Known(a) /\ ~Known(a)' => a \in w.ids /\ (a \in OwnAttrs) = w.own
  BY <1>3 DEF Known
<1>5. /\ option' \in [Option -> OptionRow \union {Blank}]
      /\ \A o \in Option : option'[o] # Blank =>
           /\ option'[o] = option[o]
           /\ ~(option[o].of \in w.ids /\ option[o].own = w.own)
  BY <1>2, WithoutMeans
<1> QED
  BY <1>1, <1>2, <1>3, <1>4, <1>5 DEF w

\* A category is inserted, or its joins change.
LEMMA BoundRows ==
  ASSUME CatalogueShape, NEW c \in Clerk, CommitCategory(c)
  PROVE  LET w == edit[c]
         IN  /\ w.op = "bind" /\ w.k \in Category /\ w.copy \in CategoryRow
             /\ w.add \in SUBSET Attr
             /\ Answers(c) /\ UNCHANGED <<attr, option, item, doubled>>
             /\ category' \in [Category -> CategoryRow \union {Blank}]
             /\ \A k \in Category : category[k] \in CategoryRow => category'[k] \in CategoryRow
             /\ \A k \in Category : Kept(k) => Kept(k)'
             /\ \A k \in Category : Kept(k)' /\ category'[k] # category[k] =>
                  /\ k = w.k
                  /\ \/ category'[k] = w.copy
                     \/ Kept(k) /\ category'[k].attrs \subseteq category[k].attrs \union w.add
<1> DEFINE w == edit[c]
<1>1. /\ w.op = "bind" /\ w.k \in Category /\ w.copy \in CategoryRow
      /\ w.add \in SUBSET Attr /\ w.drop \in SUBSET Attr
  BY EditFields DEF CommitCategory, CatalogueShape
<1>2. /\ Answers(c) /\ UNCHANGED <<attr, option, item, doubled>>
      /\ category' =
           IF category[w.k] = Blank THEN [category EXCEPT ![w.k] = w.copy]
           ELSE IF w.add \intersect category[w.k].attrs # {} THEN category
           ELSE [category EXCEPT ![w.k].attrs = (@ \ w.drop) \union w.add]
  BY DEF CommitCategory
<1> HIDE DEF w
<1>3. \A k \in Category \ {w.k} : category'[k] = category[k]
  BY <1>2 DEF CatalogueShape
<1>4. ASSUME NEW x \in CategoryRow
      PROVE  LET y == [x EXCEPT !.attrs = (@ \ w.drop) \union w.add]
             IN  /\ y \in CategoryRow /\ y.row = x.row
                 /\ y.attrs \subseteq x.attrs \union w.add
  BY <1>1 DEF CategoryRow
<1>5. CASE category[w.k] = Blank
  <2>1. category' \in [Category -> CategoryRow \union {Blank}] /\ category'[w.k] = w.copy
    BY <1>1, <1>2, <1>5 DEF CatalogueShape
  <2>2. ~Kept(w.k) /\ category[w.k] \notin CategoryRow
    BY <1>5, FilledRows DEF Kept
  <2> QED
    BY <1>1, <1>2, <1>3, <2>1, <2>2 DEF w, Kept
<1>6. CASE category[w.k] # Blank /\ category' = category
  BY <1>1, <1>2, <1>6 DEF w, Kept, CatalogueShape
<1>7. CASE category[w.k] # Blank /\ category' = [category EXCEPT ![w.k].attrs = (@ \ w.drop) \union w.add]
  <2>1. category[w.k] \in CategoryRow
    BY <1>1, <1>7 DEF CatalogueShape
  <2>2. /\ category'[w.k] \in CategoryRow
        /\ category'[w.k].row = category[w.k].row
        /\ category'[w.k].attrs \subseteq category[w.k].attrs \union w.add
    BY <1>1, <1>4, <1>7, <2>1 DEF CatalogueShape
  <2>3. category' \in [Category -> CategoryRow \union {Blank}]
    BY <1>1, <1>7, <2>2 DEF CatalogueShape
  <2> QED
    BY <1>1, <1>2, <1>3, <2>1, <2>2, <2>3 DEF w, Kept
<1> QED
  BY <1>2, <1>5, <1>6, <1>7

CatalogueBase == CatalogueShape /\ EmptiesARow

\* The request that is answered has no row to delete any more.
LEMMA AnswerKeepsRows ==
  ASSUME CatalogueBase, NEW c \in Clerk, Answers(c),
         \A k \in Category : category[k] \in CategoryRow => category'[k] \in CategoryRow
  PROVE  EmptiesARow'
<1>1. /\ edit'[c].op = "none" /\ \A d \in Clerk \ {c} : edit'[d] = edit[d]
  BY AnswersMeans DEF CatalogueBase
<1> SUFFICES ASSUME NEW d \in Clerk, edit'[d].op = "dropCategory"
             PROVE  category'[edit'[d].k] \in CategoryRow
  BY DEF EmptiesARow
<1>2. d # c /\ edit'[d] = edit[d]
  BY <1>1
<1>3. edit[d].k \in Category
  BY <1>2, EditFields DEF CatalogueBase, CatalogueShape
<1> QED
  BY <1>2, <1>3 DEF CatalogueBase, EmptiesARow

LEMMA CatalogueBaseStep ==
  ASSUME CatalogueBase, [CatalogueNext]_catalogueVars
  PROVE  CatalogueBase'
<1> USE DEF CatalogueBase
<1>1. ASSUME NEW c \in Clerk, AsksIn(c)  PROVE CatalogueBase'
  <2>1. PICK r \in EditShape : Asks(c, r) /\ EditGrounds(r)
    BY <1>1, AsksWithGrounds
  <2>2. /\ edit' \in [Clerk -> EditShape]
        /\ edit'[c] = r /\ \A d \in Clerk \ {c} : edit'[d] = edit[d]
        /\ clashed' \subseteq {"filing", "binding", "options"}
        /\ UNCHANGED <<category, attr, option, item, doubled>>
    BY <2>1, AsksMeans
  <2>3. CatalogueShape'
    BY <2>2 DEF CatalogueShape
  <2>4. r.op = "dropCategory" => category[r.k] \in CategoryRow
    BY <2>1, EditFields, FilledRows DEF EditGrounds
  <2> QED
    BY <2>2, <2>3, <2>4 DEF EmptiesARow
<1>a. ASSUME NEW c \in Clerk, Answers(c)
      PROVE  edit' \in [Clerk -> EditShape] /\ UNCHANGED clashed
  BY <1>a, AnswersMeans
<1>2. ASSUME NEW c \in Clerk, CommitCategory(c)  PROVE CatalogueBase'
  <2>1. /\ Answers(c) /\ UNCHANGED <<attr, option, item, doubled>>
        /\ category' \in [Category -> CategoryRow \union {Blank}]
        /\ \A k \in Category : category[k] \in CategoryRow => category'[k] \in CategoryRow
    BY <1>2, BoundRows
  <2> QED
    BY <2>1, <1>a, AnswerKeepsRows DEF CatalogueShape
<1>3. ASSUME NEW c \in Clerk, CommitDeleteCategory(c)  PROVE CatalogueBase'
  <2>1. edit[c].k \in Category /\ category[edit[c].k] \in CategoryRow
    BY <1>3, EditFields DEF CommitDeleteCategory, CatalogueShape, EmptiesARow
  <2>2. \A x \in CategoryRow : [x EXCEPT !.row = "gone"] \in CategoryRow
    BY DEF CategoryRow
  <2>3. /\ category' \in [Category -> CategoryRow \union {Blank}]
        /\ \A k \in Category : category[k] \in CategoryRow => category'[k] \in CategoryRow
    BY <1>3, <2>1, <2>2 DEF CommitDeleteCategory, CatalogueShape
  <2>4. Answers(c) /\ UNCHANGED <<attr, option, item, doubled>>
    BY <1>3 DEF CommitDeleteCategory
  <2> QED
    BY <2>3, <2>4, <1>a, AnswerKeepsRows DEF CatalogueShape
<1>4. ASSUME NEW c \in Clerk, CommitAttribute(c)  PROVE CatalogueBase'
  <2>1. /\ Answers(c) /\ UNCHANGED <<category, item>> /\ doubled' \in BOOLEAN
        /\ attr' \in [Attr -> AttrRow \union {Blank}]
        /\ option' \in [Option -> OptionRow \union {Blank}]
    BY <1>4, UpdatedRows
  <2> QED
    BY <2>1, <1>a, AnswerKeepsRows DEF CatalogueShape
<1>5. ASSUME NEW c \in Clerk, CommitDeleteAttributes(c)  PROVE CatalogueBase'
  <2>1. /\ Answers(c) /\ UNCHANGED <<category, item, doubled>>
        /\ attr' \in [Attr -> AttrRow \union {Blank}]
        /\ option' \in [Option -> OptionRow \union {Blank}]
    BY <1>5, DroppedRows
  <2> QED
    BY <2>1, <1>a, AnswerKeepsRows DEF CatalogueShape
<1>6. ASSUME NEW c \in Clerk, CommitOptions(c)  PROVE CatalogueBase'
  <2>1. /\ Answers(c) /\ UNCHANGED <<category, attr, item, doubled>>
        /\ option' \in [Option -> OptionRow \union {Blank}]
    BY <1>6, AddedRows
  <2> QED
    BY <2>1, <1>a, AnswerKeepsRows DEF CatalogueShape
<1>7. ASSUME NEW c \in Clerk, CommitOption(c)  PROVE CatalogueBase'
  <2>1. /\ Answers(c) /\ UNCHANGED <<category, attr, item, doubled>>
        /\ option' = [option EXCEPT ![edit[c].o] = edit[c].copy] /\ edit[c].op = "option"
    BY <1>7 DEF CommitOption
  <2>2. edit[c].copy \in OptionRow
    BY <2>1, EditFields DEF CatalogueShape
  <2>3. option' \in [Option -> OptionRow \union {Blank}]
    BY <2>1, <2>2 DEF CatalogueShape
  <2> QED
    BY <2>1, <2>3, <1>a, AnswerKeepsRows DEF CatalogueShape
<1>8. ASSUME NEW c \in Clerk, CommitFile(c)  PROVE CatalogueBase'
  <2>1. /\ Answers(c) /\ UNCHANGED <<category, attr, option, doubled>> /\ edit[c].op = "file"
        /\ item' = [item EXCEPT ![edit[c].p] = [row |-> "live", under |-> edit[c].k]]
    BY <1>8 DEF CommitFile
  <2>2. edit[c].k \in Category
    BY <2>1, EditFields DEF CatalogueShape
  <2>3. item' \in [Item -> ItemRow \union {Blank}]
    BY <2>1, <2>2 DEF CatalogueShape, ItemRow
  <2> QED
    BY <2>1, <2>3, <1>a, AnswerKeepsRows DEF CatalogueShape
<1>9. ASSUME NEW k \in Category, NEW on \in BOOLEAN, UpdateCategoryStatus(k, on)
      PROVE  CatalogueBase'
  <2>1. category[k] \in CategoryRow
    BY <1>9, FilledRows DEF UpdateCategoryStatus
  <2>2. \A x \in CategoryRow : [x EXCEPT !.on = on] \in CategoryRow
    BY DEF CategoryRow
  <2>3. /\ category' \in [Category -> CategoryRow \union {Blank}]
        /\ \A j \in Category : category[j] \in CategoryRow => category'[j] \in CategoryRow
    BY <1>9, <2>1, <2>2 DEF UpdateCategoryStatus, CatalogueShape
  <2>4. \A c \in Clerk : edit[c].op = "dropCategory" => edit[c].k \in Category
    BY EditFields DEF CatalogueShape
  <2> QED
    BY <1>9, <2>3, <2>4 DEF UpdateCategoryStatus, CatalogueShape, EmptiesARow
<1>10. ASSUME NEW a \in Attr, NEW f, SavesAttribute(a, f)
       PROVE  CatalogueBase'
  <2>1. /\ option' \in [Option -> OptionRow \union {Blank}]
        /\ attr' \in [Attr -> AttrRow \union {Blank}]
        /\ doubled' \in BOOLEAN
        /\ UNCHANGED <<category, item, edit, clashed>>
    BY <1>10, SavedRows DEF CatalogueShape, Twice
  <2> QED
    BY <2>1 DEF CatalogueShape, EmptiesARow
<1>11. ASSUME NEW os \in SUBSET Option, DeleteOptions(os)  PROVE CatalogueBase'
  <2>1. option' \in [Option -> OptionRow \union {Blank}]
    BY <1>11 DEF DeleteOptions, CatalogueShape
  <2> QED
    BY <1>11, <2>1 DEF DeleteOptions, CatalogueShape, EmptiesARow
<1>12. ASSUME NEW p \in Item, RemoveProduct(p)  PROVE CatalogueBase'
  <2>1. item[p] \in ItemRow
    BY <1>12, FilledRows DEF RemoveProduct
  <2>2. \A x \in ItemRow : [x EXCEPT !.row = "gone"] \in ItemRow
    BY DEF ItemRow
  <2>3. item' \in [Item -> ItemRow \union {Blank}]
    BY <1>12, <2>1, <2>2 DEF RemoveProduct, CatalogueShape
  <2> QED
    BY <1>12, <2>3 DEF RemoveProduct, CatalogueShape, EmptiesARow
<1>13. CASE UNCHANGED catalogueVars
  BY <1>13 DEF catalogueVars, CatalogueShape, EmptiesARow
<1> QED
  BY <1>1, <1>2, <1>3, <1>4, <1>5, <1>6, <1>7, <1>8, <1>9, <1>10, <1>11, <1>12, <1>13,
     CatalogueNextOf

-----------------------------------------------------------------------------
(* The catalogue: products under categories *)

LEMMA QuietFiling ==
  ASSUME CatalogueShape, FilingInv, clashed \subseteq clashed',
         \A c \in Clerk : edit'[c].op \in {"dropCategory", "file"} => edit'[c] = edit[c],
         \A k \in Category : Kept(k) => Kept(k)',
         \A p \in Item : item'[p].row = "live" => item'[p] = item[p]
  PROVE  FilingInv'
<1> SUFFICES ASSUME "filing" \notin clashed'
             PROVE  FilingApart' /\ FilesSee' /\ EmptiesSee' /\ FiledKept'
  BY DEF FilingInv
<1>1. FilingApart /\ FilesSee /\ EmptiesSee /\ FiledKept
  BY DEF FilingInv
<1>2. FilingApart'
  BY <1>1 DEF FilingApart
<1>3. FilesSee'
  <2> SUFFICES ASSUME NEW c \in Clerk, edit'[c].op = "file"
               PROVE  category'[edit'[c].k].row = "live"
    BY DEF FilesSee, Kept
  <2>1. edit'[c] = edit[c] /\ edit[c].k \in Category
    BY EditFields DEF CatalogueShape
  <2> QED
    BY <2>1, <1>1 DEF FilesSee, Kept
<1>4. EmptiesSee'
  BY <1>1 DEF EmptiesSee, Filed
<1>5. FiledKept'
  <2> SUFFICES ASSUME NEW p \in Item, item'[p].row = "live", Own(item'[p].under)
               PROVE  category'[item'[p].under].row = "live"
    BY DEF FiledKept, Kept, Own
  <2>1. item'[p] = item[p] /\ item[p].under \in Category
    BY FilledRows DEF ItemRow
  <2> QED
    BY <2>1, <1>1 DEF FiledKept, Kept
<1> QED
  BY <1>2, <1>3, <1>4, <1>5

LEMMA FilingStep ==
  ASSUME CatalogueBase, FilingInv, [CatalogueNext]_catalogueVars
  PROVE  FilingInv'
<1> USE DEF CatalogueBase
<1>1. ASSUME NEW c \in Clerk, AsksIn(c)  PROVE FilingInv'
  <2>1. PICK r \in EditShape : Asks(c, r) /\ EditGrounds(r)
    BY <1>1, AsksWithGrounds
  <2> SUFFICES ASSUME "filing" \notin clashed'
               PROVE  FilingApart' /\ FilesSee' /\ EmptiesSee' /\ FiledKept'
    BY DEF FilingInv
  <2>2. /\ edit[c].op = "none"
        /\ edit'[c] = r /\ \A d \in Clerk \ {c} : edit'[d] = edit[d]
        /\ clashed \subseteq clashed'
        /\ \A d \in Clerk : Clashing(r, edit[d]) \subseteq clashed'
        /\ UNCHANGED <<category, item>>
    BY <2>1, AsksMeans
  <2>3. FilingApart /\ FilesSee /\ EmptiesSee /\ FiledKept
    BY <2>2 DEF FilingInv
  <2>4. \A d \in Clerk : {r.op, edit[d].op} # {"dropCategory", "file"}
    BY <2>2, ClashingMeans
  <2>5. FilingApart'
    BY <2>2, <2>3, <2>4 DEF FilingApart
  <2>6. FilesSee'
    BY <2>1, <2>2, <2>3 DEF FilesSee, EditGrounds, Kept
  <2>7. EmptiesSee'
    BY <2>1, <2>2, <2>3 DEF EmptiesSee, EditGrounds, Filed
  <2>8. FiledKept'
    BY <2>2, <2>3 DEF FiledKept, Kept, Own
  <2> QED
    BY <2>5, <2>6, <2>7, <2>8
<1>a. ASSUME NEW c \in Clerk, Answers(c)
      PROVE  /\ clashed' = clashed /\ edit'[c].op = "none"
             /\ \A d \in Clerk \ {c} : edit'[d] = edit[d]
             /\ \A d \in Clerk : edit'[d].op \in {"dropCategory", "file"} =>
                  d # c /\ edit'[d] = edit[d]
  BY <1>a, AnswersMeans
<1>2. ASSUME NEW c \in Clerk, CommitCategory(c)  PROVE FilingInv'
  <2>1. Answers(c) /\ UNCHANGED item /\ \A k \in Category : Kept(k) => Kept(k)'
    BY <1>2, BoundRows
  <2> QED
    BY <2>1, <1>a, QuietFiling
<1>3. ASSUME NEW c \in Clerk, CommitDeleteCategory(c)  PROVE FilingInv'
  <2> SUFFICES ASSUME "filing" \notin clashed'
               PROVE  FilingApart' /\ FilesSee' /\ EmptiesSee' /\ FiledKept'
    BY DEF FilingInv
  <2>1. /\ Answers(c) /\ UNCHANGED item /\ edit[c].op = "dropCategory"
        /\ category' = [category EXCEPT ![edit[c].k].row = "gone"]
    BY <1>3 DEF CommitDeleteCategory
  <2>2. FilingApart /\ FilesSee /\ EmptiesSee /\ FiledKept
    BY <2>1, <1>a DEF FilingInv
  <2>3. \A d \in Clerk : edit'[d].op # "file"
    BY <2>1, <2>2, <1>a DEF FilingApart
  <2>4. FilingApart' /\ FilesSee' /\ EmptiesSee'
    BY <2>1, <2>2, <2>3, <1>a DEF FilingApart, FilesSee, EmptiesSee, Filed, Own
  <2>5. ~Filed(edit[c].k) /\ edit[c].k \in Category
    BY <2>1, <2>2, EditFields DEF EmptiesSee, CatalogueShape
  <2>6. \A k \in Category \ {edit[c].k} : category'[k] = category[k]
    BY <2>1 DEF CatalogueShape
  <2>7. FiledKept'
    <3> SUFFICES ASSUME NEW p \in Item, item[p].row = "live", Own(item[p].under)
                 PROVE  category'[item[p].under].row = "live"
      BY <2>1 DEF FiledKept, Kept, Own
    <3>1. item[p].under \in Category
      BY FilledRows DEF ItemRow
    <3>2. item[p].under # edit[c].k
      BY <2>5 DEF Filed
    <3> QED
      BY <3>1, <3>2, <2>2, <2>6 DEF FiledKept, Kept
  <2> QED
    BY <2>4, <2>7
<1>4. ASSUME NEW c \in Clerk,
             CommitAttribute(c) \/ CommitDeleteAttributes(c) \/ CommitOptions(c) \/ CommitOption(c)
      PROVE  FilingInv'
  <2>1. Answers(c) /\ UNCHANGED <<category, item>>
    BY <1>4 DEF CommitAttribute, CommitDeleteAttributes, CommitOptions, CommitOption
  <2> QED
    BY <2>1, <1>a, QuietFiling DEF Kept
<1>5. ASSUME NEW c \in Clerk, CommitFile(c)  PROVE FilingInv'
  <2> SUFFICES ASSUME "filing" \notin clashed'
               PROVE  FilingApart' /\ FilesSee' /\ EmptiesSee' /\ FiledKept'
    BY DEF FilingInv
  <2>1. /\ Answers(c) /\ UNCHANGED category /\ edit[c].op = "file"
        /\ item' = [item EXCEPT ![edit[c].p] = [row |-> "live", under |-> edit[c].k]]
    BY <1>5 DEF CommitFile
  <2>2. FilingApart /\ FilesSee /\ EmptiesSee /\ FiledKept
    BY <2>1, <1>a DEF FilingInv
  <2>3. \A d \in Clerk : edit'[d].op # "dropCategory"
    BY <2>1, <2>2, <1>a DEF FilingApart
  <2>4. FilingApart' /\ FilesSee' /\ EmptiesSee'
    BY <2>1, <2>2, <2>3, <1>a DEF FilingApart, FilesSee, EmptiesSee, Kept
  <2>5. Kept(edit[c].k) /\ edit[c].p \in Item
    BY <2>1, <2>2, EditFields DEF FilesSee, CatalogueShape
  <2>6. /\ item'[edit[c].p].under = edit[c].k
        /\ \A p \in Item \ {edit[c].p} : item'[p] = item[p]
    BY <2>1, <2>5 DEF CatalogueShape
  <2>7. FiledKept'
    BY <2>1, <2>2, <2>5, <2>6 DEF FiledKept, Kept, Own
  <2> QED
    BY <2>4, <2>7
<1>6. ASSUME NEW k \in Category, NEW on \in BOOLEAN, UpdateCategoryStatus(k, on)
      PROVE  FilingInv'
  <2>1. category[k] \in CategoryRow /\ Kept(k)
    BY <1>6, FilledRows DEF UpdateCategoryStatus
  <2>2. \A x \in CategoryRow : [x EXCEPT !.on = on].row = x.row
    BY DEF CategoryRow
  <2>3. \A j \in Category : Kept(j) => Kept(j)'
    BY <1>6, <2>1, <2>2 DEF UpdateCategoryStatus, CatalogueShape, Kept
  <2> QED
    BY <1>6, <2>3, QuietFiling DEF UpdateCategoryStatus
<1>7. ASSUME \/ \E a \in Attr : \E f : SavesAttribute(a, f)
             \/ \E os \in SUBSET Option : DeleteOptions(os)
             \/ UNCHANGED catalogueVars
      PROVE  FilingInv'
  <2>1. UNCHANGED <<category, item, edit, clashed>>
    BY <1>7 DEF SavesAttribute, SaveAttribute, DeleteOptions, catalogueVars
  <2> QED
    BY <2>1, QuietFiling DEF Kept
<1>8. ASSUME NEW p \in Item, RemoveProduct(p)  PROVE FilingInv'
  <2>1. item[p] \in ItemRow
    BY <1>8, FilledRows DEF RemoveProduct
  <2>2. \A x \in ItemRow : [x EXCEPT !.row = "gone"].row = "gone"
    BY DEF ItemRow
  <2>3. \A q \in Item : item'[q].row = "live" => item'[q] = item[q]
    BY <1>8, <2>1, <2>2 DEF RemoveProduct, CatalogueShape
  <2> QED
    BY <1>8, <2>3, QuietFiling DEF RemoveProduct, Kept
<1> QED
  BY <1>1, <1>2, <1>3, <1>4, <1>5, <1>6, <1>7, <1>8, CatalogueNextOf

-----------------------------------------------------------------------------
(* The catalogue: attributes bound to categories *)

LEMMA QuietBinding ==
  ASSUME CatalogueShape, BindingInv, clashed \subseteq clashed',
         \A c \in Clerk : edit'[c].op \in {"bind", "dropAttrs"} => edit'[c] = edit[c],
         \A a \in Attr : Known(a) => Known(a)',
         \A k \in Category : Kept(k)' => Kept(k) /\ category'[k].attrs = category[k].attrs
  PROVE  BindingInv'
<1> SUFFICES ASSUME "binding" \notin clashed'
             PROVE  BindingApart' /\ BindsSee' /\ UnbindsSee' /\ BoundKnown'
  BY DEF BindingInv
<1>1. BindingApart /\ BindsSee /\ UnbindsSee /\ BoundKnown
  BY DEF BindingInv
<1>2. BindingApart'
  BY <1>1 DEF BindingApart
<1>3. BindsSee'
  <2> SUFFICES ASSUME NEW c \in Clerk, edit'[c].op = "bind",
                      NEW a \in edit'[c].add \union edit'[c].copy.attrs
               PROVE  attr'[a].row = "live"
    BY DEF BindsSee, Known
  <2>1. edit'[c] = edit[c] /\ edit[c].add \in SUBSET Attr /\ edit[c].copy \in CategoryRow
    BY EditFields DEF CatalogueShape
  <2>2. a \in Attr
    BY <2>1 DEF CategoryRow
  <2> QED
    BY <2>1, <2>2, <1>1 DEF BindsSee, Known
<1>4. UnbindsSee'
  <2> SUFFICES ASSUME NEW c \in Clerk, edit'[c].op = "dropAttrs",
                      NEW k \in Category, Kept(k)', Own(k) = edit'[c].own
               PROVE  category'[k].attrs \intersect edit'[c].ids = {}
    BY DEF UnbindsSee, Bound, Own
  <2> QED
    BY <1>1 DEF UnbindsSee, Bound
<1>5. BoundKnown'
  <2> SUFFICES ASSUME NEW k \in Category, Kept(k)', NEW a \in category'[k].attrs,
                      (a \in OwnAttrs) = Own(k)
               PROVE  Known(a)'
    BY DEF BoundKnown, Own
  <2>1. Kept(k) /\ a \in category[k].attrs /\ category[k] \in CategoryRow
    BY FilledRows
  <2>2. a \in Attr
    BY <2>1 DEF CategoryRow
  <2> QED
    BY <2>1, <2>2, <1>1 DEF BoundKnown
<1> QED
  BY <1>2, <1>3, <1>4, <1>5

LEMMA BindingStep ==
  ASSUME CatalogueBase, BindingInv, [CatalogueNext]_catalogueVars
  PROVE  BindingInv'
<1> USE DEF CatalogueBase
<1>1. ASSUME NEW c \in Clerk, AsksIn(c)  PROVE BindingInv'
  <2>1. PICK r \in EditShape : Asks(c, r) /\ EditGrounds(r)
    BY <1>1, AsksWithGrounds
  <2> SUFFICES ASSUME "binding" \notin clashed'
               PROVE  BindingApart' /\ BindsSee' /\ UnbindsSee' /\ BoundKnown'
    BY DEF BindingInv
  <2>2. /\ edit[c].op = "none"
        /\ edit'[c] = r /\ \A d \in Clerk \ {c} : edit'[d] = edit[d]
        /\ clashed \subseteq clashed'
        /\ \A d \in Clerk : Clashing(r, edit[d]) \subseteq clashed'
        /\ UNCHANGED <<category, attr>>
    BY <2>1, AsksMeans
  <2>3. BindingApart /\ BindsSee /\ UnbindsSee /\ BoundKnown
    BY <2>2 DEF BindingInv
  <2>4. \A d \in Clerk : {r.op, edit[d].op} # {"bind", "dropAttrs"}
    BY <2>2, ClashingMeans
  <2>5. BindingApart'
    BY <2>2, <2>3, <2>4 DEF BindingApart
  <2>6. BindsSee'
    BY <2>1, <2>2, <2>3 DEF BindsSee, EditGrounds, Known
  <2>7. UnbindsSee'
    BY <2>1, <2>2, <2>3 DEF UnbindsSee, EditGrounds, Bound, Kept, Own
  <2>8. BoundKnown'
    BY <2>2, <2>3 DEF BoundKnown, Kept, Own, Known
  <2> QED
    BY <2>5, <2>6, <2>7, <2>8
<1>a. ASSUME NEW c \in Clerk, Answers(c)
      PROVE  /\ clashed' = clashed /\ edit'[c].op = "none"
             /\ \A d \in Clerk \ {c} : edit'[d] = edit[d]
             /\ \A d \in Clerk : edit'[d].op \in {"bind", "dropAttrs"} =>
                  d # c /\ edit'[d] = edit[d]
  BY <1>a, AnswersMeans
<1>2. ASSUME NEW c \in Clerk, CommitCategory(c)  PROVE BindingInv'
  <2> SUFFICES ASSUME "binding" \notin clashed'
               PROVE  BindingApart' /\ BindsSee' /\ UnbindsSee' /\ BoundKnown'
    BY DEF BindingInv
  <2> DEFINE w == edit[c]
  <2>1. /\ w.op = "bind" /\ w.copy \in CategoryRow /\ w.add \in SUBSET Attr
        /\ Answers(c) /\ UNCHANGED attr
        /\ \A k \in Category : Kept(k)' /\ category'[k] # category[k] =>
             \/ category'[k] = w.copy
             \/ Kept(k) /\ category'[k].attrs \subseteq category[k].attrs \union w.add
    BY <1>2, BoundRows
  <2>2. BindingApart /\ BindsSee /\ UnbindsSee /\ BoundKnown
    BY <2>1, <1>a DEF BindingInv
  <2>3. \A d \in Clerk : edit'[d].op # "dropAttrs"
    BY <2>1, <2>2, <1>a DEF BindingApart
  <2>4. BindingApart' /\ UnbindsSee'
    BY <2>3 DEF BindingApart, UnbindsSee
  <2>5. BindsSee'
    BY <2>1, <2>2, <1>a DEF BindsSee, Known
  <2>6. \A a \in w.add \union w.copy.attrs : Known(a)
    BY <2>1, <2>2 DEF BindsSee
  <2>7. BoundKnown'
    <3> SUFFICES ASSUME NEW k \in Category, Kept(k)', NEW a \in category'[k].attrs,
                        (a \in OwnAttrs) = Own(k)
                 PROVE  Known(a)
      BY <2>1 DEF BoundKnown, Own, Known
    <3>1. CASE category'[k] = category[k]
      BY <3>1, <2>2 DEF BoundKnown, Kept
    <3>2. CASE category'[k] = w.copy
      BY <3>2, <2>6
    <3>3. CASE Kept(k) /\ category'[k].attrs \subseteq category[k].attrs \union w.add
      BY <3>3, <2>2, <2>6 DEF BoundKnown
    <3> QED
      BY <3>1, <3>2, <3>3, <2>1
  <2> QED
    BY <2>4, <2>5, <2>7
<1>3. ASSUME NEW c \in Clerk, CommitDeleteCategory(c)  PROVE BindingInv'
  <2>1. /\ Answers(c) /\ UNCHANGED attr /\ edit[c].op = "dropCategory"
        /\ category' = [category EXCEPT ![edit[c].k].row = "gone"]
    BY <1>3 DEF CommitDeleteCategory
  <2>2. edit[c].k \in Category /\ category[edit[c].k] \in CategoryRow
    BY <2>1, EditFields DEF CatalogueShape, EmptiesARow
  <2>3. \A x \in CategoryRow : [x EXCEPT !.row = "gone"].row = "gone"
    BY DEF CategoryRow
  <2>4. \A k \in Category : Kept(k)' => Kept(k) /\ category'[k].attrs = category[k].attrs
    BY <2>1, <2>2, <2>3 DEF CatalogueShape, Kept
  <2> QED
    BY <2>1, <2>4, <1>a, QuietBinding DEF Known
<1>4. ASSUME NEW c \in Clerk, CommitAttribute(c)  PROVE BindingInv'
  <2>1. Answers(c) /\ UNCHANGED category /\ \A a \in Attr : Known(a)' <=> Known(a)
    BY <1>4, UpdatedRows
  <2> QED
    BY <2>1, <1>a, QuietBinding DEF Kept
<1>5. ASSUME NEW c \in Clerk, CommitDeleteAttributes(c)  PROVE BindingInv'
  <2> SUFFICES ASSUME "binding" \notin clashed'
               PROVE  BindingApart' /\ BindsSee' /\ UnbindsSee' /\ BoundKnown'
    BY DEF BindingInv
  <2> DEFINE w == edit[c]
  <2>1. /\ w.op = "dropAttrs" /\ Answers(c) /\ UNCHANGED category
        /\ \A a \in Attr : Known(a) /\ ~Known(a)' => a \in w.ids /\ (a \in OwnAttrs) = w.own
    BY <1>5, DroppedRows
  <2>2. BindingApart /\ BindsSee /\ UnbindsSee /\ BoundKnown
    BY <2>1, <1>a DEF BindingInv
  <2>3. \A d \in Clerk : edit'[d].op # "bind"
    BY <2>1, <2>2, <1>a DEF BindingApart
  <2>4. BindingApart' /\ BindsSee' /\ UnbindsSee'
    BY <2>1, <2>2, <2>3, <1>a DEF BindingApart, BindsSee, UnbindsSee, Bound, Kept, Own
  <2>5. ~Bound(w.ids, w.own)
    BY <2>1, <2>2 DEF UnbindsSee
  <2>6. BoundKnown'
    <3> SUFFICES ASSUME NEW k \in Category, Kept(k), NEW a \in category[k].attrs,
                        (a \in OwnAttrs) = Own(k)
                 PROVE  Known(a)'
      BY <2>1 DEF BoundKnown, Own, Kept
    <3>1. a \in Attr
      BY FilledRows DEF CategoryRow
    <3>2. Known(a)
      BY <2>2 DEF BoundKnown
    <3>3. ~(a \in w.ids /\ Own(k) = w.own)
      BY <2>5 DEF Bound
    <3> QED
      BY <3>1, <3>2, <3>3, <2>1
  <2> QED
    BY <2>4, <2>6
<1>6. ASSUME NEW c \in Clerk, CommitOptions(c) \/ CommitOption(c) \/ CommitFile(c)
      PROVE  BindingInv'
  <2>1. Answers(c) /\ UNCHANGED <<category, attr>>
    BY <1>6 DEF CommitOptions, CommitOption, CommitFile
  <2> QED
    BY <2>1, <1>a, QuietBinding DEF Kept, Known
<1>7. ASSUME NEW k \in Category, NEW on \in BOOLEAN, UpdateCategoryStatus(k, on)
      PROVE  BindingInv'
  <2>1. category[k] \in CategoryRow /\ Kept(k)
    BY <1>7, FilledRows DEF UpdateCategoryStatus
  <2>2. \A x \in CategoryRow : [x EXCEPT !.on = on].attrs = x.attrs
    BY DEF CategoryRow
  <2>3. \A j \in Category : Kept(j)' => Kept(j) /\ category'[j].attrs = category[j].attrs
    BY <1>7, <2>1, <2>2 DEF UpdateCategoryStatus, CatalogueShape, Kept
  <2> QED
    BY <1>7, <2>3, QuietBinding DEF UpdateCategoryStatus, Known
<1>8. ASSUME NEW a \in Attr, NEW f, SavesAttribute(a, f)  PROVE BindingInv'
  <2>1. /\ attr[a] = Blank /\ attr'[a] \in AttrRow
        /\ \A b \in Attr \ {a} : attr'[b] = attr[b]
        /\ UNCHANGED <<category, edit, clashed>>
    BY <1>8, SavedRows
  <2>2. \A b \in Attr : Known(b) => Known(b)'
    BY <2>1 DEF Known, AttrRow
  <2> QED
    BY <2>1, <2>2, QuietBinding DEF Kept
<1>9. ASSUME \/ \E os \in SUBSET Option : DeleteOptions(os)
             \/ \E p \in Item : RemoveProduct(p)
             \/ UNCHANGED catalogueVars
      PROVE  BindingInv'
  <2>1. UNCHANGED <<category, attr, edit, clashed>>
    BY <1>9 DEF DeleteOptions, RemoveProduct, catalogueVars
  <2> QED
    BY <2>1, QuietBinding DEF Kept, Known
<1> QED
  BY <1>1, <1>2, <1>3, <1>4, <1>5, <1>6, <1>7, <1>8, <1>9, CatalogueNextOf

-----------------------------------------------------------------------------
(* The catalogue: options of attributes *)

LEMMA QuietOptions ==
  ASSUME CatalogueShape, OptionsInv, clashed \subseteq clashed', UNCHANGED doubled,
         \A c \in Clerk : edit'[c].op \in Optional => edit'[c] = edit[c],
         \A a \in Attr : Known(a) => Known(a)',
         \A o \in Option : option'[o] # Blank => option'[o] = option[o]
  PROVE  OptionsInv'
<1> SUFFICES ASSUME "options" \notin clashed'
             PROVE  /\ OptionsApart' /\ OptionsKnown' /\ WritesKnown' /\ RowsSound'
                    /\ ~doubled' => OptionsDiffer' /\ WritesDiffer'
  BY DEF OptionsInv
<1>1. /\ OptionsApart /\ OptionsKnown /\ WritesKnown /\ RowsSound
      /\ ~doubled => OptionsDiffer /\ WritesDiffer
  BY DEF OptionsInv
<1>2. OptionsApart'
  BY <1>1 DEF OptionsApart
<1>3. OptionsKnown'
  <2> SUFFICES ASSUME NEW o \in Option, option'[o] # Blank, option'[o].own = (option'[o].of \in OwnAttrs)
               PROVE  attr'[option'[o].of].row = "live"
    BY DEF OptionsKnown, HasAttr, Filled, Known
  <2>1. option'[o] = option[o] /\ option[o] \in OptionRow
    BY FilledRows DEF Filled
  <2>2. option[o].of \in Attr
    BY <2>1 DEF OptionRow
  <2>3. Known(option[o].of)
    BY <2>1, <1>1 DEF OptionsKnown, HasAttr, Filled
  <2> QED
    BY <2>1, <2>2, <2>3 DEF Known
<1>4. WritesKnown'
  <2> SUFFICES ASSUME NEW c \in Clerk
               PROVE  /\ edit'[c].op \in {"options", "attr"} => attr'[edit'[c].a].row = "live"
                      /\ edit'[c].op = "option" /\ edit'[c].copy.own = (edit'[c].copy.of \in OwnAttrs) =>
                            attr'[edit'[c].copy.of].row = "live"
    BY DEF WritesKnown, HasAttr, Known
  <2>1. edit[c].op \in {"options", "attr"} => edit[c].a \in Attr
    BY EditFields DEF CatalogueShape
  <2>2. edit[c].op = "option" => edit[c].copy.of \in Attr
    BY EditFields DEF CatalogueShape, OptionRow
  <2>3. edit'[c].op \in {"options", "attr"} => attr'[edit'[c].a].row = "live"
    BY <2>1, <1>1 DEF WritesKnown, Optional, Known
  <2>4. edit'[c].op = "option" /\ edit'[c].copy.own = (edit'[c].copy.of \in OwnAttrs) =>
           attr'[edit'[c].copy.of].row = "live"
    BY <2>2, <1>1 DEF WritesKnown, Optional, HasAttr, Known
  <2> QED
    BY <2>3, <2>4
<1>5. RowsSound'
  BY <1>1 DEF RowsSound, Optional
<1>6. ASSUME ~doubled'  PROVE OptionsDiffer' /\ WritesDiffer'
  <2>1. OptionsDiffer /\ WritesDiffer
    BY <1>1, <1>6
  <2>2. OptionsDiffer'
    BY <2>1 DEF OptionsDiffer, TakenBy, Filled
  <2>3. WritesDiffer'
    BY <2>1 DEF WritesDiffer, TakenBy, Filled, Optional
  <2> QED
    BY <2>2, <2>3
<1> QED
  BY <1>2, <1>3, <1>4, <1>5, <1>6

\* The one request for options is answered: what remains to be seen are the rows.
LEMMA OptionsAnswered ==
  ASSUME CatalogueShape, OptionsApart, NEW c \in Clerk, edit[c].op \in Optional, Answers(c)
  PROVE  /\ clashed' = clashed
         /\ OptionsApart' /\ WritesKnown' /\ RowsSound' /\ WritesDiffer'
<1>1. /\ clashed' = clashed /\ edit'[c].op = "none"
      /\ \A d \in Clerk \ {c} : edit'[d] = edit[d]
  BY AnswersMeans
<1>2. \A d \in Clerk : edit'[d].op \notin Optional
  BY <1>1 DEF OptionsApart, Optional
<1> QED
  BY <1>1, <1>2 DEF OptionsApart, WritesKnown, RowsSound, WritesDiffer, Optional

LEMMA OptionsStep ==
  ASSUME CatalogueBase, OptionsInv, [CatalogueNext]_catalogueVars
  PROVE  OptionsInv'
<1> USE DEF CatalogueBase
<1>1. ASSUME NEW c \in Clerk, AsksIn(c)  PROVE OptionsInv'
  <2>1. PICK r \in EditShape : Asks(c, r) /\ EditGrounds(r)
    BY <1>1, AsksWithGrounds
  <2> SUFFICES ASSUME "options" \notin clashed'
               PROVE  /\ OptionsApart' /\ OptionsKnown' /\ WritesKnown' /\ RowsSound'
                      /\ ~doubled' => OptionsDiffer' /\ WritesDiffer'
    BY DEF OptionsInv
  <2>2. /\ edit[c].op = "none"
        /\ edit'[c] = r /\ \A d \in Clerk \ {c} : edit'[d] = edit[d]
        /\ clashed \subseteq clashed'
        /\ \A d \in Clerk : Clashing(r, edit[d]) \subseteq clashed'
        /\ UNCHANGED <<attr, option, doubled>>
    BY <2>1, AsksMeans
  <2>3. /\ OptionsApart /\ OptionsKnown /\ WritesKnown /\ RowsSound
        /\ ~doubled => OptionsDiffer /\ WritesDiffer
    BY <2>2 DEF OptionsInv
  <2>4. \A d \in Clerk : ~(r.op \in Optional /\ edit[d].op \in Optional)
    BY <2>2, ClashingMeans
  <2>5. OptionsApart'
    BY <2>2, <2>3, <2>4 DEF OptionsApart
  <2>6. OptionsKnown'
    BY <2>2, <2>3 DEF OptionsKnown, HasAttr, Filled, Known
  <2>7. WritesKnown'
    <3>1. r.op \in {"options", "attr"} => Known(r.a)
      BY <2>1 DEF EditGrounds
    <3>2. r.op = "option" => HasAttr(r.copy.of, r.copy.own)
      BY <2>1, <2>3, EditFields DEF EditGrounds, HasAttr, OptionsKnown
    <3> QED
      BY <3>1, <3>2, <2>2, <2>3 DEF WritesKnown, HasAttr, Known
  <2>8. RowsSound'
    BY <2>1, <2>2, <2>3 DEF RowsSound, EditGrounds
  <2>9. ASSUME ~doubled'  PROVE OptionsDiffer' /\ WritesDiffer'
    <3>1. OptionsDiffer /\ WritesDiffer
      BY <2>2, <2>3, <2>9
    <3>2. OptionsDiffer'
      BY <2>2, <3>1 DEF OptionsDiffer, TakenBy, Filled
    <3>3. ASSUME r.op = "options", NEW v \in r.new, NEW o \in Option  PROVE ~TakenBy(r.a, r.own, v, o)
      BY <2>1, <3>3 DEF EditGrounds, Given, TakenBy
    <3>4. ASSUME r.op = "option", NEW o \in Option \ {r.o}
          PROVE  ~TakenBy(r.copy.of, r.copy.own, r.copy.value, o)
      <4>1. CASE ~Given(r.copy.of, r.copy.own, r.copy.value, {r.o})
        BY <4>1 DEF Given, TakenBy
      <4>2. CASE /\ Filled(r.o) /\ r.copy.of = option[r.o].of
                 /\ r.copy.own = option[r.o].own /\ r.copy.value = option[r.o].value
        <5>1. r.o \in Option
          BY <3>4, EditFields
        <5> QED
          BY <4>2, <5>1, <3>1 DEF OptionsDiffer
      <4> QED
        BY <2>1, <3>4, <4>1, <4>2 DEF EditGrounds
    <3>5. WritesDiffer'
      BY <2>2, <3>1, <3>3, <3>4 DEF WritesDiffer, TakenBy, Filled
    <3> QED
      BY <3>2, <3>5
  <2> QED
    BY <2>5, <2>6, <2>7, <2>8, <2>9
<1>a. ASSUME NEW c \in Clerk, Answers(c)
      PROVE  /\ clashed' = clashed /\ edit'[c].op = "none"
             /\ \A d \in Clerk : edit'[d].op \in Optional => edit'[d] = edit[d]
  <2>1. /\ clashed' = clashed /\ edit'[c].op = "none"
        /\ \A d \in Clerk \ {c} : edit'[d] = edit[d]
    BY <1>a, AnswersMeans
  <2> QED
    BY <2>1 DEF Optional
<1>b. ASSUME NEW c \in Clerk, edit[c].op \in Optional, Answers(c), "options" \notin clashed
      PROVE  /\ OptionsApart /\ OptionsKnown /\ WritesKnown /\ RowsSound
             /\ ~doubled => OptionsDiffer /\ WritesDiffer
             /\ clashed' = clashed
             /\ OptionsApart' /\ WritesKnown' /\ RowsSound' /\ WritesDiffer'
  <2>1. /\ OptionsApart /\ OptionsKnown /\ WritesKnown /\ RowsSound
        /\ ~doubled => OptionsDiffer /\ WritesDiffer
    BY <1>b DEF OptionsInv
  <2> QED
    BY <2>1, <1>b, OptionsAnswered
<1>2. ASSUME NEW c \in Clerk, CommitCategory(c) \/ CommitDeleteCategory(c) \/ CommitFile(c)
      PROVE  OptionsInv'
  <2>1. Answers(c) /\ UNCHANGED <<attr, option, doubled>>
    BY <1>2 DEF CommitCategory, CommitDeleteCategory, CommitFile
  <2> QED
    BY <2>1, <1>a, QuietOptions DEF Known
<1>3. ASSUME NEW c \in Clerk, CommitAttribute(c)  PROVE OptionsInv'
  <2> DEFINE w == edit[c]
             mine == {o \in Option : Filled(o) /\ option[o].of = w.a /\ option[o].own = (w.a \in OwnAttrs)}
  <2>1. /\ w.op = "attr" /\ w.a \in Attr /\ w.rows \in SUBSET OptionRow
        /\ Answers(c) /\ (doubled => doubled')
        /\ \A a \in Attr : Known(a)' <=> Known(a)
    BY <1>3, UpdatedRows
  <2>2. PICK S \in SUBSET Option :
          /\ \A o \in S : option'[o] \in w.rows
          /\ ~doubled' => \A o, q \in S : option'[o].value = option'[q].value => o = q
          /\ \A o \in Option \ S : option'[o] = OptionsWithout({w.a}, w.a \in OwnAttrs)[o]
    BY <1>3, UpdatedRows
  <2>3. \A o \in Option \ S : option'[o] # Blank => option'[o] = option[o] /\ o \notin mine
    BY <2>2, WithoutMeans
  <2> SUFFICES ASSUME "options" \notin clashed'
               PROVE  /\ OptionsApart' /\ OptionsKnown' /\ WritesKnown' /\ RowsSound'
                      /\ ~doubled' => OptionsDiffer' /\ WritesDiffer'
    BY DEF OptionsInv
  <2>4. /\ OptionsApart /\ OptionsKnown /\ WritesKnown /\ RowsSound
        /\ ~doubled => OptionsDiffer /\ WritesDiffer
        /\ OptionsApart' /\ WritesKnown' /\ RowsSound' /\ WritesDiffer'
    BY <2>1, <1>a, <1>b DEF Optional
  <2>5. /\ Known(w.a)
        /\ \A x \in w.rows : x.of = w.a /\ x.own = (w.a \in OwnAttrs)
    BY <2>1, <2>4 DEF WritesKnown, RowsSound, OptionsFor
  <2>6. OptionsKnown'
    <3> SUFFICES ASSUME NEW o \in Option, option'[o] # Blank,
                        option'[o].own = (option'[o].of \in OwnAttrs)
                 PROVE  attr'[option'[o].of].row = "live"
      BY DEF OptionsKnown, HasAttr, Filled, Known
    <3>1. CASE o \in S
      <4>1. option'[o].of = w.a
        BY <3>1, <2>2, <2>5
      <4> QED
        BY <4>1, <2>1, <2>5 DEF Known
    <3>2. CASE o \notin S
      <4>1. option'[o] = option[o] /\ Filled(o) /\ option[o].of \in Attr
        BY <3>2, <2>3, FilledRows DEF Filled, OptionRow
      <4>2. Known(option[o].of)
        BY <4>1, <2>4 DEF OptionsKnown, HasAttr
      <4> QED
        BY <4>1, <4>2, <2>1 DEF Known
    <3> QED
      BY <3>1, <3>2
  <2>7. ASSUME ~doubled'  PROVE OptionsDiffer'
    <3>1. OptionsDiffer
      BY <2>1, <2>4, <2>7
    <3> SUFFICES ASSUME NEW o \in Option, NEW q \in Option, option'[o] # Blank, option'[q] # Blank,
                        option'[q].of = option'[o].of, option'[q].own = option'[o].own,
                        option'[q].value = option'[o].value
                 PROVE  o = q
      BY DEF OptionsDiffer, TakenBy, Filled
    <3>2. CASE o \in S /\ q \in S
      BY <3>2, <2>2, <2>7
    <3>3. CASE o \notin S /\ q \notin S
      BY <3>3, <2>3, <3>1 DEF OptionsDiffer, TakenBy, Filled
    <3>4. CASE o \in S /\ q \notin S
      BY <3>4, <2>2, <2>3, <2>5 DEF Filled
    <3>5. CASE o \notin S /\ q \in S
      BY <3>5, <2>2, <2>3, <2>5 DEF Filled
    <3> QED
      BY <3>2, <3>3, <3>4, <3>5
  <2> QED
    BY <2>4, <2>6, <2>7
<1>4. ASSUME NEW c \in Clerk, CommitDeleteAttributes(c)  PROVE OptionsInv'
  <2> DEFINE w == edit[c]
  <2>1. /\ w.op = "dropAttrs" /\ Answers(c) /\ UNCHANGED doubled
        /\ \A a \in Attr : Known(a) /\ ~Known(a)' => a \in w.ids /\ (a \in OwnAttrs) = w.own
        /\ \A o \in Option : option'[o] # Blank =>
             /\ option'[o] = option[o]
             /\ ~(option[o].of \in w.ids /\ option[o].own = w.own)
    BY <1>4, DroppedRows
  <2> SUFFICES ASSUME "options" \notin clashed'
               PROVE  /\ OptionsApart' /\ OptionsKnown' /\ WritesKnown' /\ RowsSound'
                      /\ ~doubled' => OptionsDiffer' /\ WritesDiffer'
    BY DEF OptionsInv
  <2>2. /\ OptionsApart /\ OptionsKnown /\ WritesKnown /\ RowsSound
        /\ ~doubled => OptionsDiffer /\ WritesDiffer
        /\ OptionsApart' /\ WritesKnown' /\ RowsSound' /\ WritesDiffer'
    BY <2>1, <1>a, <1>b DEF Optional
  <2>3. OptionsKnown'
    <3> SUFFICES ASSUME NEW o \in Option, option'[o] # Blank,
                        option'[o].own = (option'[o].of \in OwnAttrs)
                 PROVE  attr'[option'[o].of].row = "live"
      BY DEF OptionsKnown, HasAttr, Filled, Known
    <3>1. option'[o] = option[o] /\ Filled(o) /\ option[o].of \in Attr
      BY <2>1, FilledRows DEF Filled, OptionRow
    <3>2. Known(option[o].of)
      BY <3>1, <2>2 DEF OptionsKnown, HasAttr
    <3>3. ~(option[o].of \in w.ids /\ (option[o].of \in OwnAttrs) = w.own)
      BY <3>1, <2>1
    <3>4. attr'[option[o].of].row = "live"
      BY <3>1, <3>2, <3>3, <2>1 DEF Known
    <3> QED
      BY <3>1, <3>4
  <2>4. ASSUME ~doubled'  PROVE OptionsDiffer'
    BY <2>1, <2>2, <2>4 DEF OptionsDiffer, TakenBy, Filled
  <2> QED
    BY <2>2, <2>3, <2>4
<1>5. ASSUME NEW c \in Clerk, CommitOptions(c)  PROVE OptionsInv'
  <2> DEFINE w == edit[c]
  <2>1. /\ w.op = "options" /\ w.a \in Attr
        /\ Answers(c) /\ UNCHANGED <<attr, doubled>>
    BY <1>5, AddedRows
  <2>2. PICK S \in SUBSET Option :
          /\ \A o \in S : option'[o].of = w.a /\ option'[o].own = w.own /\ option'[o].value \in w.new
          /\ \A o, q \in S : option'[o].value = option'[q].value => o = q
          /\ \A o \in Option \ S : option'[o] = option[o]
    BY <1>5, AddedRows
  <2> SUFFICES ASSUME "options" \notin clashed'
               PROVE  /\ OptionsApart' /\ OptionsKnown' /\ WritesKnown' /\ RowsSound'
                      /\ ~doubled' => OptionsDiffer' /\ WritesDiffer'
    BY DEF OptionsInv
  <2>3. /\ OptionsApart /\ OptionsKnown /\ WritesKnown /\ RowsSound
        /\ ~doubled => OptionsDiffer /\ WritesDiffer
        /\ OptionsApart' /\ WritesKnown' /\ RowsSound' /\ WritesDiffer'
    BY <2>1, <1>a, <1>b DEF Optional
  <2>4. Known(w.a)
    BY <2>1, <2>3 DEF WritesKnown
  <2>5. OptionsKnown'
    <3> SUFFICES ASSUME NEW o \in Option, option'[o] # Blank,
                        option'[o].own = (option'[o].of \in OwnAttrs)
                 PROVE  Known(option'[o].of)
      BY <2>1 DEF OptionsKnown, HasAttr, Filled, Known
    <3> QED
      BY <2>2, <2>3, <2>4 DEF OptionsKnown, HasAttr, Filled
  <2>6. ASSUME ~doubled'  PROVE OptionsDiffer'
    <3>1. OptionsDiffer /\ WritesDiffer
      BY <2>1, <2>3, <2>6
    <3> SUFFICES ASSUME NEW o \in Option, NEW q \in Option, option'[o] # Blank, option'[q] # Blank,
                        option'[q].of = option'[o].of, option'[q].own = option'[o].own,
                        option'[q].value = option'[o].value
                 PROVE  o = q
      BY DEF OptionsDiffer, TakenBy, Filled
    <3>2. CASE o \in S /\ q \in S
      BY <3>2, <2>2
    <3>3. CASE o \notin S /\ q \notin S
      BY <3>3, <2>2, <3>1 DEF OptionsDiffer, TakenBy, Filled
    <3>4. CASE o \in S /\ q \notin S
      BY <3>4, <2>1, <2>2, <3>1 DEF WritesDiffer, TakenBy, Filled
    <3>5. CASE o \notin S /\ q \in S
      BY <3>5, <2>1, <2>2, <3>1 DEF WritesDiffer, TakenBy, Filled
    <3> QED
      BY <3>2, <3>3, <3>4, <3>5
  <2> QED
    BY <2>3, <2>5, <2>6
<1>6. ASSUME NEW c \in Clerk, CommitOption(c)  PROVE OptionsInv'
  <2> DEFINE w == edit[c]
  <2>1. /\ w.op = "option" /\ Answers(c) /\ UNCHANGED <<attr, doubled>>
        /\ option' = [option EXCEPT ![w.o] = w.copy]
    BY <1>6 DEF CommitOption
  <2>2. w.o \in Option /\ option'[w.o] = w.copy /\ \A o \in Option \ {w.o} : option'[o] = option[o]
    BY <2>1, EditFields DEF CatalogueShape
  <2> SUFFICES ASSUME "options" \notin clashed'
               PROVE  /\ OptionsApart' /\ OptionsKnown' /\ WritesKnown' /\ RowsSound'
                      /\ ~doubled' => OptionsDiffer' /\ WritesDiffer'
    BY DEF OptionsInv
  <2>3. /\ OptionsApart /\ OptionsKnown /\ WritesKnown /\ RowsSound
        /\ ~doubled => OptionsDiffer /\ WritesDiffer
        /\ OptionsApart' /\ WritesKnown' /\ RowsSound' /\ WritesDiffer'
    BY <2>1, <1>a, <1>b DEF Optional
  <2>4. HasAttr(w.copy.of, w.copy.own)
    BY <2>1, <2>3 DEF WritesKnown
  <2>5. OptionsKnown'
    BY <2>1, <2>2, <2>3, <2>4 DEF OptionsKnown, HasAttr, Filled, Known
  <2>6. ASSUME ~doubled'  PROVE OptionsDiffer'
    <3>1. OptionsDiffer /\ WritesDiffer
      BY <2>1, <2>3, <2>6
    <3>2. \A o \in Option \ {w.o} : ~TakenBy(w.copy.of, w.copy.own, w.copy.value, o)
      BY <2>1, <3>1 DEF WritesDiffer
    <3> QED
      BY <2>2, <3>1, <3>2 DEF OptionsDiffer, TakenBy, Filled
  <2> QED
    BY <2>3, <2>5, <2>6
<1>7. ASSUME NEW a \in Attr, NEW f, SavesAttribute(a, f)  PROVE OptionsInv'
  <2>1. /\ DOMAIN f \subseteq Option
        /\ \A o \in DOMAIN f : f[o].of = a /\ f[o].own = (a \in OwnAttrs)
        /\ \A o \in DOMAIN f : option'[o] = f[o]
        /\ \A o \in Option \ DOMAIN f : option'[o] = option[o]
        /\ attr[a] = Blank /\ attr'[a] \in AttrRow
        /\ \A b \in Attr \ {a} : attr'[b] = attr[b]
        /\ doubled' = (doubled \/ Twice(f))
        /\ UNCHANGED <<edit, clashed>>
    BY <1>7, SavedRows
  <2> SUFFICES ASSUME "options" \notin clashed'
               PROVE  /\ OptionsApart' /\ OptionsKnown' /\ WritesKnown' /\ RowsSound'
                      /\ ~doubled' => OptionsDiffer' /\ WritesDiffer'
    BY DEF OptionsInv
  <2>2. /\ OptionsApart /\ OptionsKnown /\ WritesKnown /\ RowsSound
        /\ ~doubled => OptionsDiffer /\ WritesDiffer
    BY <2>1 DEF OptionsInv
  <2>3. ~Known(a) /\ Known(a)' /\ \A b \in Attr \ {a} : Known(b)' <=> Known(b)
    BY <2>1, FilledRows DEF Known, AttrRow
  <2>4. OptionsApart' /\ RowsSound'
    BY <2>1, <2>2 DEF OptionsApart, RowsSound
  <2>5. OptionsKnown'
    <3> SUFFICES ASSUME NEW o \in Option, option'[o] # Blank,
                        option'[o].own = (option'[o].of \in OwnAttrs)
                 PROVE  attr'[option'[o].of].row = "live"
      BY DEF OptionsKnown, HasAttr, Filled, Known
    <3>1. CASE o \in DOMAIN f
      <4>1. option'[o].of = a
        BY <3>1, <2>1
      <4> QED
        BY <4>1, <2>3 DEF Known
    <3>2. CASE o \notin DOMAIN f
      <4>1. option'[o] = option[o] /\ Filled(o) /\ option[o].of \in Attr
        BY <3>2, <2>1, FilledRows DEF Filled, OptionRow
      <4>2. Known(option[o].of)
        BY <4>1, <2>2 DEF OptionsKnown, HasAttr
      <4>3. attr'[option[o].of].row = "live"
        BY <4>1, <4>2, <2>3 DEF Known
      <4> QED
        BY <4>1, <4>3
    <3> QED
      BY <3>1, <3>2
  <2>6. WritesKnown'
    <3> SUFFICES ASSUME NEW c \in Clerk
                 PROVE  /\ edit[c].op \in {"options", "attr"} => attr'[edit[c].a].row = "live"
                        /\ edit[c].op = "option" /\ edit[c].copy.own = (edit[c].copy.of \in OwnAttrs) =>
                              attr'[edit[c].copy.of].row = "live"
      BY <2>1 DEF WritesKnown, HasAttr, Known
    <3>1. edit[c].op \in {"options", "attr"} => edit[c].a \in Attr
      BY EditFields DEF CatalogueShape
    <3>2. edit[c].op = "option" => edit[c].copy.of \in Attr
      BY EditFields DEF CatalogueShape, OptionRow
    <3>3. ASSUME NEW b \in Attr, Known(b)  PROVE Known(b)'
      BY <2>3, <3>3
    <3>4. edit[c].op \in {"options", "attr"} => attr'[edit[c].a].row = "live"
      BY <3>1, <3>3, <2>1, <2>2 DEF WritesKnown, Known
    <3>5. edit[c].op = "option" /\ edit[c].copy.own = (edit[c].copy.of \in OwnAttrs) =>
             attr'[edit[c].copy.of].row = "live"
      BY <3>2, <3>3, <2>1, <2>2 DEF WritesKnown, HasAttr, Known
    <3> QED
      BY <3>4, <3>5
  <2>7. ASSUME ~doubled'  PROVE OptionsDiffer' /\ WritesDiffer'
    <3>1. OptionsDiffer /\ WritesDiffer /\ ~Twice(f)
      BY <2>1, <2>2, <2>7
    <3>2. \A q \in Option : ~(Filled(q) /\ option[q].of = a /\ option[q].own = (a \in OwnAttrs))
      BY <2>2, <2>3 DEF OptionsKnown, HasAttr
    <3>3. OptionsDiffer'
      <4> SUFFICES ASSUME NEW o \in Option, NEW q \in Option, option'[o] # Blank, option'[q] # Blank,
                          option'[q].of = option'[o].of, option'[q].own = option'[o].own,
                          option'[q].value = option'[o].value
                   PROVE  o = q
        BY DEF OptionsDiffer, TakenBy, Filled
      <4>2. CASE o \in DOMAIN f /\ q \in DOMAIN f
        BY <4>2, <2>1, <3>1 DEF Twice
      <4>3. CASE o \notin DOMAIN f /\ q \notin DOMAIN f
        BY <4>3, <2>1, <3>1 DEF OptionsDiffer, TakenBy, Filled
      <4>4. CASE o \in DOMAIN f /\ q \notin DOMAIN f
        BY <4>4, <2>1, <3>2 DEF Filled
      <4>5. CASE o \notin DOMAIN f /\ q \in DOMAIN f
        BY <4>5, <2>1, <3>2 DEF Filled
      <4> QED
        BY <4>2, <4>3, <4>4, <4>5
    <3>4. ASSUME NEW c \in Clerk, edit[c].op = "options", NEW v \in edit[c].new, NEW o \in Option,
                 option'[o] # Blank, option'[o].of = edit[c].a, option'[o].own = edit[c].own,
                 option'[o].value = v
          PROVE  FALSE
      <4>1. Known(edit[c].a)
        BY <3>4, <2>2 DEF WritesKnown
      <4>2. o \notin DOMAIN f
        BY <4>1, <2>1, <2>3, <3>4
      <4> QED
        BY <4>2, <2>1, <3>1, <3>4 DEF WritesDiffer, TakenBy, Filled
    <3>5. ASSUME NEW c \in Clerk, edit[c].op = "option", NEW o \in Option \ {edit[c].o},
                 option'[o] # Blank, option'[o].of = edit[c].copy.of,
                 option'[o].own = edit[c].copy.own, option'[o].value = edit[c].copy.value
          PROVE  FALSE
      <4>1. HasAttr(edit[c].copy.of, edit[c].copy.own)
        BY <3>5, <2>2 DEF WritesKnown
      <4>2. o \notin DOMAIN f
        BY <4>1, <2>1, <2>3, <3>5 DEF HasAttr
      <4> QED
        BY <4>2, <2>1, <3>1, <3>5 DEF WritesDiffer, TakenBy, Filled
    <3>6. WritesDiffer'
      BY <2>1, <3>4, <3>5 DEF WritesDiffer, TakenBy, Filled
    <3> QED
      BY <3>3, <3>6
  <2> QED
    BY <2>2, <2>4, <2>5, <2>6, <2>7
<1>8. ASSUME NEW os \in SUBSET Option, DeleteOptions(os)  PROVE OptionsInv'
  <2>1. /\ UNCHANGED <<attr, edit, doubled, clashed>>
        /\ \A o \in Option : option'[o] # Blank => option'[o] = option[o]
    BY <1>8 DEF DeleteOptions
  <2> QED
    BY <2>1, QuietOptions DEF Known
<1>9. ASSUME \/ \E k \in Category, on \in BOOLEAN : UpdateCategoryStatus(k, on)
             \/ \E p \in Item : RemoveProduct(p)
             \/ UNCHANGED catalogueVars
      PROVE  OptionsInv'
  <2>1. UNCHANGED <<attr, option, edit, doubled, clashed>>
    BY <1>9 DEF UpdateCategoryStatus, RemoveProduct, catalogueVars
  <2> QED
    BY <2>1, QuietOptions DEF Known
<1> QED
  BY <1>1, <1>2, <1>3, <1>4, <1>5, <1>6, <1>7, <1>8, <1>9, CatalogueNextOf

CatalogueInv == CatalogueBase /\ FilingInv /\ BindingInv /\ OptionsInv

LEMMA CatalogueInvHolds == CatalogueSpec => []CatalogueInv
<1>1. ASSUME CatalogueInit  PROVE CatalogueInv
  <2>1. CatalogueShape
    BY <1>1 DEF CatalogueInit, CatalogueShape, EditShape
  <2>2. \A c \in Clerk : edit[c].op = "none"
    BY <1>1 DEF CatalogueInit, NoEdit
  <2>3. /\ \A k \in Category : ~Kept(k)
        /\ \A o \in Option : ~Filled(o)
        /\ \A p \in Item : item[p].row = "none"
    BY <1>1 DEF CatalogueInit, Blank, Kept, Filled
  <2>4. CatalogueBase
    BY <2>1, <2>2 DEF CatalogueBase, EmptiesARow
  <2>5. FilingInv
    BY <2>2, <2>3 DEF FilingInv, FilingApart, FilesSee, EmptiesSee, FiledKept
  <2>6. BindingInv
    BY <2>2, <2>3 DEF BindingInv, BindingApart, BindsSee, UnbindsSee, BoundKnown
  <2>7. OptionsInv
    BY <2>2, <2>3 DEF OptionsInv, OptionsApart, OptionsKnown, WritesKnown, RowsSound,
                      OptionsDiffer, WritesDiffer, Optional
  <2> QED
    BY <2>4, <2>5, <2>6, <2>7 DEF CatalogueInv
<1>2. ASSUME CatalogueInv, [CatalogueNext]_catalogueVars  PROVE CatalogueInv'
  BY <1>2, CatalogueBaseStep, FilingStep, BindingStep, OptionsStep DEF CatalogueInv
<1> QED
  BY <1>1, <1>2, PTL DEF CatalogueSpec

LEMMA CatalogueInvMeans ==
  ASSUME CatalogueInv
  PROVE  CatalogueTypeOK /\ CategoryThere /\ BoundThere /\ OptionOnce /\ OptionBelongs
<1> USE DEF CatalogueInv, CatalogueBase
<1>1. CatalogueTypeOK
  <2>1. \A c \in Clerk : edit[c] \in EditShape
    BY DEF CatalogueShape
  <2> QED
    BY <2>1 DEF CatalogueShape, CatalogueTypeOK, EditShape
<1>2. CategoryThere
  BY DEF CategoryThere, FilingInv, FiledKept
<1>3. BoundThere
  BY DEF BoundThere, BindingInv, BoundKnown
<1>4. OptionOnce
  BY DEF OptionOnce, OptionsInv, OptionsDiffer, TakenBy
<1>5. OptionBelongs
  BY DEF OptionBelongs, OptionsInv, OptionsKnown, HasAttr
<1> QED
  BY <1>1, <1>2, <1>3, <1>4, <1>5
-----------------------------------------------------------------------------
(* Imports: the layout of a sheet *)

NoteRow == [part : {"heading", "note", "empty"}, entry : EntryShape]
UserRow == [part : {"sample", "data"}, entry : EntryShape]
SheetRow == [part : {"heading", "note", "empty", "mark", "sample", "data"}, entry : EntryShape]

LEMMA RowShapes ==
  /\ Mark \in SheetRow /\ Mark.part = "mark"
  /\ Heading \in NoteRow /\ EmptyRow \in NoteRow /\ RowOf("note") \in NoteRow
  /\ \A second \in SheetCategory \union {Blank0, Text0} : SampleOf(second) \in UserRow
  /\ \A e \in Entry : [part |-> "data", entry |-> e] \in UserRow
  /\ NoteRow \subseteq SheetRow /\ UserRow \subseteq SheetRow
<1>1. Written \in EntryShape
  BY DEF Written, EntryShape
<1>2. \A b \in BOOLEAN, k \in SheetCategory \union {Blank0, Text0} :
        /\ [Written EXCEPT !.named = FALSE, !.second = k] \in EntryShape
        /\ [Written EXCEPT !.second = k, !.sound = TRUE] \in EntryShape
  BY DEF Written, EntryShape
<1>3. \A e \in Entry : e \in EntryShape
  BY SheetAssumption
<1> QED
  BY <1>1, <1>2, <1>3 DEF Mark, Heading, EmptyRow, RowOf, SampleOf, NoteRow, UserRow, SheetRow

\* Rows one behind the other.
LEMMA RowsJoin ==
  \A s, t \in Seq(SheetRow) :
    /\ s \o t \in Seq(SheetRow) /\ Len(s \o t) = Len(s) + Len(t)
    /\ \A i \in 1..Len(s) + Len(t) :
         (s \o t)[i] = IF i <= Len(s) THEN s[i] ELSE t[i - Len(s)]
<1> SUFFICES ASSUME NEW s \in Seq(SheetRow), NEW t \in Seq(SheetRow)
             PROVE  /\ s \o t \in Seq(SheetRow) /\ Len(s \o t) = Len(s) + Len(t)
                    /\ \A i \in 1..Len(s) + Len(t) :
                         (s \o t)[i] = IF i <= Len(s) THEN s[i] ELSE t[i - Len(s)]
  OBVIOUS
<1> QED
  BY ConcatProperties

LEMMA RowsAssociate ==
  \A s, t, u \in Seq(SheetRow) : (s \o t) \o u = s \o (t \o u)
<1> SUFFICES ASSUME NEW s \in Seq(SheetRow), NEW t \in Seq(SheetRow), NEW u \in Seq(SheetRow)
             PROVE  (s \o t) \o u = s \o (t \o u)
  OBVIOUS
<1> QED
  BY ConcatAssociative

LEMMA MarkRows == <<Mark, Heading>> \in Seq(SheetRow)
<1>1. Mark \in SheetRow /\ Heading \in SheetRow
  BY RowShapes
<1> QED
  BY <1>1

\* Above the mark there are no marks, samples or data.
LEMMA AboveNotes ==
  ASSUME IsFiniteSet(SheetCategory), NEW for, NEW cats \in SUBSET SheetCategory
  PROVE  Above(for, cats) \in Seq(NoteRow)
<1>1. \A n \in Nat : Rows(n, "note") \in Seq(NoteRow)
  BY RowShapes DEF Rows
<1>2. /\ <<Heading>> \in Seq(NoteRow) /\ <<EmptyRow>> \in Seq(NoteRow)
      /\ <<Heading, EmptyRow>> \in Seq(NoteRow)
  BY RowShapes
<1>3. \A s, t \in Seq(NoteRow) : s \o t \in Seq(NoteRow)
  BY ConcatProperties
<1>4. Cardinality(cats) \in Nat
  BY FS_Subset, FS_CardinalityType
<1>5. ProductRows(Cardinality(cats)) \in Seq(NoteRow)
  <2>1. InfoRows \in Seq(NoteRow)
    BY <1>1, <1>2, <1>3 DEF InfoRows
  <2>2. 2 + Cardinality(cats) \in Nat
    BY <1>4
  <2>3. ReferenceRows(Cardinality(cats)) \in Seq(NoteRow)
    BY <2>2, <1>1, <1>2, <1>3 DEF ReferenceRows
  <2> QED
    BY <2>1, <2>3, <1>2, <1>3 DEF ProductRows
<1>6. AttributeRows \in Seq(NoteRow)
  <2>1. Rows(5, "note") \in Seq(NoteRow)
    BY <1>1
  <2> QED
    BY <2>1, <1>2, <1>3 DEF AttributeRows
<1> QED
  BY <1>5, <1>6 DEF Above

LEMMA SamplesFilled ==
  ASSUME NEW for, NEW cats \in SUBSET SheetCategory
  PROVE  Samples(for, cats) \in Seq(UserRow)
<1>1. SampleOf(Text0) \in UserRow
  BY RowShapes
<1>2. ASSUME cats # {}  PROVE SampleOf(CHOOSE k \in cats : TRUE) \in UserRow
  BY <1>2, RowShapes
<1> QED
  BY <1>1, <1>2 DEF Samples

LEMMA EntriesFilled ==
  ASSUME NEW entries \in EntryLists
  PROVE  FilledIn(entries) \in Seq(UserRow)
<1>1. PICK n \in 0..MaxEntries : entries \in [1..n -> Entry]
  BY DEF EntryLists
<1>2. n \in Nat /\ \A i \in 1..n : [part |-> "data", entry |-> entries[i]] \in UserRow
  BY <1>1, RowShapes, SheetAssumption
<1> QED
  BY <1>1, <1>2 DEF FilledIn

\* Where the rows of a sheet are: those of the user behind where the data start, and nothing
\* else as long as there is a mark.
Laid(rows) ==
  /\ rows \in Seq(SheetRow) /\ DataStart(rows) \in Nat \ {0}
  /\ \A r \in DOMAIN rows : rows[r].part = "data" => r >= DataStart(rows)
  /\ (\E r \in DOMAIN rows : rows[r].part = "mark") =>
       \A r \in DOMAIN rows : r >= DataStart(rows) => rows[r].part \in {"sample", "data"}

LEMMA MarkedLaid ==
  ASSUME NEW U \in Seq(NoteRow), NEW V \in Seq(UserRow)
  PROVE  Laid(U \o <<Mark, Heading>> \o V)
<1> DEFINE MH == <<Mark, Heading>>
           rows == U \o MH \o V
           m == Len(U) + 1
<1>1. /\ U \in Seq(SheetRow) /\ MH \in Seq(SheetRow) /\ V \in Seq(SheetRow)
      /\ Len(MH) = 2 /\ MH[1] = Mark /\ MH[2] = Heading
  BY RowShapes, SeqMonotonic
<1>2. Len(U) \in Nat /\ Len(V) \in Nat
  BY LenProperties
<1>3. /\ \A i \in 1..Len(U) : U[i] \in NoteRow
      /\ \A i \in 1..Len(V) : V[i] \in UserRow
  BY ElementOfSeq
<1> HIDE DEF MH
<1>4. /\ U \o MH \in Seq(SheetRow) /\ Len(U \o MH) = Len(U) + 2
      /\ \A i \in 1..Len(U) + 2 : (U \o MH)[i] = IF i <= Len(U) THEN U[i] ELSE MH[i - Len(U)]
  <2>1. /\ U \o MH \in Seq(SheetRow) /\ Len(U \o MH) = Len(U) + Len(MH)
        /\ \A i \in 1..Len(U) + Len(MH) :
             (U \o MH)[i] = IF i <= Len(U) THEN U[i] ELSE MH[i - Len(U)]
    BY <1>1, RowsJoin
  <2> QED
    BY <1>1, <2>1
<1>5. /\ rows \in Seq(SheetRow) /\ Len(rows) = Len(U) + 2 + Len(V)
      /\ \A i \in 1..Len(U) + 2 + Len(V) :
           rows[i] = IF i <= Len(U) + 2 THEN (U \o MH)[i] ELSE V[i - (Len(U) + 2)]
  <2> DEFINE T == U \o MH
  <2>1. T \in Seq(SheetRow) /\ Len(T) = Len(U) + 2 /\ rows = T \o V
    BY <1>4
  <2> HIDE DEF T, rows
  <2>2. /\ T \o V \in Seq(SheetRow) /\ Len(T \o V) = Len(T) + Len(V)
        /\ \A i \in 1..Len(T) + Len(V) : (T \o V)[i] = IF i <= Len(T) THEN T[i] ELSE V[i - Len(T)]
    BY <1>1, <2>1, RowsJoin
  <2>3. /\ rows \in Seq(SheetRow) /\ Len(rows) = Len(U) + 2 + Len(V)
        /\ \A i \in 1..Len(U) + 2 + Len(V) :
             rows[i] = IF i <= Len(U) + 2 THEN T[i] ELSE V[i - (Len(U) + 2)]
    BY <2>1, <2>2
  <2> QED
    BY <2>3 DEF T
<1> HIDE DEF rows
<1>6. DOMAIN rows = 1..Len(U) + 2 + Len(V)
  BY <1>5, LenProperties
<1>7. /\ \A i \in 1..Len(U) : rows[i] \in NoteRow
      /\ rows[m] = Mark /\ rows[m + 1] = Heading
  <2>1. ASSUME NEW i \in 1..Len(U)  PROVE rows[i] \in NoteRow
    <3>1. i \in 1..Len(U) + 2 /\ i \in 1..Len(U) + 2 + Len(V) /\ i <= Len(U) /\ i <= Len(U) + 2
      BY <1>2
    <3>2. rows[i] = (U \o MH)[i]
      BY <3>1, <1>5
    <3>3. (U \o MH)[i] = U[i]
      BY <3>1, <1>4
    <3> QED
      BY <3>2, <3>3, <1>3
  <2>2. m \in 1..Len(U) + 2 /\ m + 1 \in 1..Len(U) + 2 /\ m - Len(U) = 1 /\ m + 1 - Len(U) = 2
    BY <1>2
  <2>3. rows[m] = Mark /\ rows[m + 1] = Heading
    BY <2>2, <1>1, <1>2, <1>4, <1>5
  <2> QED
    BY <2>1, <2>3
<1>8. \A i \in DOMAIN rows : i >= m + 2 => rows[i] \in UserRow
  <2> SUFFICES ASSUME NEW i \in DOMAIN rows, i >= m + 2  PROVE rows[i] \in UserRow
    OBVIOUS
  <2>1. i - (Len(U) + 2) \in 1..Len(V) /\ ~(i <= Len(U) + 2) /\ i \in 1..Len(U) + 2 + Len(V)
    BY <1>2, <1>6
  <2> QED
    BY <2>1, <1>3, <1>5
<1>9. \A i \in DOMAIN rows : i < m + 2 => i \in 1..Len(U) \/ i = m \/ i = m + 1
  BY <1>2, <1>6
<1>10. m \in DOMAIN rows /\ m \in Nat
  BY <1>2, <1>6
<1>11. \A i \in DOMAIN rows : i < m + 2 => rows[i].part \notin {"sample", "data"}
  BY <1>7, <1>9, RowShapes DEF NoteRow
<1>12. \A i \in DOMAIN rows : rows[i].part = "mark" <=> i = m
  <2>1. \A i \in DOMAIN rows : i >= m + 2 \/ i < m + 2
    BY <1>6, <1>10
  <2> QED
    BY <2>1, <1>7, <1>8, <1>9, RowShapes DEF NoteRow, UserRow
<1>13. DataStart(rows) = m + 2
  <2>1. {r \in DOMAIN rows : rows[r].part = "mark"} = {m}
    BY <1>10, <1>12
  <2>2. (CHOOSE r \in {m} : \A q \in {m} : q <= r) = m
    BY <1>10
  <2> QED
    BY <2>1, <2>2 DEF DataStart
<1>14. DataStart(rows) \in Nat \ {0}
  BY <1>10, <1>13
<1>15. \A r \in DOMAIN rows : rows[r].part = "data" => r >= DataStart(rows)
  BY <1>6, <1>10, <1>11, <1>13
<1>16. \A r \in DOMAIN rows : r >= DataStart(rows) => rows[r].part \in {"sample", "data"}
  BY <1>8, <1>13 DEF UserRow
<1>17. Laid(rows)
  BY <1>5, <1>14, <1>15, <1>16 DEF Laid
<1> QED
  BY <1>17 DEF rows, MH

LEMMA UnmarkedLaid ==
  ASSUME NEW V \in Seq(UserRow)
  PROVE  Laid(<<Heading>> \o V)
<1> DEFINE H == <<Heading>>
           rows == H \o V
<1>1. /\ H \in Seq(SheetRow) /\ V \in Seq(SheetRow)
      /\ Len(H) = 1 /\ H[1] = Heading
  BY RowShapes, SeqMonotonic
<1>2. Len(V) \in Nat /\ \A i \in 1..Len(V) : V[i] \in UserRow
  BY LenProperties, ElementOfSeq
<1> HIDE DEF H
<1>3. /\ rows \in Seq(SheetRow) /\ Len(rows) = 1 + Len(V)
      /\ \A i \in 1..1 + Len(V) : rows[i] = IF i <= 1 THEN H[i] ELSE V[i - 1]
  <2>1. /\ H \o V \in Seq(SheetRow) /\ Len(H \o V) = Len(H) + Len(V)
        /\ \A i \in 1..Len(H) + Len(V) : (H \o V)[i] = IF i <= Len(H) THEN H[i] ELSE V[i - Len(H)]
    BY <1>1, RowsJoin
  <2> QED
    BY <1>1, <2>1
<1> HIDE DEF rows
<1>4. DOMAIN rows = 1..1 + Len(V)
  BY <1>3, LenProperties
<1>5. \A i \in DOMAIN rows : i = 1 \/ i \in 2..1 + Len(V)
  BY <1>2, <1>4
<1>6. rows[1] = Heading /\ 1 \in DOMAIN rows
  BY <1>1, <1>2, <1>3, <1>4
<1>7. \A i \in 2..1 + Len(V) : rows[i] \in UserRow
  <2> SUFFICES ASSUME NEW i \in 2..1 + Len(V)  PROVE rows[i] \in UserRow
    OBVIOUS
  <2>1. i - 1 \in 1..Len(V) /\ ~(i <= 1) /\ i \in 1..1 + Len(V)
    BY <1>2
  <2> QED
    BY <2>1, <1>2, <1>3
<1>8. \A i \in DOMAIN rows : rows[i].part # "mark" /\ (rows[i].part = "data" => i # 1)
  BY <1>5, <1>6, <1>7, RowShapes DEF NoteRow, UserRow
<1>9. DataStart(rows) = 2
  <2>1. {r \in DOMAIN rows : rows[r].part = "mark"} = {}
    BY <1>8
  <2> QED
    BY <2>1 DEF DataStart
<1>10. \A r \in DOMAIN rows : rows[r].part = "data" => r >= 2
  BY <1>4, <1>8
<1>11. Laid(rows)
  BY <1>3, <1>8, <1>9, <1>10 DEF Laid
<1> QED
  BY <1>11 DEF rows, H

\* However much of the template is left.
LEMMA SheetsLaid ==
  ASSUME IsFiniteSet(SheetCategory), NEW for, NEW cats \in SUBSET SheetCategory,
         NEW part \in {"all", "no samples", "heading"}, NEW entries \in EntryLists
  PROVE  Laid(Left(for, cats, part) \o FilledIn(entries))
<1> DEFINE U == Above(for, cats)
           MH == <<Mark, Heading>>
           S == Samples(for, cats)
           F == FilledIn(entries)
<1>1. U \in Seq(NoteRow) /\ S \in Seq(UserRow) /\ F \in Seq(UserRow)
  BY AboveNotes, SamplesFilled, EntriesFilled
<1>2. /\ U \o MH \in Seq(SheetRow) /\ S \in Seq(SheetRow) /\ F \in Seq(SheetRow)
      /\ S \o F \in Seq(UserRow)
  <2>1. MH \in Seq(SheetRow)
    BY MarkRows
  <2> HIDE DEF U, MH, S, F
  <2>2. \A s \in Seq(NoteRow) : s \in Seq(SheetRow)
    BY RowShapes, SeqMonotonic
  <2>3. \A s \in Seq(UserRow) : s \in Seq(SheetRow)
    BY RowShapes, SeqMonotonic
  <2>4. U \in Seq(SheetRow) /\ S \in Seq(SheetRow) /\ F \in Seq(SheetRow)
    BY <1>1, <2>2, <2>3
  <2>5. S \o F \in Seq(UserRow)
    BY <1>1, ConcatProperties
  <2> QED
    BY <2>1, <2>4, <2>5, RowsJoin
<1>3. CASE part = "all"
  <2>1. Left(for, cats, part) = (U \o MH) \o S
    BY <1>3 DEF Left
  <2>2. ((U \o MH) \o S) \o F = (U \o MH) \o (S \o F)
    <3> DEFINE T == U \o MH
    <3>1. T \in Seq(SheetRow) /\ S \in Seq(SheetRow) /\ F \in Seq(SheetRow)
      BY <1>2
    <3> HIDE DEF T, S, F
    <3>2. (T \o S) \o F = T \o (S \o F)
      BY <3>1, RowsAssociate
    <3> QED
      BY <3>2 DEF T
  <2>3. Laid((U \o MH) \o (S \o F))
    BY <1>1, <1>2, MarkedLaid
  <2> QED
    BY <2>1, <2>2, <2>3
<1>4. CASE part = "no samples"
  BY <1>1, <1>4, MarkedLaid DEF Left
<1>5. CASE part = "heading"
  BY <1>1, <1>5, UnmarkedLaid DEF Left
<1> QED
  BY <1>3, <1>4, <1>5

-----------------------------------------------------------------------------
(* Imports: what becomes of the rows *)

\* The rows that an import takes.
Due == {r \in DOMAIN sheet.rows : r >= DataStart(sheet.rows) /\ ~Skipped(At(r).entry)}

SheetInv ==
  /\ Laid(sheet.rows) /\ step \in {"upload", "read", "save", "done"}
  /\ uploaded.anchored \subseteq Anchored /\ uploaded.ids \subseteq PictureId
  /\ queue \subseteq Due /\ handled \subseteq Due
  /\ step \in {"save", "done"} => Due \subseteq queue \union handled
  /\ step = "done" => queue = {}
  /\ present \subseteq SheetCategory
  /\ \A m \in made :
       /\ m.row \in handled /\ m.pictures \in 0..5
       /\ m.pictures <= At(m.row).entry.urls + At(m.row).entry.anchored
                          + Cardinality(At(m.row).entry.ids)

LEMMA RowEntries ==
  ASSUME Laid(sheet.rows), NEW r \in DOMAIN sheet.rows
  PROVE  At(r).entry \in EntryShape /\ r \in Nat
<1>1. sheet.rows \in Seq(SheetRow)
  BY DEF Laid
<1>2. DOMAIN sheet.rows = 1..Len(sheet.rows) /\ Len(sheet.rows) \in Nat
  BY <1>1, LenProperties
<1>3. sheet.rows[r] \in SheetRow
  BY <1>1, <1>2, ElementOfSeq
<1> QED
  BY <1>2, <1>3 DEF At, SheetRow

LEMMA Numbers == \A n \in Nat : IsFiniteSet(1..n) /\ Cardinality(1..n) <= n
<1> SUFFICES ASSUME NEW n \in Nat  PROVE IsFiniteSet(1..n) /\ Cardinality(1..n) <= n
  OBVIOUS
<1>1. IsFiniteSet(1..n) /\ Cardinality(1..n) = IF 1 > n THEN 0 ELSE n - 1 + 1
  BY FS_Interval
<1> QED
  BY <1>1

\* A row has no more pictures than it was entered with.
LEMMA PicturesOwn ==
  ASSUME IsFiniteSet(PictureId), SheetInv, NEW r \in DOMAIN sheet.rows
  PROVE  /\ Pictures(r) \in Nat
         /\ At(r).entry.urls \in Nat /\ At(r).entry.anchored \in Nat
         /\ Cardinality(At(r).entry.ids) \in Nat
         /\ Pictures(r) <= At(r).entry.urls + At(r).entry.anchored + Cardinality(At(r).entry.ids)
<1> DEFINE e == At(r).entry
           X == {p \in uploaded.anchored : p.row = r}
<1>1. e \in EntryShape
  BY RowEntries DEF SheetInv
<1>2. e.urls \in Nat /\ e.anchored \in Nat /\ e.ids \in SUBSET PictureId
  BY <1>1 DEF EntryShape
<1>3. /\ Cardinality(e.ids) \in Nat /\ Cardinality(e.ids \intersect uploaded.ids) \in Nat
      /\ Cardinality(e.ids \intersect uploaded.ids) <= Cardinality(e.ids)
  <2>1. IsFiniteSet(e.ids)
    BY <1>2, FS_Subset
  <2>2. IsFiniteSet(e.ids \intersect uploaded.ids)
    BY <2>1, FS_Intersection
  <2> QED
    BY <2>1, <2>2, FS_Intersection, FS_CardinalityType
<1>4. \A p \in X : \E i \in 1..e.anchored : p = [row |-> r, i |-> i]
  <2> SUFFICES ASSUME NEW p \in X  PROVE \E i \in 1..e.anchored : p = [row |-> r, i |-> i]
    OBVIOUS
  <2>1. p \in Anchored /\ p.row = r
    BY DEF SheetInv
  <2>2. PICK q \in DOMAIN sheet.rows :
          p \in {[row |-> Anchor(q), i |-> i] : i \in 1..At(q).entry.anchored}
    BY <2>1 DEF Anchored
  <2>3. PICK i \in 1..At(q).entry.anchored : p = [row |-> Anchor(q), i |-> i]
    BY <2>2
  <2>4. q = r
    BY <2>1, <2>3 DEF Anchor
  <2> QED
    BY <2>3, <2>4 DEF Anchor
<1>5. Cardinality(X) \in Nat /\ Cardinality(X) <= e.anchored
  <2> DEFINE f == [p \in X |-> p.i]
  <2>1. f \in Injection(X, 1..e.anchored)
    <3>1. \A p \in X : p.i \in 1..e.anchored /\ p = [row |-> r, i |-> p.i]
      BY <1>4
    <3>2. f \in [X -> 1..e.anchored]
      BY <3>1
    <3>3. \A p, q \in X : f[p] = f[q] => p = q
      BY <3>1
    <3> QED
      BY <3>2, <3>3 DEF Injection, IsInjective
  <2>2. IsFiniteSet(1..e.anchored) /\ Cardinality(1..e.anchored) <= e.anchored
    BY <1>2, Numbers
  <2> HIDE DEF f, X
  <2>3. IsFiniteSet(X) /\ Cardinality(X) <= Cardinality(1..e.anchored)
    BY <2>1, <2>2, FS_Injection
  <2>4. Cardinality(1..e.anchored) \in Nat
    BY <2>2, FS_CardinalityType
  <2> QED
    BY <1>2, <2>2, <2>3, <2>4, FS_CardinalityType
<1>6. Pictures(r) = e.urls + Cardinality(X) + Cardinality(e.ids \intersect uploaded.ids)
  BY DEF Pictures
<1> HIDE DEF X
<1> QED
  BY <1>2, <1>3, <1>5, <1>6

LEMMA SheetInvHolds ==
  ASSUME IsFiniteSet(SheetCategory), IsFiniteSet(PictureId)
  PROVE  SheetSpec => []SheetInv
<1>1. ASSUME SheetInit  PROVE SheetInv
  <2>1. PICK for \in {"products", "attributes"}, cats \in SUBSET SheetCategory,
             part \in {"all", "no samples", "heading"}, entries \in EntryLists :
          /\ sheet = [for |-> for, rows |-> Left(for, cats, part) \o FilledIn(entries)]
          /\ present = cats
    BY <1>1 DEF SheetInit
  <2>2. Laid(sheet.rows)
    BY <2>1, SheetsLaid
  <2>3. /\ step = "upload" /\ uploaded.anchored = {} /\ uploaded.ids = {}
        /\ queue = {} /\ handled = {} /\ made = {}
    BY <1>1 DEF SheetInit, NoUploads
  <2> QED
    BY <2>1, <2>2, <2>3 DEF SheetInv
<1>2. ASSUME SheetInv, [SheetNext]_sheetVars  PROVE SheetInv'
  <2>1. CASE UploadPictures
    <3>1. /\ uploaded'.anchored \subseteq Anchored /\ uploaded'.ids \subseteq PictureId
          /\ step' = "read" /\ UNCHANGED <<sheet, queue, handled, made, present>>
          /\ step = "upload"
      <4>1. CASE ~Mine
        BY <1>2, <2>1, <4>1 DEF UploadPictures, SheetInv
      <4>2. CASE Mine
        BY <2>1, <4>2 DEF UploadPictures
      <4> QED
        BY <4>1, <4>2
    <3>2. Due' = Due /\ Anchored' = Anchored
      BY <3>1 DEF Due, Anchored, At, Skipped, Mine
    <3> QED
      BY <1>2, <3>1, <3>2 DEF SheetInv, At
  <2>2. CASE ReadRows
    <3>1. queue' = Due /\ step' = "save" /\ UNCHANGED <<sheet, uploaded, handled, made, present>>
      BY <2>2 DEF ReadRows, Due
    <3>2. Due' = Due /\ Anchored' = Anchored
      BY <3>1 DEF Due, Anchored, At, Skipped, Mine
    <3> QED
      BY <1>2, <3>1, <3>2 DEF SheetInv, At
  <2>3. CASE SaveRow
    <3>1. PICK r \in queue :
            /\ step = "save"
            /\ \/ Accepts(r) /\ made' = made \union {[row |-> r, pictures |-> IF Mine THEN Pictures(r) ELSE 0]}
               \/ UNCHANGED made
            /\ queue' = queue \ {r} /\ handled' = handled \union {r}
            /\ UNCHANGED <<sheet, step, uploaded, present>>
      BY <2>3 DEF SaveRow
    <3>2. Due' = Due /\ Anchored' = Anchored
      BY <3>1 DEF Due, Anchored, At, Skipped, Mine
    <3>3. /\ queue' \subseteq Due /\ handled' \subseteq Due
          /\ step' \in {"save", "done"} => Due \subseteq queue' \union handled'
          /\ step' # "done"
      BY <1>2, <3>1 DEF SheetInv
    <3>4. r \in DOMAIN sheet.rows
      BY <1>2 DEF SheetInv, Due
    <3>5. ASSUME Accepts(r)
          PROVE  LET n == IF Mine THEN Pictures(r) ELSE 0
                 IN  /\ n \in 0..5
                     /\ n <= At(r).entry.urls + At(r).entry.anchored + Cardinality(At(r).entry.ids)
      <4>1. /\ Pictures(r) \in Nat
            /\ At(r).entry.urls \in Nat /\ At(r).entry.anchored \in Nat
            /\ Cardinality(At(r).entry.ids) \in Nat
            /\ Pictures(r) <= At(r).entry.urls + At(r).entry.anchored
                               + Cardinality(At(r).entry.ids)
        BY <1>2, <3>4, PicturesOwn
      <4>2. Mine => Pictures(r) <= 5
        BY <3>5 DEF Accepts, Few
      <4> QED
        BY <4>1, <4>2
    <3>6. ASSUME NEW m \in made'
          PROVE  /\ m.row \in handled' /\ m.pictures \in 0..5
                 /\ m.pictures <= At(m.row).entry.urls + At(m.row).entry.anchored
                                    + Cardinality(At(m.row).entry.ids)
      <4>1. CASE m \in made
        BY <1>2, <3>1, <4>1 DEF SheetInv
      <4>2. CASE m \notin made
        <5>1. Accepts(r) /\ m = [row |-> r, pictures |-> IF Mine THEN Pictures(r) ELSE 0]
          BY <3>1, <3>6, <4>2
        <5> QED
          BY <3>1, <3>5, <5>1
      <4> QED
        BY <4>1, <4>2
    <3> QED
      BY <1>2, <3>1, <3>2, <3>3, <3>6 DEF SheetInv, At
  <2>4. CASE FinishImport
    <3>1. step = "save" /\ queue = {} /\ step' = "done"
          /\ UNCHANGED <<sheet, uploaded, queue, handled, made, present>>
      BY <2>4 DEF FinishImport
    <3>2. Due' = Due /\ Anchored' = Anchored
      BY <3>1 DEF Due, Anchored, At, Skipped, Mine
    <3> QED
      BY <1>2, <3>1, <3>2 DEF SheetInv, At
  <2>5. ASSUME NEW k \in SheetCategory, LoseCategory(k)  PROVE SheetInv'
    <3>1. present' \subseteq present /\ UNCHANGED <<sheet, step, uploaded, queue, handled, made>>
      BY <2>5 DEF LoseCategory
    <3>2. Due' = Due /\ Anchored' = Anchored
      BY <3>1 DEF Due, Anchored, At, Skipped, Mine
    <3> QED
      BY <1>2, <3>1, <3>2 DEF SheetInv, At
  <2>6. CASE UNCHANGED sheetVars
    <3>1. Due' = Due /\ Anchored' = Anchored
      BY <2>6 DEF sheetVars, Due, Anchored, At, Skipped, Mine
    <3> QED
      BY <1>2, <2>6, <3>1 DEF sheetVars, SheetInv, At
  <2> QED
    BY <1>2, <2>1, <2>2, <2>3, <2>4, <2>5, <2>6 DEF SheetNext
<1> QED
  BY <1>1, <1>2, PTL DEF SheetSpec

LEMMA SheetInvMeans ==
  ASSUME SheetInv
  PROVE  SheetTypeOK /\ RowsAsEntered
<1>1. \A r \in Due : r \in DOMAIN sheet.rows /\ r >= DataStart(sheet.rows)
  BY DEF Due
<1>2. SheetTypeOK
  <2>1. \A p \in uploaded.anchored : p \in [row : Nat, i : Nat]
    <3> SUFFICES ASSUME NEW p \in uploaded.anchored  PROVE p \in [row : Nat, i : Nat]
      OBVIOUS
    <3>1. p \in Anchored
      BY DEF SheetInv
    <3>2. PICK q \in DOMAIN sheet.rows :
            p \in {[row |-> Anchor(q), i |-> i] : i \in 1..At(q).entry.anchored}
      BY <3>1 DEF Anchored
    <3>3. PICK i \in 1..At(q).entry.anchored : p = [row |-> Anchor(q), i |-> i]
      BY <3>2
    <3>4. At(q).entry \in EntryShape /\ q \in Nat
      BY RowEntries DEF SheetInv
    <3>5. i \in Nat
      BY <3>4 DEF EntryShape
    <3> QED
      BY <3>3, <3>4, <3>5 DEF Anchor
  <2> QED
    BY <1>1, <2>1 DEF SheetInv, SheetTypeOK
<1>3. OnlyEntries
  BY <1>1 DEF SheetInv, Laid, OnlyEntries, Marked, At
<1>4. NothingSkipped
  BY DEF SheetInv, Laid, NothingSkipped, Due, Skipped, At
<1>5. FewPictures /\ OwnPictures
  BY DEF SheetInv, FewPictures, OwnPictures
<1> QED
  BY <1>2, <1>3, <1>4, <1>5 DEF RowsAsEntered

(* An import takes the rows that were entered, each once, and none of the template's   *)
(* but samples, with at most five pictures and only their own (RowsAsEntered).  What    *)
(* makes it go through is the layout: all that importProducts hands out stands above   *)
(* the mark, and the data start two rows behind it.                                    *)
THEOREM SheetsAreReadAsEntered ==
  ASSUME IsFiniteSet(SheetCategory), IsFiniteSet(PictureId)
  PROVE  SheetSpec => []RowsAsEntered
BY SheetInvHolds, SheetInvMeans, PTL

-----------------------------------------------------------------------------

(* Of products, categories, attributes, options and imports side by side: codes and    *)
(* ratios are given once, nothing is filed under, bound to or an option of what was    *)
(* deleted, and a value is among an attribute's options once, as long as no request    *)
(* crossed another one that looked for what it wrote (CatalogueHolds).                 *)
THEOREM CatalogueStands ==
  ASSUME IsFiniteSet(Caller), IsFiniteSet(SheetCategory), IsFiniteSet(PictureId)
  PROVE  GoodsSpec => []CatalogueHolds
<1>1. ProductsSpec => []ProductsInv
  BY ProductsInvHolds
<1>2. CatalogueSpec => []CatalogueInv
  BY CatalogueInvHolds
<1>3. SheetSpec => []SheetInv
  BY SheetInvHolds
<1>4. ProductsInv /\ CatalogueInv /\ SheetInv => CatalogueHolds
  BY ProductsInvMeans, CatalogueInvMeans, SheetInvMeans DEF CatalogueHolds, GoodsTypeOK
<1> QED
  BY <1>1, <1>2, <1>3, <1>4, PTL DEF GoodsSpec
=============================================================================
