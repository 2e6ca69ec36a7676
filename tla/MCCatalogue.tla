----------------------------- MODULE MCCatalogue -----------------------------
(***************************************************************************)
(* An instance for products, units and stock units, for the catalogue and  *)
(* for imports.  They share no state here; a behaviour exercises one of    *)
(* them (turn), with few enough things at a time.                          *)
(***************************************************************************)
EXTENDS Goods, TLC

CONSTANTS u1, u2, u3, a1, a2, s1, s2, k1, d1, v1

VARIABLE turn

Symmetry == Permutations(Caller)

\* What a row of a sheet may be filled in with: sound, without a name, not sound,
\* without a category, and with pictures of each kind, one too many with all of them.
Sound0 == [named |-> TRUE, second |-> k1, sound |-> TRUE, urls |-> 0, anchored |-> 0, ids |-> {}]
Filled0 ==
  {Sound0, [Sound0 EXCEPT !.named = FALSE], [Sound0 EXCEPT !.sound = FALSE],
   [Sound0 EXCEPT !.second = Blank0], [Sound0 EXCEPT !.anchored = 2],
   [Sound0 EXCEPT !.urls = 4, !.anchored = 1],
   [Sound0 EXCEPT !.urls = 4, !.anchored = 1, !.ids = {d1}]}

Init ==
  /\ ProductsInit /\ CatalogueInit /\ SheetInit
  /\ turn \in {"rules", "units", "goods", "names", "filing", "binding", "options", "sheets"}
  /\ turn # "sheets" => present = {} /\ sheet = [for |-> "products", rows |-> <<Heading>>]

-----------------------------------------------------------------------------
Asked(ops) == {call'[c] : c \in {d \in Caller : call'[d].op \in ops}}
Busy == Cardinality(Asked({"unit", "dropUnit", "clear", "fill", "product", "in", "out"}))
Plain(u) == [row |-> "live", code |-> IF u = u1 THEN s1 ELSE s2, active |-> TRUE]
Without(u) == unit'[u] = Unmade /\ \A w \in Asked({"unit"}) : w.u # u
NoRules == rules' = {} /\ Asked({"clear", "fill"}) = {}

\* A unit of the tenant and one of the platform, as they were made.
UnitsPlain ==
  /\ Without(u2)
  /\ \A u \in UnitId : unit'[u] \in {Unmade, Plain(u)}
  /\ \A w \in Asked({"unit"}) : w.copy = Plain(w.u)

\* One product, as it was made.
GoodsPlain ==
  /\ product'[a1] \in {Unmade, NewProduct(s1, s1, u1)} /\ product'[a2] = Unmade
  /\ \A w \in Asked({"product"}) : w.p = a1 /\ w.copy = NewProduct(s1, s1, u1)

\* The barcode is the code, and the second product comes when the first is gone.
OneByOne ==
  /\ \A p \in ProductId : product'[p] # Unmade =>
       product'[p].code = product'[p].barcode /\ product'[p].active
  /\ \A w \in Asked({"product"}) :
       /\ w.copy.code = w.copy.barcode /\ w.copy.active
       /\ w.p = a2 => product'[a1].row = "gone"

\* There is another product than the first or another code than its first one.
Recoded ==
  \/ \E p \in ProductId : product'[p] \notin {Unmade} /\ product'[p].code # s1
  \/ product'[a2] # Unmade
  \/ \E w \in Asked({"product"}) : w.p = a2 \/ w.copy.code # s1

ProductsTurn ==
  /\ turn \in {"rules", "units", "goods", "names"} /\ ProductsNext
  /\ UNCHANGED <<catalogueVars, sheetVars, turn>>
  /\ \/ /\ turn = "rules" /\ UnitsPlain /\ GoodsPlain
        /\ Asked({"clear", "fill"}) # {} => product'[a1] # Unmade /\ unit'[u3] # Unmade
        /\ bookings' <= 1
     \/ /\ turn = "units" /\ GoodsPlain /\ NoRules
        /\ Without(u2) \/ Without(u3)
        /\ bookings' > 0 => Without(u2) /\ Without(u3)
        /\ bookings' > 0 => Busy <= 1 \/ (unit'[u1] = Plain(u1) /\ bookings' <= 1)
     \/ /\ turn = "goods" /\ UnitsPlain /\ NoRules /\ OneByOne
        /\ Asked({"product", "in", "out"}) # {} => unit'[u1] # Unmade /\ unit'[u3] # Unmade
        /\ Recoded => Busy <= 1
     \/ /\ turn = "names" /\ UnitsPlain /\ NoRules /\ Without(u3)
        /\ Asked({"product"}) # {} => unit'[u1] # Unmade
        /\ Asked({"in", "out", "dropUnit"}) = {}

-----------------------------------------------------------------------------
Wants(ops) == \A c \in Clerk : edit'[c].op \in ops \union {"none"}

\* The options there are and those asked for satisfy P.
OptionsAre(P(_)) ==
  /\ \A o \in Option : option'[o] # Blank => P(option'[o])
  /\ \A c \in Clerk :
       /\ edit'[c].op = "option" => P(edit'[c].copy)
       /\ edit'[c].op = "attr" => \A r \in edit'[c].rows : P(r)

\* Only options of the first value are switched off; with both attributes there, options
\* have that value and are on, and one request at a time is about them.
First(r) == r.value = v1 /\ r.on
FirstOrOn(r) == r.value = v1 \/ r.on

CatalogueTurn ==
  /\ turn \in {"filing", "binding", "options"} /\ CatalogueNext
  /\ UNCHANGED <<productVars, sheetVars, turn>>
  /\ \/ turn = "filing" /\ attr' = attr /\ Wants({"bind", "dropCategory", "file"})
     \/ /\ turn = "binding" /\ item' = item /\ Wants({"bind", "dropCategory", "dropAttrs"})
        /\ \A a \in Attr : attr'[a] # Blank => ~attr'[a].select
        /\ \E k \in Category :
             category'[k] = Blank /\ \A c \in Clerk : edit'[c].op = "bind" => edit'[c].k # k
     \/ /\ turn = "options" /\ category' = category
        /\ Wants({"attr", "options", "option", "dropAttrs"})
        /\ OptionsAre(FirstOrOn)
        /\ (\A a \in Attr : attr'[a] # Blank) =>
             /\ \E c \in Clerk : edit'[c] = NoEdit
             /\ OptionsAre(First)
             /\ \A c \in Clerk : edit'[c].op = "options" => edit'[c].new = {v1}

SheetTurn ==
  turn = "sheets" /\ SheetNext /\ UNCHANGED <<productVars, catalogueVars, turn>>

Next == ProductsTurn \/ CatalogueTurn \/ SheetTurn

Spec == Init /\ [][Next]_<<productVars, catalogueVars, sheetVars, turn>>
=============================================================================
