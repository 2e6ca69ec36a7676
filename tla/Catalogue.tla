------------------------------ MODULE Catalogue ------------------------------
(***************************************************************************)
(* The catalogue: categories, the attributes bound to them, the options of *)
(* an attribute and the products filed under a category.  The platform has *)
(* categories and attributes of its own that a tenant reads, files under,  *)
(* binds and adds options to, but does not edit; each side only looks for  *)
(* its own rows before it removes something.  Names, codes and the values  *)
(* of a product's specs are left out.                                      *)
(***************************************************************************)
EXTENDS Integers, FiniteSets

CONSTANTS
  Category, OwnCategories,  \* all of them, those of the tenant
  Attr, OwnAttrs,
  Item,                     \* products, the tenant's
  Option,                   \* rows of attribute_options
  Value,
  Clerk                     \* requests that may be in flight at once

ASSUME CatalogueAssumption == OwnCategories \subseteq Category /\ OwnAttrs \subseteq Attr

VARIABLES
  category, \* the categories' rows with the attributes joined to them
  attr,     \* the attributes' rows
  option,   \* the options' rows
  item,     \* the products' rows
  edit,     \* the requests in flight
  doubled,  \* history: an attribute came with a value given twice
  clashed   \* history: what requests overlapped over

catalogueVars == <<category, attr, option, item, edit, doubled, clashed>>

CategoryRow == [row : {"live", "gone"}, on : BOOLEAN, attrs : SUBSET Attr]
AttrRow == [row : {"live"}, select : BOOLEAN]
OptionRow == [of : Attr, own : BOOLEAN, value : Value, on : BOOLEAN]
ItemRow == [row : {"live", "gone"}, under : Category]
Blank == [row |-> "none"]
NoEdit == [op |-> "none"]

\* Rows and copies keep their shape.
CatalogueTypeOK ==
  /\ \A k \in Category : category[k] \in CategoryRow \union {Blank}
  /\ \A a \in Attr : attr[a] \in AttrRow \union {Blank}
  /\ \A o \in Option : option[o] \in OptionRow \union {Blank}
  /\ \A p \in Item : item[p] \in ItemRow \union {Blank}
  /\ \A c \in Clerk :
       \/ edit[c] = NoEdit
       \/ edit[c] \in [op : {"bind"}, k : Category, copy : CategoryRow,
                       add : SUBSET Attr, drop : SUBSET Attr]
       \/ edit[c] \in [op : {"dropCategory"}, k : Category]
       \/ edit[c] \in [op : {"attr"}, a : Attr, select : BOOLEAN, rows : SUBSET OptionRow]
       \/ edit[c] \in [op : {"dropAttrs"}, ids : SUBSET Attr, own : BOOLEAN]
       \/ edit[c] \in [op : {"options"}, a : Attr, own : BOOLEAN, new : SUBSET Value]
       \/ edit[c] \in [op : {"option"}, o : Option, copy : OptionRow]
       \/ edit[c] \in [op : {"file"}, p : Item, k : Category]
  /\ doubled \in BOOLEAN /\ clashed \subseteq {"filing", "binding", "options"}

CatalogueInit ==
  /\ category = [k \in Category |-> Blank] /\ attr = [a \in Attr |-> Blank]
  /\ option = [o \in Option |-> Blank] /\ item = [p \in Item |-> Blank]
  /\ edit = [c \in Clerk |-> NoEdit] /\ doubled = FALSE /\ clashed = {}

Kept(k) == category[k].row = "live"
Known(a) == attr[a].row = "live"
Filled(o) == option[o] # Blank
Own(k) == k \in OwnCategories

\* Requests of which one looks for what the other is about to write.
Clashing(r, q) ==
  {x \in {"filing", "binding", "options"} :
     \/ x = "filing" /\ {r.op, q.op} = {"dropCategory", "file"}
     \/ x = "binding" /\ {r.op, q.op} = {"bind", "dropAttrs"}
     \/ /\ x = "options"
        /\ {r.op, q.op} \subseteq {"options", "option", "attr", "dropAttrs"}}

Asks(c, r) ==
  /\ edit[c] = NoEdit
  /\ edit' = [edit EXCEPT ![c] = r]
  /\ clashed' = clashed \union UNION {Clashing(r, edit[d]) : d \in Clerk}
  /\ UNCHANGED <<category, attr, option, item, doubled>>

Answers(c) == edit' = [edit EXCEPT ![c] = NoEdit] /\ UNCHANGED clashed

-----------------------------------------------------------------------------
\* readableScopeWhere: a tenant's category may have the platform's attributes, too.
MayBind(k, as) == \A a \in as : Known(a) /\ (Own(k) \/ a \notin OwnAttrs)

\* save
SaveCategory(c, k, as) ==
  /\ category[k] = Blank /\ MayBind(k, as)
  /\ ~\E d \in Clerk : edit[d].op = "bind" /\ edit[d].k = k
  /\ Asks(c, [op |-> "bind", k |-> k, copy |-> [row |-> "live", on |-> TRUE, attrs |-> as],
              add |-> as, drop |-> {}])

\* update
UpdateCategory(c, k, as) ==
  /\ Kept(k) /\ MayBind(k, as)
  /\ Asks(c, [op |-> "bind", k |-> k, copy |-> [category[k] EXCEPT !.attrs = as],
              add |-> as \ category[k].attrs, drop |-> category[k].attrs \ as])

\* The save of the transaction that read the category writes what it found changed: the
\* row is inserted or left as it is, joins are added and taken away; a join that is
\* there already fails it.
CommitCategory(c) ==
  LET w == edit[c]
  IN  /\ w.op = "bind"
      /\ Answers(c)
      /\ category' =
           IF category[w.k] = Blank THEN [category EXCEPT ![w.k] = w.copy]
           ELSE IF w.add \intersect category[w.k].attrs # {} THEN category
           ELSE [category EXCEPT ![w.k].attrs = (@ \ w.drop) \union w.add]
      /\ UNCHANGED <<attr, option, item, doubled>>

UpdateCategoryStatus(k, on) ==
  /\ Kept(k)
  /\ category' = [category EXCEPT ![k].on = on]
  /\ UNCHANGED <<attr, option, item, edit, doubled, clashed>>

\* Products of the caller's own scope are counted, and the platform has none.
Filed(k) == Own(k) /\ \E p \in Item : item[p].row = "live" /\ item[p].under = k

\* delete
DeleteCategory(c, k) ==
  Kept(k) /\ ~Filed(k) /\ Asks(c, [op |-> "dropCategory", k |-> k])

CommitDeleteCategory(c) ==
  /\ edit[c].op = "dropCategory"
  /\ category' = [category EXCEPT ![edit[c].k].row = "gone"]
  /\ Answers(c)
  /\ UNCHANGED <<attr, option, item, doubled>>

-----------------------------------------------------------------------------
\* New rows for options: a row for each entry of f.
Insert(opts, f) == [o \in Option |-> IF o \in DOMAIN f THEN f[o] ELSE opts[o]]
Unfilled == {o \in Option : option[o] = Blank}
OptionOf(a, own, v) == [of |-> a, own |-> own, value |-> v, on |-> TRUE]
Twice(f) == \E o, q \in DOMAIN f : o # q /\ f[o].value = f[q].value

\* What may be given with an attribute.
OptionsFor(a) == [of : {a}, own : {a \in OwnAttrs}, value : Value, on : BOOLEAN]

\* save, and validateAndSave of an import (of the tenant's, with options or none): the
\* options come in the transaction of their attribute, as they are given.
SaveAttribute(a, select, f) ==
  /\ attr[a] = Blank
  /\ select \/ DOMAIN f = {}
  /\ attr' = [attr EXCEPT ![a] = [row |-> "live", select |-> select]]
  /\ option' = Insert(option, f)
  /\ doubled' = (doubled \/ Twice(f))
  /\ UNCHANGED <<category, item, edit, clashed>>

\* update: an attribute that is selected from needs options; nobody looks whether one
\* is given twice.
UpdateAttribute(c, a, select, rows) ==
  /\ Known(a)
  /\ select = (rows # {})
  /\ Asks(c, [op |-> "attr", a |-> a, select |-> select, rows |-> rows])

\* The options of attributes ids are deleted, those of the caller's scope.
OptionsWithout(ids, own) ==
  [o \in Option |-> IF Filled(o) /\ option[o].of \in ids /\ option[o].own = own
                    THEN Blank ELSE option[o]]

\* All old options go and the new ones come in one transaction, each as often as it was
\* given, whether or not the attribute is still there.
CommitAttribute(c) ==
  LET w == edit[c]
      left == OptionsWithout({w.a}, w.a \in OwnAttrs)
  IN  /\ w.op = "attr"
      /\ Answers(c)
      /\ attr' = IF Known(w.a) THEN [attr EXCEPT ![w.a].select = w.select] ELSE attr
      /\ \E S \in SUBSET {o \in Option : left[o] = Blank} :
           \E f \in [S -> w.rows] :
             /\ w.rows = {f[o] : o \in S}
             /\ option' = Insert(left, f)
             /\ doubled' = (doubled \/ Twice(f))
      /\ UNCHANGED <<category, item>>

\* The caller's own categories are searched.
Bound(ids, own) ==
  \E k \in Category : Kept(k) /\ Own(k) = own /\ category[k].attrs \intersect ids # {}

\* delete and batchDelete, for the tenant or for the platform.
DeleteAttributes(c, ids, own) ==
  /\ \E a \in ids : Known(a) /\ (a \in OwnAttrs) = own
  /\ ~Bound(ids, own)
  /\ Asks(c, [op |-> "dropAttrs", ids |-> ids, own |-> own])

CommitDeleteAttributes(c) ==
  LET w == edit[c]
  IN  /\ w.op = "dropAttrs"
      /\ Answers(c)
      /\ option' = OptionsWithout(w.ids, w.own)
      /\ attr' = [a \in Attr |-> IF a \in w.ids /\ (a \in OwnAttrs) = w.own
                                 THEN Blank ELSE attr[a]]
      /\ UNCHANGED <<category, item, doubled>>

-----------------------------------------------------------------------------
\* findReadableAttribute
MayAdd(a, own) == Known(a) /\ (own \/ a \notin OwnAttrs)

\* Fault: an option that is switched off does not count.
GivenOfShown(a, own, v, but) ==
  \E q \in Option \ but :
    /\ Filled(q) /\ option[q].of = a /\ option[q].value = v
    /\ option[q].on /\ (option[q].own => own)

\* Another row than those of but has the value already, one of the caller's or of the platform.
Given(a, own, v, but) ==
  \E q \in Option \ but :
    Filled(q) /\ option[q].of = a /\ option[q].value = v /\ (option[q].own => own)

\* save of one value, batchSave of several: those given already are passed over.
SaveOptions(c, a, own, vs) ==
  LET new == {v \in vs : ~Given(a, own, v, {})}
  IN  /\ MayAdd(a, own) /\ new # {}
      /\ Asks(c, [op |-> "options", a |-> a, own |-> own, new |-> new])

CommitOptions(c) ==
  LET w == edit[c]
      rows == {OptionOf(w.a, w.own, v) : v \in w.new}
  IN  /\ w.op = "options"
      /\ Answers(c)
      /\ \E S \in SUBSET Unfilled :
           \E f \in [S -> rows] :
             /\ Cardinality(S) = Cardinality(rows) /\ ~Twice(f)
             /\ option' = Insert(option, f)
      /\ UNCHANGED <<category, attr, item, doubled>>

\* delete, batchDelete
DeleteOptions(os) ==
  /\ \E o \in os : Filled(o)
  /\ \A o, q \in os : Filled(o) /\ Filled(q) => option[o].own = option[q].own
  /\ option' = [o \in Option |-> IF o \in os THEN Blank ELSE option[o]]
  /\ UNCHANGED <<category, attr, item, edit, doubled, clashed>>

\* update: to another attribute or another value; updateStatus: on or off.
UpdateOption(c, o, a, v) ==
  /\ Filled(o) /\ MayAdd(a, option[o].own) /\ ~Given(a, option[o].own, v, {o})
  /\ Asks(c, [op |-> "option", o |-> o, copy |-> [option[o] EXCEPT !.of = a, !.value = v]])

UpdateOptionStatus(c, o, on) ==
  Filled(o) /\ Asks(c, [op |-> "option", o |-> o, copy |-> [option[o] EXCEPT !.on = on]])

\* The copy is written, as a new row if its row was removed.
CommitOption(c) ==
  /\ edit[c].op = "option"
  /\ option' = [option EXCEPT ![edit[c].o] = edit[c].copy]
  /\ Answers(c)
  /\ UNCHANGED <<category, attr, item, doubled>>

-----------------------------------------------------------------------------
\* validateCategory
Usable(k) == Kept(k) /\ category[k].on

\* save and update of a product, which are given a usable category; the import asks only
\* that there is one.
FileProduct(c, p, k) == Usable(k) /\ Asks(c, [op |-> "file", p |-> p, k |-> k])
ImportUnder(c, p, k) ==
  item[p] = Blank /\ Kept(k) /\ Asks(c, [op |-> "file", p |-> p, k |-> k])

CommitFile(c) ==
  /\ edit[c].op = "file"
  /\ item' = [item EXCEPT ![edit[c].p] = [row |-> "live", under |-> edit[c].k]]
  /\ Answers(c)
  /\ UNCHANGED <<category, attr, option, doubled>>

RemoveProduct(p) ==
  /\ item[p].row = "live"
  /\ item' = [item EXCEPT ![p].row = "gone"]
  /\ UNCHANGED <<category, attr, option, edit, doubled, clashed>>

CatalogueNext ==
  \/ \E c \in Clerk :
       \/ \E k \in Category, as \in SUBSET Attr : SaveCategory(c, k, as) \/ UpdateCategory(c, k, as)
       \/ \E k \in Category : DeleteCategory(c, k)
       \/ \E a \in Attr, select \in BOOLEAN : \E rows \in SUBSET OptionsFor(a) :
            UpdateAttribute(c, a, select, rows)
       \/ \E ids \in SUBSET Attr, own \in BOOLEAN : DeleteAttributes(c, ids, own)
       \/ \E a \in Attr, own \in BOOLEAN, vs \in SUBSET Value : SaveOptions(c, a, own, vs)
       \/ \E o \in Option, a \in Attr, v \in Value : UpdateOption(c, o, a, v)
       \/ \E o \in Option, on \in BOOLEAN : UpdateOptionStatus(c, o, on)
       \/ \E p \in Item, k \in Category : FileProduct(c, p, k) \/ ImportUnder(c, p, k)
       \/ CommitCategory(c) \/ CommitDeleteCategory(c) \/ CommitAttribute(c)
       \/ CommitDeleteAttributes(c) \/ CommitOptions(c) \/ CommitOption(c) \/ CommitFile(c)
  \/ \E k \in Category, on \in BOOLEAN : UpdateCategoryStatus(k, on)
  \/ \E a \in Attr, select \in BOOLEAN : \E S \in SUBSET Unfilled :
       \E f \in [S -> OptionsFor(a)] : SaveAttribute(a, select, f)
  \/ \E os \in SUBSET Option : DeleteOptions(os)
  \/ \E p \in Item : RemoveProduct(p)

CatalogueSpec == CatalogueInit /\ [][CatalogueNext]_catalogueVars

-----------------------------------------------------------------------------
(* A product's category is there, if it is the tenant's own and was not         *)
(* deleted while a product was being filed: the platform counts no products.   *)
CategoryThere ==
  "filing" \notin clashed =>
    \A p \in Item : item[p].row = "live" /\ Own(item[p].under) => Kept(item[p].under)

(* The attributes a category asks for are there, those of its own side, unless *)
(* one was deleted while it was being bound.                                   *)
BoundThere ==
  "binding" \notin clashed =>
    \A k \in Category : Kept(k) =>
      \A a \in category[k].attrs : (a \in OwnAttrs) = Own(k) => Known(a)

(* A value is among an attribute's options once on each side, unless it was    *)
(* given twice with the attribute or requests for options overlapped.          *)
OptionOnce ==
  ~(doubled \/ "options" \in clashed) =>
    \A o, q \in Option : (o # q /\ Filled(o) /\ Filled(q)) =>
      <<option[o].of, option[o].own, option[o].value>>
        # <<option[q].of, option[q].own, option[q].value>>

(* An option belongs to an attribute that is there, if both are of one side:   *)
(* the platform leaves tenants' options behind.                                *)
OptionBelongs ==
  "options" \notin clashed =>
    \A o \in Option : Filled(o) /\ option[o].own = (option[o].of \in OwnAttrs) => Known(option[o].of)
=============================================================================
