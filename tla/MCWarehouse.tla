---------------------------- MODULE MCWarehouse -----------------------------
(***************************************************************************)
(* Instances of Warehouse for TLC.                                         *)
(***************************************************************************)
EXTENDS Warehouse, MCOrderService

NoRow ==
  [exists |-> FALSE, quantity |-> 0, locked |-> 0, home |-> NoLocation,
   rows |-> {}, at |-> [l \in Location |-> [quantity |-> 0, locked |-> 0]]]

\* SKU a has one piece in p1, its default location; other SKUs have no row.
ManualStart ==
  [s \in Sku |-> IF s = a THEN [AtRow(1, 0) EXCEPT !.rows = {p1}] ELSE NoRow]

AlikeClerks == Permutations(Clerk)
=============================================================================
