-------------------------------- MODULE Goods --------------------------------
(***************************************************************************)
(* What a tenant's goods are: products and the units stock is measured in, *)
(* the categories and attributes they are filed under, and the sheets they *)
(* are imported from, side by side.  They share no state here: a step of   *)
(* one may come at any time in the others.                                 *)
(***************************************************************************)
EXTENDS Products, Catalogue, SheetImport

GoodsSpec == ProductsSpec /\ CatalogueSpec /\ SheetSpec

\* All of it keeps its shape, and no stock is below zero.
GoodsTypeOK == ProductsTypeOK /\ CatalogueTypeOK /\ SheetTypeOK

(* A code, a ratio and an option are given once, and nothing is filed under,  *)
(* bound to or an option of what was deleted.                                 *)
CatalogueHolds ==
  /\ GoodsTypeOK
  /\ SkuNamesOne /\ UnitCodeNamesOne /\ OneRatio
  /\ CategoryThere /\ BoundThere /\ OptionOnce /\ OptionBelongs
=============================================================================
