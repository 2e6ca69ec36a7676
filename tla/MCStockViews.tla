---------------------------- MODULE MCStockViews -----------------------------
(***************************************************************************)
(* The instance of Warehouse with what the services show of the stock.     *)
(***************************************************************************)
EXTENDS MCWarehouse, StockViews
=============================================================================
