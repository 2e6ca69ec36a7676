---------------------------- MODULE Reservation -----------------------------
(***************************************************************************)
(* What the stock side of the warehouse promises its orders: goods on      *)
(* hand, and a set of orders that hold what they need of them.  An order   *)
(* reserves all it needs or nothing, what is reserved is there, and a      *)
(* reservation ends once: it is released, or it leaves with the goods.     *)
(***************************************************************************)
EXTENDS Integers, Functions

CONSTANTS Sku, Order, need   \* need[o][s]: what order o needs of SKU s

VARIABLES onHand, holding

bookVars == <<onHand, holding>>

Promised(s) == SumFunction([o \in holding |-> need[o][s]])

BookInit == holding = {} /\ \A s \in Sku : onHand[s] >= 0

Reserve(o) ==
  /\ o \notin holding
  /\ \A s \in Sku : onHand[s] - Promised(s) >= need[o][s]
  /\ holding' = holding \union {o}
  /\ UNCHANGED onHand

Release(o) ==
  /\ o \in holding
  /\ holding' = holding \ {o}
  /\ UNCHANGED onHand

Ship(o) ==
  /\ o \in holding
  /\ holding' = holding \ {o}
  /\ onHand' = [s \in Sku |-> onHand[s] - need[o][s]]

\* Goods come and go outside the orders, but not those that are promised.
Restock(s) ==
  /\ onHand' = [onHand EXCEPT ![s] = onHand'[s]]
  /\ onHand'[s] >= Promised(s)
  /\ UNCHANGED holding

OrderMove == \E o \in Order : Reserve(o) \/ Release(o) \/ Ship(o)

\* The book as the orders alone move it, and with goods coming and going.
BookSpec == BookInit /\ [][OrderMove]_bookVars

OpenBookSpec == BookInit /\ [][OrderMove \/ \E s \in Sku : Restock(s)]_bookVars
=============================================================================
