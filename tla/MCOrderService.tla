--------------------------- MODULE MCOrderService ---------------------------
(***************************************************************************)
(* Instances of OrderService for TLC.                                      *)
(***************************************************************************)
EXTENDS OrderService, TLC

CONSTANTS a, b, o1, o2, p1, p2

\* SKU a lies in both locations, SKU b in the second only.
AtRow(n1, n2) ==
  [exists |-> TRUE, quantity |-> n1 + n2, locked |-> 0, home |-> p1,
   rows |-> {p1, p2},
   at |-> [l \in Location |-> [quantity |-> IF l = p1 THEN n1 ELSE n2,
                                locked |-> 0]]]

\* One SKU, three pieces in two locations; each order wants two.
OneSkuStart == [s \in Sku |-> AtRow(1, 2)]
OneSkuItems == [o \in Order |-> <<[sku |-> a, quantity |-> 2]>>]

SingleItems == [o \in Order |-> <<[sku |-> a, quantity |-> 1]>>]

Interchangeable == Permutations(Worker)

\* Four pieces: enough to hold both orders.
AmpleStart == [s \in Sku |-> AtRow(2, 2)]

\* Two SKUs, taken in opposite order by the two orders.
CrossStart == [s \in Sku |-> IF s = a THEN AtRow(1, 1) ELSE AtRow(0, 1)]
CrossItems ==
  [o \in Order |-> IF o = o1
                   THEN <<[sku |-> a, quantity |-> 1], [sku |-> b, quantity |-> 1]>>
                   ELSE <<[sku |-> b, quantity |-> 1], [sku |-> a, quantity |-> 1]>>]
=============================================================================
