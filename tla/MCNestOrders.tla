--------------------------- MODULE MCNestOrders ---------------------------
(* Constants of the TLC instances of NestOrders. *)
EXTENDS NestOrdersBook, TLC

MCPrices == {10, 25}
\* Two prices in cents whose markup, rounded to cents, differ: 10 -> 12, 25 -> 30.
MCMarkup == [b \in MCPrices |-> IF b = 10 THEN 12 ELSE 30]
MCPatches == {[base |-> 25], [minQty |-> 2], [stock |-> 1], [base |-> 10, stock |-> 3]}
MCOnePrice == {10}
MCOneMarkup == [b \in MCOnePrice |-> 12]
MCShelfPatches == {[minQty |-> 2], [stock |-> 1]}
MCPricePatches == {[base |-> 10], [base |-> 25]}
MCNoPatches == {}

Symmetry == Permutations(Requests)
===========================================================================
