-------------------------- MODULE NestOrdersBook --------------------------
(***************************************************************************)
(* Run one call at a time, the multi-step handlers of NestOrders implement   *)
(* the atomic OrderBook.  A create takes effect where its order row is       *)
(* inserted, a cancel where its status is saved: units a create has already  *)
(* debited still count as available, and so do units a cancel has yet to     *)
(* credit.                                                                 *)
(***************************************************************************)
EXTENDS NestOrders, Functions

\* Loop indexes whose units are in the memory of call r, not in a row.
HeldIndexes(r) ==
    CASE op[r] = "create" /\ pc[r] = "checkout" -> DOMAIN items[r]
      [] op[r] = "create" /\ pc[r] \in {"read", "load", "update"} -> 1..(at[r] - 1)
      [] op[r] = "cancel" /\ pc[r] \in {"credit", "load", "update"} -> at[r]..Len(items[r])
      [] OTHER -> {}

\* Units of product p, index by index.
UnitsIn(its, p) ==
    [i \in DOMAIN its |-> IF its[i].product = p THEN its[i].qty ELSE 0]

Held(p) == [r \in Requests |-> SumFunctionOnSet(UnitsIn(items[r], p), HeldIndexes(r))]

shelfBar ==
    [p \in Products |->
        [avail |-> rows[p].stock + SumFunction(Held(p)),
         active |-> rows[p].active,
         minQty |-> rows[p].minQty]]

Book == INSTANCE OrderBook WITH Orders <- Requests, Statuses <- Status,
                                shelf <- shelfBar, book <- orders

\* Serial execution of create, updateStatus, cancel and the product endpoints is
\* execution of atomic calls.
ImplementsOrderBook == Book!BookSpec

---------------------------------------------------------------------------
Live(o) == orders[o] # NoOrder /\ orders[o].status # "cancelled"
Ordered(p) ==
    SumFunction([o \in Requests |->
                    IF Live(o) THEN Book!Units(orders[o].items, p) ELSE 0])

\* "valida estoque": the units of the live orders never exceed the stock there was.
NoOversell == \A p \in Products : Ordered(p) <= InitStock

Quiet == \A r \in Requests : ~InFlight(r)

\* "Cancelar pedido (estorna estoque)": a cancelled order's units are back on the
\* shelf once, so stock and live orders never exceed the stock there was.
CancelRestoresOnce ==
    Quiet => \A p \in Products : rows[p].stock + Ordered(p) <= InitStock
===========================================================================
