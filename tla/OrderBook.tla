----------------------------- MODULE OrderBook -----------------------------
(***************************************************************************)
(* What the order endpoints promise, with every call atomic: an order is    *)
(* placed only over active products, in allowed and available quantities,   *)
(* and takes all its units at once; a cancel puts all of them back.         *)
(*                                                                         *)
(* Two weaknesses of the code are part of the promise because they show     *)
(* without any concurrency: a call that stops half-way loses units (Lose),  *)
(* and an order already cancelled may be cancelled again.                   *)
(***************************************************************************)
EXTENDS Integers, Functions

CONSTANTS Orders, Products, Carts, Statuses, NoOrder

VARIABLES
    shelf,   \* per product: units available to new orders, active, minQty
    book     \* per order: NoOrder or its status and items

bookVars == <<shelf, book>>

\* Units of product p in a list of items, place by place and in all.
Part(its, p) ==
    [i \in DOMAIN its |-> IF its[i].product = p THEN its[i].qty ELSE 0]
Units(its, p) == SumFunction(Part(its, p))

\* Shelf after adding sign * the items.
Moved(its, sign) ==
    [p \in Products |-> [shelf[p] EXCEPT !.avail = @ + sign * Units(its, p)]]

BookInit ==
    /\ \A p \in Products : shelf[p].avail >= 0 /\ shelf[p].active
    /\ book = [o \in Orders |-> NoOrder]

Place(o, its) ==
    /\ book[o] = NoOrder
    /\ \A i \in DOMAIN its : LET s == shelf[its[i].product] IN
           /\ s.active
           /\ its[i].qty >= s.minQty
    /\ \A p \in Products : Units(its, p) <= shelf[p].avail
    /\ shelf' = Moved(its, -1)
    /\ book' = [book EXCEPT ![o] = [status |-> "pending", items |-> its]]

Cancel(o) ==
    /\ book[o] # NoOrder
    /\ book[o].status \notin {"shipped", "delivered"}
    /\ shelf' = Moved(book[o].items, 1)
    /\ book' = [book EXCEPT ![o].status = "cancelled"]

SetStatus(o, s) ==
    /\ book[o] # NoOrder
    /\ book' = [book EXCEPT ![o].status = s]
    /\ UNCHANGED shelf

\* An admin edits one product; nothing reactivates it.
Edit(p) ==
    /\ \A q \in Products \ {p} : shelf'[q] = shelf[q]
    /\ shelf'[p].avail >= 0
    /\ shelf'[p].active => shelf[p].active
    /\ UNCHANGED book

\* A rejected or interrupted call keeps the units it had taken.
Lose ==
    /\ \A p \in Products :
          /\ shelf'[p].avail <= shelf[p].avail
          /\ shelf'[p] = [shelf[p] EXCEPT !.avail = shelf'[p].avail]
    /\ UNCHANGED book

BookNext ==
    \/ \E o \in Orders :
          \/ \E its \in Carts : Place(o, its)
          \/ Cancel(o)
          \/ \E s \in Statuses : SetStatus(o, s)
    \/ \E p \in Products : Edit(p)
    \/ Lose

BookSpec == BookInit /\ [][BookNext]_bookVars
============================================================================
