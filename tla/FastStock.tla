----------------------------- MODULE FastStock -----------------------------
(***************************************************************************)
(* Stock rows and order reservations of backend-fastapi: StockService, the  *)
(* stock router and the part of the orders router that reserves stock.      *)
(*                                                                         *)
(* Each call has a SQLAlchemy session.  The handler reads a row, changes its *)
(* attributes, and flush writes the changed columns with their new absolute  *)
(* values.  PostgreSQL runs the transaction READ COMMITTED: an UPDATE waits  *)
(* for the session that has an uncommitted UPDATE of the row, and then       *)
(* overwrites what that session committed.                                  *)
(***************************************************************************)
EXTENDS Integers, Sequences, FiniteSets, Functions

CONSTANTS
    Requests,     \* HTTP calls; an order is named after the call that created it
    Products,     \* products, each with at most one stock row in the warehouse
    Quantities,   \* quantities a call may carry (gt=0)
    Puts,         \* columns PUT and POST /stock may write, with their values
    Minimum,      \* minimum_quantity per product
    InitQuantity, \* quantity of the rows there are at start
    MaxItems,     \* bound: items per order
    Ops,          \* operations the instance exercises
    MaxInFlight,  \* bound: calls executing at the same time
    MaxCrashes    \* bound: crashes of the FastAPI process

Operations == {"order", "reserve", "consume", "put", "post", "delete", "unorder"}
Columns == {"quantity", "reserved"}
\* A row is named after the call that inserted it.
Row == [id : Requests \cup {"seed"}, quantity : Nat, reserved : Nat]
SeedRow == [id |-> "seed", quantity |-> InitQuantity, reserved |-> 0]
Absent == [id |-> "none", quantity |-> -1, reserved |-> -1]
Item == [product : Products, qty : Quantities]
Carts == UNION {[1..n -> Item] : n \in 1..MaxItems}
Nothing == [p \in Products |-> 0]

ASSUME StockConstants ==
    /\ "none" \notin Requests
    /\ Quantities \subseteq Nat \ {0}
    /\ \A put \in Puts : DOMAIN put \subseteq Columns /\ \A c \in DOMAIN put : put[c] \in Nat
    /\ InitQuantity \in Nat
    /\ Minimum \in [Products -> Nat]
    /\ Ops \subseteq Operations
    /\ MaxItems \in Nat \ {0} /\ MaxInFlight \in Nat /\ MaxCrashes \in Nat

VARIABLES
    db,       \* committed rows of table stock
    orders,   \* committed rows of table orders
    claims,   \* units each committed order or reserve call has been promised
    alerts,   \* products a minimum-stock alert has been sent for
    pc, op, items, at,
    mem,      \* the Stock entities of each session: current attribute values
    base,     \* the values those attributes were loaded or last flushed with
    written,  \* columns each session has updated and not committed
    grant,    \* units the session has promised so far
    crashes

session == <<op, items, at, mem, base, written, grant>>
shared == <<db, orders, claims, alerts>>
vars == <<shared, pc, session, crashes>>

---------------------------------------------------------------------------
InFlight(r) == pc[r] \notin {"idle", "done"}

CanStart(r, o) ==
    /\ pc[r] = "idle"
    /\ o \in Ops
    /\ Cardinality({q \in Requests : InFlight(q)}) < MaxInFlight

Goto(r, step) == pc' = [pc EXCEPT ![r] = step]
Current(r) == items[r][at[r]]
Product(r) == Current(r).product
IsLast(r) == at[r] = Len(items[r])

NoRows == [p \in Products |-> Absent]
NoColumns == [p \in Products |-> {}]

\* Mutant of Close: get_db never closes the session, its row locks stay.
CloseKeepsLocks(r) ==
    /\ Goto(r, "done")
    /\ UNCHANGED <<op, items, at, mem, base, written, grant>>

\* The session closes; whatever it has not committed is rolled back.
Close(r) ==
    /\ Goto(r, "done")
    /\ op' = [op EXCEPT ![r] = "none"]
    /\ items' = [items EXCEPT ![r] = <<>>]
    /\ at' = [at EXCEPT ![r] = 1]
    /\ mem' = [mem EXCEPT ![r] = NoRows]
    /\ base' = [base EXCEPT ![r] = NoRows]
    /\ written' = [written EXCEPT ![r] = NoColumns]
    /\ grant' = [grant EXCEPT ![r] = Nothing]

\* What a SELECT in r's transaction yields: the committed row under r's own
\* updates.  create_order drops each entity before it reads the next.
Merge(row, e, cols) ==
    [row EXCEPT !.quantity = IF "quantity" \in cols THEN e.quantity ELSE @,
                !.reserved = IF "reserved" \in cols THEN e.reserved ELSE @]

\* Mutant of Seen: a second item of the same product does not see the first.
SeenCommitted(r, p) == IF pc[r] = "read" THEN db[p] ELSE Merge(db[p], mem[r][p], written[r][p])

Seen(r, p) == Merge(db[p], mem[r][p], written[r][p])

\* The session holds row e of p with new attribute values n, not flushed yet.
Assign(r, p, e, n) ==
    /\ mem' = [mem EXCEPT ![r][p] = n]
    /\ base' = [base EXCEPT ![r][p] = e]

Dirty(r, p) == {c \in Columns : base[r][p][c] # mem[r][p][c]}

\* Sessions whose uncommitted UPDATE holds the row lock of p.
Holders(p) == {r \in Requests : written[r][p] # {}}
WaitsFor(r, q) ==
    /\ pc[r] = "flush" /\ Dirty(r, Product(r)) # {}
    /\ q # r /\ q \in Holders(Product(r))

Gone(r, p) == db[p].id # mem[r][p].id
Patched(row, put) ==
    [c \in DOMAIN row |-> IF c \in DOMAIN put THEN put[c] ELSE row[c]]

Init ==
    /\ \E stocked \in SUBSET Products :
          db = [p \in Products |-> IF p \in stocked THEN SeedRow ELSE Absent]
    /\ orders = {}
    /\ claims = [r \in Requests |-> Nothing]
    /\ alerts = {}
    /\ pc = [r \in Requests |-> "idle"]
    /\ op = [r \in Requests |-> "none"]
    /\ items = [r \in Requests |-> <<>>]
    /\ at = [r \in Requests |-> 1]
    /\ mem = [r \in Requests |-> NoRows]
    /\ base = [r \in Requests |-> NoRows]
    /\ written = [r \in Requests |-> NoColumns]
    /\ grant = [r \in Requests |-> Nothing]
    /\ crashes = 0

(***************************************************************************)
(* create_order, and the reserve and consume endpoints (one item each).     *)
(***************************************************************************)
Start(r, o, cart) ==
    /\ CanStart(r, o)
    /\ op' = [op EXCEPT ![r] = o]
    /\ items' = [items EXCEPT ![r] = cart]
    /\ Goto(r, "read")
    /\ UNCHANGED <<shared, at, mem, base, written, grant, crashes>>

\* An order without warehouse_id reserves nothing; its row is committed at once.
OrderStart(r) == \E cart \in Carts : Start(r, "order", cart)
ReserveStart(r) == \E i \in Item : Start(r, "reserve", <<i>>)
ConsumeStart(r) == \E i \in Item : Start(r, "consume", <<i>>)

\* Mutant of Available: units already reserved count as available.
AvailableIgnoresReserved(row, qty) == row.quantity >= qty

Available(row, qty) == row.quantity - row.reserved >= qty

\* reserve_stock up to its flush.
ReserveRead(r) ==
    LET p == Product(r)  row == Seen(r, p) IN
    /\ pc[r] = "read" /\ op[r] \in {"order", "reserve"}
    /\ db[p] # Absent /\ Available(row, Current(r).qty)
    /\ Assign(r, p, row, [row EXCEPT !.reserved = @ + Current(r).qty])
    /\ grant' = [grant EXCEPT ![r][p] = @ + Current(r).qty]
    /\ Goto(r, "flush")
    /\ UNCHANGED <<shared, op, items, at, written, crashes>>

\* ValueError: create_order logs it and goes on with the next item, without a
\* reservation for this one.
ReserveSkipped(r) ==
    LET p == Product(r) IN
    /\ pc[r] = "read" /\ op[r] = "order"
    /\ db[p] = Absent \/ ~Available(Seen(r, p), Current(r).qty)
    /\ at' = IF IsLast(r) THEN at ELSE [at EXCEPT ![r] = @ + 1]
    /\ Goto(r, IF IsLast(r) THEN "commit" ELSE "read")
    /\ UNCHANGED <<shared, op, items, mem, base, written, grant, crashes>>

\* 404 or 400 of the reserve and consume endpoints.
Refused(r) ==
    LET p == Product(r) IN
    /\ pc[r] = "read"
    /\ \/ op[r] = "reserve" /\ (db[p] = Absent \/ ~Available(db[p], Current(r).qty))
       \/ op[r] = "consume" /\ db[p].quantity < Current(r).qty
    /\ Close(r)
    /\ UNCHANGED <<shared, crashes>>

\* Mutant of AtLeastZero: reserved_quantity is decremented without max(0, ...).
MayGoNegative(n) == n

AtLeastZero(n) == IF n < 0 THEN 0 ELSE n

\* consume_stock up to its flush.
ConsumeRead(r) ==
    LET p == Product(r)  row == db[p]  qty == Current(r).qty IN
    /\ pc[r] = "read" /\ op[r] = "consume"
    /\ row.quantity >= qty
    /\ Assign(r, p, row, [row EXCEPT !.quantity = @ - qty,
                                    !.reserved = AtLeastZero(@ - qty)])
    /\ Goto(r, "flush")
    /\ UNCHANGED <<shared, op, items, at, written, grant, crashes>>

\* Mutant of Flush: the alert compares the quantity there was before the consumption.
FlushAlertsOldQuantity(r) ==
    LET p == Product(r) IN
    /\ pc[r] = "flush"
    /\ Dirty(r, p) = {} \/ (Holders(p) \subseteq {r} /\ ~Gone(r, p))
    /\ written' = [written EXCEPT ![r][p] = @ \cup Dirty(r, p)]
    /\ base' = [base EXCEPT ![r][p] = mem[r][p]]
    /\ alerts' = IF op[r] = "consume" /\ base[r][p].quantity < Minimum[p]
                 THEN alerts \cup {p} ELSE alerts
    /\ at' = IF IsLast(r) THEN at ELSE [at EXCEPT ![r] = @ + 1]
    /\ Goto(r, IF IsLast(r) THEN "commit" ELSE "read")
    /\ UNCHANGED <<db, orders, claims, op, items, mem, grant, crashes>>

\* Mutant of Flush: reserve_stock commits each item on its own.
FlushCommits(r) ==
    LET p == Product(r) IN
    /\ pc[r] = "flush"
    /\ Dirty(r, p) = {} \/ (Holders(p) \subseteq {r} /\ ~Gone(r, p))
    /\ db' = [db EXCEPT ![p] = Merge(db[p], mem[r][p], Dirty(r, p))]
    /\ base' = [base EXCEPT ![r][p] = mem[r][p]]
    /\ at' = IF IsLast(r) THEN at ELSE [at EXCEPT ![r] = @ + 1]
    /\ Goto(r, IF IsLast(r) THEN "commit" ELSE "read")
    /\ UNCHANGED <<orders, claims, alerts, op, items, mem, written, grant, crashes>>

\* flush: the UPDATE of the changed columns, once no other session holds the row.
\* consume checks the alert here, before its commit.
Flush(r) ==
    LET p == Product(r) IN
    /\ pc[r] = "flush"
    /\ Dirty(r, p) = {} \/ (Holders(p) \subseteq {r} /\ ~Gone(r, p))
    /\ written' = [written EXCEPT ![r][p] = @ \cup Dirty(r, p)]
    /\ base' = [base EXCEPT ![r][p] = mem[r][p]]
    /\ alerts' = IF op[r] = "consume" /\ mem[r][p].quantity < Minimum[p]
                 THEN alerts \cup {p} ELSE alerts
    /\ at' = IF IsLast(r) THEN at ELSE [at EXCEPT ![r] = @ + 1]
    /\ Goto(r, IF IsLast(r) THEN "commit" ELSE "read")
    /\ UNCHANGED <<db, orders, claims, op, items, mem, grant, crashes>>

\* The row was deleted meanwhile: StaleDataError, 500, rollback.
FlushStale(r) ==
    LET p == Product(r) IN
    /\ pc[r] = "flush" /\ Dirty(r, p) # {}
    /\ Holders(p) \subseteq {r} /\ Gone(r, p)
    /\ Close(r)
    /\ UNCHANGED <<shared, crashes>>

\* check_stock_alert of a consumption has alerted, and storing the alert in Redis
\* raises: 500, rollback.
AlertCacheFails(r) ==
    /\ pc[r] = "commit" /\ op[r] = "consume"
    /\ mem[r][Product(r)].quantity < Minimum[Product(r)]
    /\ Close(r)
    /\ UNCHANGED <<shared, crashes>>

\* PostgreSQL aborts one session of a set in which everyone waits for another.
Deadlocked(r) ==
    \E S \in SUBSET Requests :
        r \in S /\ \A s \in S : \E t \in S : WaitsFor(s, t)

DeadlockAbort(r) ==
    /\ Deadlocked(r)
    /\ Close(r)
    /\ UNCHANGED <<shared, crashes>>

\* The UPDATEs become visible.  update_stock still has to refresh and alert.
Commit(r) ==
    /\ pc[r] = "commit"
    /\ db' = [p \in Products |-> Seen(r, p)]
    /\ orders' = IF op[r] = "order" THEN orders \cup {r} ELSE orders
    /\ claims' = [claims EXCEPT ![r] = grant[r]]
    /\ IF op[r] = "put"
       THEN /\ Goto(r, "alert")
            /\ written' = [written EXCEPT ![r] = NoColumns]
            /\ UNCHANGED <<op, items, at, mem, base, grant>>
       ELSE Close(r)
    /\ UNCHANGED <<alerts, crashes>>

(***************************************************************************)
(* update_stock, create_stock, delete_stock, delete_order.                 *)
(***************************************************************************)
PutStart(r) ==
    \E p \in Products, put \in Puts :
       /\ CanStart(r, "put")
       /\ db[p] # Absent
       /\ op' = [op EXCEPT ![r] = "put"]
       /\ items' = [items EXCEPT ![r] = <<[product |-> p, qty |-> 0]>>]
       /\ Assign(r, p, db[p], Patched(db[p], put))
       /\ Goto(r, "flush")
       /\ UNCHANGED <<shared, at, written, grant, crashes>>

\* Mutant of AlertAfterCommit: only create_stock checks the alert.
AlertAfterPostOnly(r) ==
    LET p == Product(r) IN
    /\ pc[r] = "alert"
    /\ alerts' = IF op[r] = "post" /\ ~Gone(r, p) /\ db[p].quantity < Minimum[p]
                 THEN alerts \cup {p} ELSE alerts
    /\ Close(r)
    /\ UNCHANGED <<db, orders, claims, crashes>>

\* After the commit: refresh the row, then check the alert.  A row deleted in
\* between makes refresh fail.
AlertAfterCommit(r) ==
    LET p == Product(r) IN
    /\ pc[r] = "alert"
    /\ alerts' = IF ~Gone(r, p) /\ db[p].quantity < Minimum[p]
                 THEN alerts \cup {p} ELSE alerts
    /\ Close(r)
    /\ UNCHANGED <<db, orders, claims, crashes>>

\* SELECT finds no row, then INSERT; a row inserted meanwhile violates
\* uq_stock_warehouse_product and the insert changes nothing.
PostStart(r) ==
    \E p \in Products :
       /\ CanStart(r, "post")
       /\ db[p] = Absent
       /\ op' = [op EXCEPT ![r] = "post"]
       /\ items' = [items EXCEPT ![r] = <<[product |-> p, qty |-> 0]>>]
       /\ Goto(r, "insert")
       /\ UNCHANGED <<shared, at, mem, base, written, grant, crashes>>

Insert(r) ==
    LET p == Product(r)  new == [id |-> r, quantity |-> 0, reserved |-> 0] IN
    /\ pc[r] = "insert"
    /\ db[p] = Absent
    /\ \E put \in Puts :
          /\ "quantity" \in DOMAIN put
          /\ db' = [db EXCEPT ![p] = Patched(new, put)]
          /\ Assign(r, p, Patched(new, put), Patched(new, put))
    /\ Goto(r, "alert")
    /\ UNCHANGED <<orders, claims, alerts, op, items, at, written, grant, crashes>>

InsertFails(r) ==
    /\ pc[r] = "insert"
    /\ db[Product(r)] # Absent
    /\ Close(r)
    /\ UNCHANGED <<shared, crashes>>

\* DELETE waits for the row lock and commits at once.
DeleteStock(r) ==
    \E p \in Products :
       /\ CanStart(r, "delete")
       /\ db[p] # Absent /\ Holders(p) = {}
       /\ db' = [db EXCEPT ![p] = Absent]
       /\ Close(r)
       /\ UNCHANGED <<orders, claims, alerts, crashes>>

\* delete_order removes the order and its items, and leaves the stock rows alone.
DeleteOrder(r) ==
    \E o \in orders :
       /\ CanStart(r, "unorder")
       /\ orders' = orders \ {o}
       /\ claims' = [claims EXCEPT ![o] = Nothing]
       /\ Close(r)
       /\ UNCHANGED <<db, alerts, crashes>>

---------------------------------------------------------------------------
\* The process dies: PostgreSQL rolls every open transaction back.
Crash ==
    /\ crashes < MaxCrashes
    /\ \E r \in Requests : InFlight(r)
    /\ crashes' = crashes + 1
    /\ pc' = [r \in Requests |-> IF InFlight(r) THEN "done" ELSE pc[r]]
    /\ op' = [r \in Requests |-> "none"]
    /\ items' = [r \in Requests |-> <<>>]
    /\ at' = [r \in Requests |-> 1]
    /\ mem' = [r \in Requests |-> NoRows]
    /\ base' = [r \in Requests |-> NoRows]
    /\ written' = [r \in Requests |-> NoColumns]
    /\ grant' = [r \in Requests |-> Nothing]
    /\ UNCHANGED shared

Begin(r) ==
    \/ OrderStart(r) \/ ReserveStart(r) \/ ConsumeStart(r)
    \/ PutStart(r) \/ PostStart(r) \/ DeleteStock(r) \/ DeleteOrder(r)

Continue(r) ==
    \/ ReserveRead(r) \/ ReserveSkipped(r) \/ Refused(r) \/ ConsumeRead(r)
    \/ Flush(r) \/ FlushStale(r) \/ AlertCacheFails(r) \/ Commit(r)
    \/ AlertAfterCommit(r) \/ Insert(r) \/ InsertFails(r)

AllDone == (\A r \in Requests : pc[r] = "done") /\ UNCHANGED vars

Next == (\E r \in Requests : Begin(r) \/ Continue(r) \/ DeadlockAbort(r)) \/ Crash \/ AllDone

\* The event loop resumes every handler that can go on, and PostgreSQL resolves
\* every deadlock.
Fairness ==
    \A r \in Requests : WF_vars(Continue(r)) /\ WF_vars(DeadlockAbort(r))

Spec == Init /\ [][Next]_vars
FairSpec == Spec /\ Fairness

---------------------------------------------------------------------------
(* Properties. *)

Steps == {"idle", "read", "flush", "commit", "alert", "insert", "done"}
Rows == Row \cup {Absent}

\* Every variable keeps the shape the tables and the sessions give it; in
\* particular no committed column is negative (the CHECK constraints of stock).
TypeOK ==
    /\ db \in [Products -> Rows]
    /\ orders \subseteq Requests
    /\ claims \in [Requests -> [Products -> Nat]]
    /\ alerts \subseteq Products
    /\ pc \in [Requests -> Steps]
    /\ op \in [Requests -> Operations \cup {"none"}]
    /\ items \in [Requests -> {<<>>} \cup Carts \cup {<<[product |-> p, qty |-> 0]>> : p \in Products}]
    /\ at \in [Requests -> 1..MaxItems]
    /\ mem \in [Requests -> [Products -> Rows]]
    /\ base \in [Requests -> [Products -> Rows]]
    /\ written \in [Requests -> [Products -> SUBSET Columns]]
    /\ grant \in [Requests -> [Products -> Nat]]
    /\ crashes \in 0..MaxCrashes

\* Units of p promised to committed orders and reserve calls.
Promised(p) == SumFunction([r \in Requests |-> claims[r][p]])

\* available_quantity = quantity - reserved_quantity never goes below zero.
ReservedWithinQuantity == \A p \in Products : db[p].reserved <= db[p].quantity

\* Every reserved unit of a row was promised to some committed call: an aborted,
\* deadlocked or crashed session leaves no reservation behind.
NoPhantomReservation == \A p \in Products : db[p].reserved <= Promised(p)

\* Calls that do not overlap keep reserved_quantity equal to what was promised, as
\* long as nothing of the product has been consumed.
ReservationsExact ==
    \A p \in Products :
        db[p].quantity = InitQuantity => db[p].reserved = Promised(p)

\* Units promised to orders and reserve calls are never more than the stock:
\* what the availability test of reserve_stock is for.
NoOverPromise ==
    \A p \in Products : db[p] # Absent => Promised(p) <= db[p].quantity

\* consume_stock alerts before it commits, so no committed quantity it wrote is
\* below the minimum without an alert, not even when the process dies.
NoSilentShortage ==
    \A p \in Products :
        db[p] # Absent /\ db[p].quantity < Minimum[p] => p \in alerts

\* A row that update_stock, create_stock or consume_stock leaves below the
\* minimum is sooner or later alerted, refilled or deleted.
ShortageAlerted ==
    \A p \in Products :
        []<>(p \in alerts \/ db[p] = Absent \/ db[p].quantity >= Minimum[p])

\* Every call ends, although orders take row locks in the order of their items
\* and may wait for each other in a circle.
EveryCallEnds == \A r \in Requests : []<>(~InFlight(r))
===========================================================================
