---------------------------- MODULE NestOrders ----------------------------
(***************************************************************************)
(* OrdersService and ProductsService of backend-nest over their shared      *)
(* "products" and "orders" tables.  A request is a process; every await on  *)
(* the database is one step, so two requests interleave exactly where Node  *)
(* can switch between them.                                                *)
(*                                                                         *)
(* repository.save(entity) of TypeORM 0.3 is two round trips: SELECT the    *)
(* row and compare it with the entity (Load), then UPDATE the columns that  *)
(* differ (Update).  No transaction and no lock spans a read and the save   *)
(* that follows it.                                                        *)
(***************************************************************************)
EXTENDS Integers, Sequences, FiniteSets

CONSTANTS
    Requests,       \* HTTP calls; an order is named after the call that created it
    Products,       \* product ids
    Prices,         \* base prices
    Markup,         \* base price -> final price (calculateFinalPrice)
    Quantities,     \* item quantities a DTO may carry (@IsInt @Min(1))
    MinQuantities,  \* values of minQuantity
    Patches,        \* bodies of PATCH /products/:id
    StatusInputs,   \* statuses PATCH /orders/:id/status is called with
    InitStock,      \* stock of every product at start
    MaxItems,       \* bound: items per order
    Ops,            \* operations the instance exercises
    MaxInFlight,    \* bound: calls executing at the same time
    MaxCrashes      \* bound: crashes of the Nest process

Operations == {"create", "status", "cancel", "update", "restock", "remove"}
Status == {"pending", "confirmed", "processing", "shipped", "delivered", "cancelled"}
Steps == {"idle", "read", "load", "update", "checkout", "publish", "emit",
          "save", "credit", "done"}
Columns == {"stock", "active", "minQty", "base", "final"}

FinalPrices == {Markup[b] : b \in Prices}

Item == [product : Products, qty : Quantities]
Entity == [id : Products, stock : Int, active : BOOLEAN, minQty : MinQuantities,
           base : Prices, final : FinalPrices]
NoEntity == [id |-> "none"]
Carts == UNION {[1..n -> Item] : n \in 1..MaxItems}
OrderRow == [status : Status, items : Seq(Item)]
NoOrder == [status |-> "none", items |-> <<>>]
Event == [order : Requests, status : Status]

\* A product as ProductsService.create leaves it: final price from the base price.
NewProduct(p, m, b) == [id |-> p, stock |-> InitStock, active |-> TRUE,
                        minQty |-> m, base |-> b, final |-> Markup[b]]

ASSUME MarkupAssumption ==
    /\ DOMAIN Markup = Prices
    /\ \A a, b \in Prices : Markup[a] = Markup[b] => a = b
ASSUME QuantityAssumption ==
    /\ Quantities \subseteq Nat \ {0}
    /\ MinQuantities \subseteq Nat \ {0}
    /\ InitStock \in Nat
\* A body with some of the columns, the others left alone.
UpdateProductDto(x) ==
    /\ DOMAIN x \subseteq {"base", "minQty", "stock"}
    /\ "base" \in DOMAIN x => x["base"] \in Prices
    /\ "minQty" \in DOMAIN x => x["minQty"] \in MinQuantities
    /\ "stock" \in DOMAIN x => x["stock"] \in Nat
ASSUME PatchAssumption == \A x \in Patches : UpdateProductDto(x)
ASSUME InputAssumption ==
    /\ StatusInputs \subseteq Status
    /\ Ops \subseteq Operations
    /\ MaxItems \in Nat /\ MaxInFlight \in Nat /\ MaxCrashes \in Nat

VARIABLES
    rows,     \* table products
    orders,   \* table orders with its order_items
    queue,    \* events accepted by RabbitMQ, in order
    topic,    \* events accepted by Kafka, in order
    pc,       \* next await of each call
    op,       \* operation of each call
    items,    \* dto.items of a create, order.items of a cancel
    at,       \* loop index over items
    target,   \* order a call works on
    want,     \* status a call writes
    ent,      \* product entity held in memory
    dirty,    \* columns the pending UPDATE writes
    crashes,
    ledger    \* history: stock had every save been "SET stock = stock +/- qty"

tables == <<rows, orders>>
brokers == <<queue, topic>>
local == <<op, items, at, target, want, ent, dirty>>
vars == <<tables, brokers, pc, local, crashes, ledger>>

---------------------------------------------------------------------------
InFlight(r) == pc[r] \notin {"idle", "done"}

\* A call may begin: it has not run and the server is below its bound.
CanStart(r, o) ==
    /\ pc[r] = "idle"
    /\ o \in Ops
    /\ Cardinality({q \in Requests : InFlight(q)}) < MaxInFlight

\* The call answers or throws; its memory is garbage.
Finish(r) ==
    /\ pc' = [pc EXCEPT ![r] = "done"]
    /\ op' = [op EXCEPT ![r] = "none"]
    /\ items' = [items EXCEPT ![r] = <<>>]
    /\ at' = [at EXCEPT ![r] = 1]
    /\ target' = [target EXCEPT ![r] = r]
    /\ want' = [want EXCEPT ![r] = "pending"]
    /\ ent' = [ent EXCEPT ![r] = NoEntity]
    /\ dirty' = [dirty EXCEPT ![r] = {}]

Goto(r, step) == pc' = [pc EXCEPT ![r] = step]

\* The product variable of a loop body goes out of scope.
ForgetEntity(r) ==
    /\ ent' = [ent EXCEPT ![r] = NoEntity]
    /\ dirty' = [dirty EXCEPT ![r] = {}]
    /\ UNCHANGED <<op, items, target, want>>

Current(r) == items[r][at[r]]

\* Mutant of IsLast: the loop over the items stops one item early.
IsLastTooEarly(r) == at[r] + 1 >= Len(items[r])

IsLast(r) == at[r] = Len(items[r])

\* Mutant of Diff: save() does not see a changed stock.
DiffWithoutStock(e, row) ==
    (IF e.active # row.active THEN {"active"} ELSE {}) \cup
    (IF e.minQty # row.minQty THEN {"minQty"} ELSE {}) \cup
    (IF e.base # row.base THEN {"base"} ELSE {}) \cup
    (IF e.final # row.final THEN {"final"} ELSE {})

\* Columns in which an entity differs from the row just selected.
Diff(e, row) ==
    (IF e.stock # row.stock THEN {"stock"} ELSE {}) \cup
    (IF e.active # row.active THEN {"active"} ELSE {}) \cup
    (IF e.minQty # row.minQty THEN {"minQty"} ELSE {}) \cup
    (IF e.base # row.base THEN {"base"} ELSE {}) \cup
    (IF e.final # row.final THEN {"final"} ELSE {})

\* UPDATE products SET <the columns of d> = <values of e> WHERE id = row.id.
Write(row, e, d) ==
    [row EXCEPT !.stock = IF "stock" \in d THEN e.stock ELSE @,
                !.active = IF "active" \in d THEN e.active ELSE @,
                !.minQty = IF "minQty" \in d THEN e.minQty ELSE @,
                !.base = IF "base" \in d THEN e.base ELSE @,
                !.final = IF "final" \in d THEN e.final ELSE @]

\* Mutant of Patched: a new base price leaves the final price alone.
PatchedWithoutFinal(row, x) ==
    [row EXCEPT !.stock = IF "stock" \in DOMAIN x THEN x["stock"] ELSE @,
                !.minQty = IF "minQty" \in DOMAIN x THEN x["minQty"] ELSE @,
                !.base = IF "base" \in DOMAIN x THEN x["base"] ELSE @]

\* Object.assign(product, dto), dto.finalPrice recomputed when basePrice is given.
Patched(row, x) ==
    [row EXCEPT !.stock = IF "stock" \in DOMAIN x THEN x["stock"] ELSE @,
                !.minQty = IF "minQty" \in DOMAIN x THEN x["minQty"] ELSE @,
                !.base = IF "base" \in DOMAIN x THEN x["base"] ELSE @,
                !.final = IF "base" \in DOMAIN x THEN Markup[x["base"]] ELSE @]

\* A decimal column is read back as a string, so a number assigned from a DTO
\* always differs from it: both price columns are written.
AlwaysDirty(x) == IF "base" \in DOMAIN x THEN {"base", "final"} ELSE {}

---------------------------------------------------------------------------
Init ==
    /\ \E m \in [Products -> MinQuantities], b \in [Products -> Prices] :
          rows = [p \in Products |-> NewProduct(p, m[p], b[p])]
    /\ orders = [r \in Requests |-> NoOrder]
    /\ queue = <<>> /\ topic = <<>>
    /\ pc = [r \in Requests |-> "idle"]
    /\ op = [r \in Requests |-> "none"]
    /\ items = [r \in Requests |-> <<>>]
    /\ at = [r \in Requests |-> 1]
    /\ target = [r \in Requests |-> r]
    /\ want = [r \in Requests |-> "pending"]
    /\ ent = [r \in Requests |-> NoEntity]
    /\ dirty = [r \in Requests |-> {}]
    /\ crashes = 0
    /\ ledger = [p \in Products |-> InitStock]

(***************************************************************************)
(* OrdersService.create                                                    *)
(***************************************************************************)
CreateStart(r) ==
    /\ CanStart(r, "create")
    /\ \E its \in Carts : items' = [items EXCEPT ![r] = its]
    /\ op' = [op EXCEPT ![r] = "create"]
    /\ Goto(r, "read")
    /\ UNCHANGED <<tables, brokers, at, target, want, ent, dirty, crashes, ledger>>

\* Mutant of Acceptable: the stock is not checked.
AcceptableWithoutStock(row, qty) == row.active /\ qty >= row.minQty

Acceptable(row, qty) == row.active /\ row.stock >= qty /\ qty >= row.minQty

\* One turn of the item loop: read the product, validate, debit the entity.
CreateRead(r) ==
    LET row == rows[Current(r).product] IN
    /\ pc[r] = "read"
    /\ Acceptable(row, Current(r).qty)
    /\ ent' = [ent EXCEPT ![r] = [row EXCEPT !.stock = @ - Current(r).qty]]
    /\ dirty' = [dirty EXCEPT ![r] = {}]
    /\ Goto(r, "load")
    /\ UNCHANGED <<tables, brokers, op, items, at, target, want, crashes, ledger>>

\* 404 or 400 in the loop: the items already debited stay debited.
CreateReject(r) ==
    /\ pc[r] = "read"
    /\ ~Acceptable(rows[Current(r).product], Current(r).qty)
    /\ Finish(r)
    /\ UNCHANGED <<tables, brokers, crashes, ledger>>

\* calculateFreight throws 404 for an unknown warehouse.
FreightFails(r) ==
    /\ pc[r] = "checkout"
    /\ Finish(r)
    /\ UNCHANGED <<tables, brokers, crashes, ledger>>

\* Mutant of InsertOrder: the events go out before the order is saved.
InsertOrderAfterEvents(r) ==
    /\ pc[r] = "checkout"
    /\ Goto(r, "publish")
    /\ UNCHANGED <<tables, brokers, local, crashes, ledger>>

InsertOrder(r) ==
    /\ pc[r] = "checkout"
    /\ orders' = [orders EXCEPT ![r] = [status |-> "pending", items |-> items[r]]]
    /\ Goto(r, "publish")
    /\ UNCHANGED <<rows, brokers, local, crashes, ledger>>

(***************************************************************************)
(* Publishing.  create publishes to RabbitMQ, then to Kafka, each in a try  *)
(* of its own; updateStatus emits to Kafka, then publishes to RabbitMQ, in  *)
(* one try, so a Kafka failure skips RabbitMQ.                             *)
(***************************************************************************)

\* Mutant of EventOf: the event carries the operation for the status.
EventOfOperation(r) == [order |-> target[r], status |-> op[r]]

EventOf(r) == [order |-> target[r], status |-> want[r]]

PublishRabbit(r) ==
    /\ pc[r] = "publish"
    /\ queue' = Append(queue, EventOf(r))
    /\ \/ op[r] = "create" /\ Goto(r, "emit") /\ UNCHANGED local
       \/ op[r] = "status" /\ Finish(r)
    /\ UNCHANGED <<tables, topic, crashes, ledger>>

PublishFails(r) ==
    /\ pc[r] = "publish"
    /\ \/ op[r] = "create" /\ Goto(r, "emit") /\ UNCHANGED local
       \/ op[r] = "status" /\ Finish(r)
    /\ UNCHANGED <<tables, brokers, crashes, ledger>>

EmitKafka(r) ==
    /\ pc[r] = "emit"
    /\ topic' = Append(topic, EventOf(r))
    /\ \/ op[r] = "create" /\ Finish(r)
       \/ op[r] = "status" /\ Goto(r, "publish") /\ UNCHANGED local
    /\ UNCHANGED <<tables, queue, crashes, ledger>>

EmitFails(r) ==
    /\ pc[r] = "emit"
    /\ Finish(r)
    /\ UNCHANGED <<tables, brokers, crashes, ledger>>

(***************************************************************************)
(* OrdersService.updateStatus: any valid status replaces any other.  The    *)
(* entity read first supplies nothing but the row's existence.             *)
(***************************************************************************)
StatusStart(r) ==
    /\ CanStart(r, "status")
    /\ \E o \in Requests, s \in StatusInputs :
          /\ orders[o] # NoOrder
          /\ target' = [target EXCEPT ![r] = o]
          /\ want' = [want EXCEPT ![r] = s]
    /\ op' = [op EXCEPT ![r] = "status"]
    /\ Goto(r, "save")
    /\ UNCHANGED <<tables, brokers, items, at, ent, dirty, crashes, ledger>>

StatusSave(r) ==
    /\ pc[r] = "save" /\ op[r] = "status"
    /\ orders' = [orders EXCEPT ![target[r]].status = want[r]]
    /\ Goto(r, "emit")
    /\ UNCHANGED <<rows, brokers, local, crashes, ledger>>

(***************************************************************************)
(* OrdersService.cancel                                                    *)
(***************************************************************************)

CancelStart(r) ==
    /\ CanStart(r, "cancel")
    /\ \E o \in Requests :
          /\ orders[o] # NoOrder
          /\ orders[o].status \notin {"shipped", "delivered"}
          /\ target' = [target EXCEPT ![r] = o]
          /\ items' = [items EXCEPT ![r] = orders[o].items]
    /\ op' = [op EXCEPT ![r] = "cancel"]
    /\ want' = [want EXCEPT ![r] = "cancelled"]
    /\ Goto(r, "save")
    /\ UNCHANGED <<tables, brokers, at, ent, dirty, crashes, ledger>>

CancelSave(r) ==
    /\ pc[r] = "save" /\ op[r] = "cancel"
    /\ orders' = [orders EXCEPT ![target[r]].status = want[r]]
    /\ Goto(r, "credit")
    /\ UNCHANGED <<rows, brokers, local, crashes, ledger>>

CreditRead(r) ==
    LET row == rows[Current(r).product] IN
    /\ pc[r] = "credit"
    /\ ent' = [ent EXCEPT ![r] = [row EXCEPT !.stock = @ + Current(r).qty]]
    /\ dirty' = [dirty EXCEPT ![r] = {}]
    /\ Goto(r, "load")
    /\ UNCHANGED <<tables, brokers, op, items, at, target, want, crashes, ledger>>

(***************************************************************************)
(* ProductsService.update and remove: findOne, change the entity, save.     *)
(***************************************************************************)
UpdateStart(r) ==
    \E p \in Products, x \in Patches :
       LET o == IF "stock" \in DOMAIN x THEN "restock" ELSE "update" IN
       /\ CanStart(r, o)
       /\ op' = [op EXCEPT ![r] = o]
       /\ ent' = [ent EXCEPT ![r] = Patched(rows[p], x)]
       /\ dirty' = [dirty EXCEPT ![r] = AlwaysDirty(x)]
       /\ Goto(r, "load")
       /\ UNCHANGED <<tables, brokers, items, at, target, want, crashes, ledger>>

RemoveStart(r) ==
    \E p \in Products :
       /\ CanStart(r, "remove")
       /\ op' = [op EXCEPT ![r] = "remove"]
       /\ ent' = [ent EXCEPT ![r] = [rows[p] EXCEPT !.active = FALSE]]
       /\ dirty' = [dirty EXCEPT ![r] = {}]
       /\ Goto(r, "load")
       /\ UNCHANGED <<tables, brokers, items, at, target, want, crashes, ledger>>

(***************************************************************************)
(* productsRepo.save(product), the two round trips.                        *)
(***************************************************************************)
Load(r) ==
    /\ pc[r] = "load"
    /\ dirty' = [dirty EXCEPT ![r] = @ \cup Diff(ent[r], rows[ent[r].id])]
    /\ Goto(r, "update")
    /\ UNCHANGED <<tables, brokers, op, items, at, target, want, ent, crashes, ledger>>

LedgerAfter(r) ==
    [ledger EXCEPT ![ent[r].id] =
        CASE op[r] = "create" -> @ - Current(r).qty
          [] op[r] = "cancel" -> @ + Current(r).qty
          [] op[r] = "restock" -> ent[r].stock
          [] OTHER -> @]

\* The UPDATE, and where the handler goes once save() has resolved: the next
\* item of a loop, the checkout of a create, or the answer.
Update(r) ==
    LET p == ent[r].id IN
    /\ pc[r] = "update"
    /\ rows' = [rows EXCEPT ![p] = Write(rows[p], ent[r], dirty[r])]
    /\ ledger' = LedgerAfter(r)
    /\ \/ /\ op[r] = "create"
          /\ at' = IF IsLast(r) THEN at ELSE [at EXCEPT ![r] = @ + 1]
          /\ Goto(r, IF IsLast(r) THEN "checkout" ELSE "read")
          /\ ForgetEntity(r)
       \/ /\ op[r] = "cancel" /\ ~IsLast(r)
          /\ at' = [at EXCEPT ![r] = @ + 1]
          /\ Goto(r, "credit")
          /\ ForgetEntity(r)
       \/ /\ op[r] = "cancel" => IsLast(r)
          /\ op[r] # "create"
          /\ Finish(r)
    /\ UNCHANGED <<orders, brokers, crashes>>

---------------------------------------------------------------------------
\* The process dies: every call in flight is lost, the database is not.
Crash ==
    /\ crashes < MaxCrashes
    /\ \E r \in Requests : InFlight(r)
    /\ crashes' = crashes + 1
    /\ pc' = [r \in Requests |-> IF InFlight(r) THEN "done" ELSE pc[r]]
    /\ op' = [r \in Requests |-> "none"]
    /\ items' = [r \in Requests |-> <<>>]
    /\ at' = [r \in Requests |-> 1]
    /\ target' = [r \in Requests |-> r]
    /\ want' = [r \in Requests |-> "pending"]
    /\ ent' = [r \in Requests |-> NoEntity]
    /\ dirty' = [r \in Requests |-> {}]
    /\ UNCHANGED <<tables, brokers, ledger>>

\* Every call has been made; nothing is left to do.
AllDone == (\A r \in Requests : pc[r] = "done") /\ UNCHANGED vars

CallStep(r) ==
    \/ CreateStart(r) \/ CreateRead(r) \/ CreateReject(r)
    \/ FreightFails(r) \/ InsertOrder(r)
    \/ PublishRabbit(r) \/ PublishFails(r) \/ EmitKafka(r) \/ EmitFails(r)
    \/ StatusStart(r) \/ StatusSave(r)
    \/ CancelStart(r) \/ CancelSave(r) \/ CreditRead(r)
    \/ UpdateStart(r) \/ RemoveStart(r)
    \/ Load(r) \/ Update(r)

Next == (\E r \in Requests : CallStep(r)) \/ Crash \/ AllDone

Spec == Init /\ [][Next]_vars

(***************************************************************************)
(* Properties.                                                             *)
(***************************************************************************)
\* The tables, the brokers and the memory of every call have their types.
TypeOK ==
    /\ rows \in [Products -> Entity] /\ \A p \in Products : rows[p].id = p
    /\ orders \in [Requests -> OrderRow \cup {NoOrder}]
    /\ queue \in Seq(Event) /\ topic \in Seq(Event)
    /\ pc \in [Requests -> Steps]
    /\ op \in [Requests -> Operations \cup {"none"}]
    /\ items \in [Requests -> Seq(Item)]
    /\ at \in [Requests -> Nat \ {0}]
    /\ target \in [Requests -> Requests]
    /\ want \in [Requests -> Status]
    /\ ent \in [Requests -> Entity \cup {NoEntity}]
    /\ dirty \in [Requests -> SUBSET Columns]
    /\ crashes \in Nat
    /\ ledger \in [Products -> Int]

\* Every loop is inside its list, every pending save has its entity, and every
\* call about an order names a row of the table (orders are never deleted).
CallOK(r) ==
    /\ pc[r] = "idle" => at[r] = 1 /\ target[r] = r
    /\ pc[r] \in {"read", "checkout"} => op[r] = "create"
    /\ pc[r] = "credit" => op[r] = "cancel"
    /\ pc[r] \in {"load", "update"} => ent[r] \in Entity
    /\ op[r] \in {"create", "cancel"} => at[r] <= Len(items[r])
    /\ pc[r] \in {"save", "publish", "emit"} => orders[target[r]] # NoOrder
    /\ op[r] = "create" => target[r] = r

ControlOK ==
    \A r \in Requests :
       /\ CallOK(r)
       /\ orders[r] # NoOrder => orders[r].items # <<>>

\* However reads and saves of calls interleave, "product.stock -= item.quantity"
\* never leaves a negative stock in the table: what an UPDATE writes was checked
\* against the very copy it was computed from.
StockNonNegative == \A p \in Products : rows[p].stock >= 0

\* Inductive: the entities about to be saved have a stock >= 0 as well.
StockInv ==
    /\ StockNonNegative
    /\ \A r \in Requests : pc[r] \in {"load", "update"} => ent[r].stock >= 0

\* finalPrice is always the markup of the basePrice stored beside it, although
\* stale saves of orders and cancels rewrite price columns: an UPDATE carries
\* either both columns or neither.
PriceConsistent == \A p \in Products : rows[p].final = Markup[rows[p].base]

\* Inductive: entities in memory are consistent too, and the two price columns
\* are dirty together.
PriceInv ==
    /\ PriceConsistent
    /\ \A r \in Requests : pc[r] \in {"load", "update"} =>
          /\ ent[r].final = Markup[ent[r].base]
          /\ "base" \in dirty[r] <=> "final" \in dirty[r]

\* An event a broker has accepted is about an order whose row is committed:
\* publishing comes after the save on every path.
NoPhantomEvent ==
    /\ \A i \in 1..Len(queue) : orders[queue[i].order] # NoOrder
    /\ \A i \in 1..Len(topic) : orders[topic[i].order] # NoOrder

\* No save is lost: between calls the stock column equals the stock that
\* atomic increments and decrements would have produced.
LedgerExact ==
    (\A r \in Requests : pc[r] # "update") =>
        \A p \in Products : rows[p].stock = ledger[p]

\* "soft delete": no call brings a deactivated product back (no DTO carries
\* isActive, so nothing is meant to).
SoftDeleteIsFinal ==
    [][\A p \in Products : ~rows[p].active => ~rows'[p].active]_vars

\* The save of OrdersService.cancel never overwrites shipped or delivered.
CancelRespectsShipment ==
    [][\A r \in Requests :
          pc[r] = "save" /\ op[r] = "cancel" /\ pc'[r] = "credit"
             => orders[target[r]].status \notin {"shipped", "delivered"}]_vars
===========================================================================
