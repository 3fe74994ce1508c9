------------------------- MODULE NestOrdersProofs -------------------------
(***************************************************************************)
(* Theorems about NestOrders, for every set of calls and products, any      *)
(* number of concurrent calls and any number of crashes.                    *)
(***************************************************************************)
EXTENDS NestOrders, FiniteSetTheorems, TLAPS

Inv == TypeOK /\ ControlOK

\* The final prices are the images of the prices.
LEMMA MarkupInFinalPrices == \A b \in Prices : Markup[b] \in FinalPrices
  BY DEF FinalPrices

\* dto.items is a nonempty list of items.
LEMMA CartIsSeq == \A c \in Carts : c \in Seq(Item) /\ Len(c) >= 1 /\ c # <<>>
  BY InputAssumption DEF Carts

\* What the entity operators of the model return.
LEMMA EntityChanges ==
  ASSUME NEW e \in Entity
  PROVE  /\ \A n \in Int : [e EXCEPT !.stock = n] \in Entity
         /\ [e EXCEPT !.active = FALSE] \in Entity
         /\ \A x \in Patches : Patched(e, x) \in Entity
<1>1. \A n \in Int : [e EXCEPT !.stock = n] \in Entity
  BY DEF Entity
<1>2. [e EXCEPT !.active = FALSE] \in Entity
  BY DEF Entity
<1>3. ASSUME NEW x \in Patches PROVE Patched(e, x) \in Entity
  <2>1. ("stock" \in DOMAIN x => x["stock"] \in Int)
        /\ ("minQty" \in DOMAIN x => x["minQty"] \in MinQuantities)
        /\ ("base" \in DOMAIN x => x["base"] \in Prices /\ Markup[x["base"]] \in FinalPrices)
    BY PatchAssumption, MarkupInFinalPrices DEF UpdateProductDto
  <2>. QED  BY <2>1 DEF Patched, Entity
<1>. QED  BY <1>1, <1>2, <1>3

\* An UPDATE leaves a row a row, with the same id.
LEMMA WriteEntity ==
  ASSUME NEW row \in Entity, NEW e \in Entity, NEW d
  PROVE  Write(row, e, d) \in Entity /\ Write(row, e, d).id = row.id
  BY DEF Write, Entity

\* The item a loop looks at is an item of its list.
LEMMA CurrentItem ==
  ASSUME Inv, NEW r \in Requests, op[r] \in {"create", "cancel"}
  PROVE  /\ Current(r) \in Item
         /\ Current(r).product \in Products
         /\ Current(r).qty \in Nat \ {0}
<1>1. items[r] \in Seq(Item) /\ at[r] \in Nat \ {0} /\ at[r] <= Len(items[r])
  BY DEF Inv, TypeOK, ControlOK, CallOK
<1>2. Current(r) \in Item
  BY <1>1 DEF Current
<1>. QED  BY <1>2, QuantityAssumption DEF Item

\* findOne of a product returns that product.
LEMMA RowIsEntity ==
  ASSUME Inv, NEW p \in Products
  PROVE  rows[p] \in Entity /\ rows[p].id = p
  BY DEF Inv, TypeOK

\* The tables start well typed and no call is under way.
LEMMA InitInv == Init => Inv
<1> SUFFICES ASSUME Init PROVE Inv
  OBVIOUS
<1>1. PICK m \in [Products -> MinQuantities], b \in [Products -> Prices] :
         rows = [p \in Products |-> NewProduct(p, m[p], b[p])]
  BY DEF Init
<1>2. rows \in [Products -> Entity] /\ \A p \in Products : rows[p].id = p
  BY <1>1, MarkupInFinalPrices, QuantityAssumption DEF NewProduct, Entity
<1>3. TypeOK
  BY <1>2, QuantityAssumption DEF Init, TypeOK, Operations, Steps, Status
<1>4. ControlOK
  BY DEF Init, ControlOK, CallOK, NoOrder
<1>. QED  BY <1>3, <1>4 DEF Inv

\* Finishing a call resets its memory to values of the right types.
LEMMA FinishInv ==
  ASSUME Inv, NEW r \in Requests, Finish(r)
  PROVE  /\ pc' \in [Requests -> Steps]
         /\ op' \in [Requests -> Operations \cup {"none"}]
         /\ items' \in [Requests -> Seq(Item)]
         /\ at' \in [Requests -> Nat \ {0}]
         /\ target' \in [Requests -> Requests]
         /\ want' \in [Requests -> Status]
         /\ ent' \in [Requests -> Entity \cup {NoEntity}]
         /\ dirty' \in [Requests -> SUBSET Columns]
  BY DEF Inv, TypeOK, Finish, Steps, Status

\* Every step keeps the types and keeps every call well placed; each action is one
\* step of the proof.
LEMMA NextInv == Inv /\ [Next]_vars => Inv'
<1> SUFFICES ASSUME Inv, [Next]_vars PROVE Inv'
  OBVIOUS
<1> USE DEF Inv
<1>1. ASSUME NEW r \in Requests, CreateStart(r) PROVE Inv'
  <2>1. PICK its \in Carts : items' = [items EXCEPT ![r] = its]
    BY <1>1 DEF CreateStart
  <2>2. TypeOK'
    BY <1>1, <2>1, CartIsSeq DEF CreateStart, CanStart, TypeOK, Goto, Steps, Operations,
       tables, brokers
  <2>3. ControlOK'
    <3> SUFFICES ASSUME NEW q \in Requests
                  PROVE  /\ CallOK(q)'
                         /\ orders'[q] # NoOrder => orders'[q].items # <<>>
      BY DEF ControlOK
    <3>1. CASE q = r
      BY <1>1, <2>1, CartIsSeq, <3>1 DEF CreateStart, CanStart, TypeOK, ControlOK, CallOK, Goto, tables
    <3>2. CASE q # r
      BY <1>1, <2>1, CartIsSeq, <3>2 DEF CreateStart, CanStart, TypeOK, ControlOK, CallOK, Goto, tables
    <3>. QED  BY <3>1, <3>2
  <2>. QED  BY <2>2, <2>3
<1>2. ASSUME NEW r \in Requests, CreateRead(r) PROVE Inv'
  <2>1. Current(r).product \in Products /\ Current(r).qty \in Nat
    BY <1>2, CurrentItem DEF CreateRead, ControlOK, CallOK
  <2>2. [rows[Current(r).product] EXCEPT !.stock = @ - Current(r).qty] \in Entity
    <3>1. rows[Current(r).product] \in Entity
      BY <2>1, RowIsEntity
    <3>2. rows[Current(r).product].stock - Current(r).qty \in Int
      BY <2>1, <3>1 DEF Entity
    <3>. QED  BY <3>1, <3>2, EntityChanges
  <2>3. TypeOK'
    BY <1>2, <2>2 DEF CreateRead, TypeOK, Goto, Steps, tables, brokers
  <2>4. ControlOK'
    <3> SUFFICES ASSUME NEW q \in Requests
                  PROVE  /\ CallOK(q)'
                         /\ orders'[q] # NoOrder => orders'[q].items # <<>>
      BY DEF ControlOK
    <3>1. CASE q = r
      BY <1>2, <2>2, <3>1 DEF CreateRead, TypeOK, ControlOK, CallOK, Goto, tables
    <3>2. CASE q # r
      BY <1>2, <2>2, <3>2 DEF CreateRead, TypeOK, ControlOK, CallOK, Goto, tables
    <3>. QED  BY <3>1, <3>2
  <2>. QED  BY <2>3, <2>4
<1>3. ASSUME NEW r \in Requests, Finish(r), UNCHANGED <<tables, brokers, crashes, ledger>>
      PROVE  Inv'
  <2>1. TypeOK'
    BY <1>3, FinishInv DEF TypeOK, tables, brokers
  <2>2. ControlOK'
    <3> SUFFICES ASSUME NEW q \in Requests
                  PROVE  /\ CallOK(q)'
                         /\ orders'[q] # NoOrder => orders'[q].items # <<>>
      BY DEF ControlOK
    <3>1. CASE q = r
      BY <1>3, <3>1 DEF TypeOK, ControlOK, CallOK, Finish, tables
    <3>2. CASE q # r
      BY <1>3, <3>2 DEF TypeOK, ControlOK, CallOK, Finish, tables
    <3>. QED  BY <3>1, <3>2
  <2>. QED  BY <2>1, <2>2
<1>4. ASSUME NEW r \in Requests, InsertOrder(r) PROVE Inv'
  <2>1. [status |-> "pending", items |-> items[r]] \in OrderRow /\ items[r] # <<>>
    BY <1>4 DEF InsertOrder, TypeOK, ControlOK, CallOK, OrderRow, Status
  <2>2. TypeOK'
    BY <1>4, <2>1 DEF InsertOrder, TypeOK, Goto, Steps, brokers, local
  <2>3. ControlOK'
    <3> SUFFICES ASSUME NEW q \in Requests
                  PROVE  /\ CallOK(q)'
                         /\ orders'[q] # NoOrder => orders'[q].items # <<>>
      BY DEF ControlOK
    <3>1. CASE q = r
      BY <1>4, <2>1, <3>1 DEF InsertOrder, TypeOK, ControlOK, CallOK, Goto, local, NoOrder, OrderRow, Status
    <3>2. CASE q # r
      BY <1>4, <2>1, <3>2 DEF InsertOrder, TypeOK, ControlOK, CallOK, Goto, local, NoOrder, OrderRow, Status
    <3>. QED  BY <3>1, <3>2
  <2>. QED  BY <2>2, <2>3
<1>5. ASSUME NEW r \in Requests, StatusSave(r) \/ CancelSave(r) PROVE Inv'
  <2> DEFINE saved == [orders[target[r]] EXCEPT !.status = want[r]]
  <2>1. orders[target[r]] \in OrderRow /\ target[r] \in Requests
    BY <1>5 DEF StatusSave, CancelSave, TypeOK, ControlOK, CallOK
  <2>2. saved \in OrderRow /\ saved # NoOrder /\ saved.items = orders[target[r]].items
    BY <2>1 DEF TypeOK, OrderRow, NoOrder, Status
  <2>3. /\ orders' = [orders EXCEPT ![target[r]] = saved]
        /\ \/ op[r] = "status" /\ Goto(r, "emit")
           \/ op[r] = "cancel" /\ Goto(r, "credit")
        /\ pc[r] = "save"
        /\ UNCHANGED <<rows, brokers, local, crashes, ledger>>
    BY <1>5 DEF StatusSave, CancelSave
  <2>. HIDE DEF saved
  <2>4. TypeOK'
    <3>1. orders' \in [Requests -> OrderRow \cup {NoOrder}]
      BY <2>1, <2>2, <2>3 DEF TypeOK
    <3>. QED  BY <2>3, <3>1 DEF TypeOK, Goto, Steps, brokers, local
  <2>5. ControlOK'
    <3> SUFFICES ASSUME NEW q \in Requests
                 PROVE  /\ CallOK(q)'
                        /\ orders'[q] # NoOrder => orders'[q].items # <<>>
      BY DEF ControlOK
    <3>1. \A o \in Requests : orders[o] # NoOrder => orders'[o] # NoOrder
      BY <2>1, <2>2, <2>3 DEF TypeOK
    <3>2. CallOK(q)'
      BY <2>3, <3>1 DEF TypeOK, ControlOK, CallOK, Goto, local
    <3>3. orders'[q] # NoOrder => orders'[q].items # <<>>
      <4>1. orders[target[r]] # NoOrder
        BY <2>3 DEF ControlOK, CallOK
      <4>. QED  BY <2>1, <2>2, <2>3, <4>1 DEF TypeOK, ControlOK
    <3>. QED  BY <3>2, <3>3
  <2>. QED  BY <2>4, <2>5
<1>6. ASSUME NEW r \in Requests, PublishRabbit(r) \/ PublishFails(r) \/ EmitKafka(r) \/ EmitFails(r)
      PROVE  Inv'
  <2>1. EventOf(r) \in Event
    BY DEF EventOf, Event, TypeOK
  <2>2. queue' \in Seq(Event) /\ topic' \in Seq(Event) /\ UNCHANGED <<tables, crashes, ledger>>
    <3>1. Append(queue, EventOf(r)) \in Seq(Event) /\ Append(topic, EventOf(r)) \in Seq(Event)
      BY <2>1 DEF TypeOK
    <3>2. /\ queue' = Append(queue, EventOf(r)) \/ queue' = queue
          /\ topic' = Append(topic, EventOf(r)) \/ topic' = topic
          /\ UNCHANGED <<tables, crashes, ledger>>
      BY <1>6 DEF PublishRabbit, PublishFails, EmitKafka, EmitFails, brokers
    <3>. QED  BY <3>1, <3>2 DEF TypeOK
  <2>3. CASE Finish(r)
    <3>1. TypeOK'
      BY <2>2, <2>3, FinishInv DEF TypeOK, tables
    <3>2. ControlOK'
      <4> SUFFICES ASSUME NEW q \in Requests
                    PROVE  /\ CallOK(q)'
                           /\ orders'[q] # NoOrder => orders'[q].items # <<>>
        BY DEF ControlOK
      <4>1. CASE q = r
        BY <2>2, <2>3, <4>1 DEF TypeOK, ControlOK, CallOK, Finish, tables
      <4>2. CASE q # r
        BY <2>2, <2>3, <4>2 DEF TypeOK, ControlOK, CallOK, Finish, tables
      <4>. QED  BY <4>1, <4>2
    <3>. QED  BY <3>1, <3>2
  <2>4. CASE pc[r] \in {"publish", "emit"} /\ UNCHANGED local
              /\ \E s \in {"publish", "emit"} : Goto(r, s)
    <3>1. TypeOK'
      BY <2>2, <2>4 DEF TypeOK, tables, local, Goto, Steps
    <3>2. ControlOK'
      <4> SUFFICES ASSUME NEW q \in Requests
                    PROVE  /\ CallOK(q)'
                           /\ orders'[q] # NoOrder => orders'[q].items # <<>>
        BY DEF ControlOK
      <4>1. CASE q = r
        BY <2>2, <2>4, <4>1 DEF TypeOK, ControlOK, CallOK, tables, local, Goto
      <4>2. CASE q # r
        BY <2>2, <2>4, <4>2 DEF TypeOK, ControlOK, CallOK, tables, local, Goto
      <4>. QED  BY <4>1, <4>2
    <3>. QED  BY <3>1, <3>2
  <2>. QED
    BY <1>6, <2>3, <2>4 DEF PublishRabbit, PublishFails, EmitKafka, EmitFails
<1>7. ASSUME NEW r \in Requests, StatusStart(r) PROVE Inv'
  <2>1. TypeOK'
    BY <1>7, InputAssumption
       DEF StatusStart, CanStart, TypeOK, Goto, Steps, Operations, tables, brokers
  <2>2. ControlOK'
    <3> SUFFICES ASSUME NEW q \in Requests
                  PROVE  /\ CallOK(q)'
                         /\ orders'[q] # NoOrder => orders'[q].items # <<>>
      BY DEF ControlOK
    <3>1. CASE q = r
      BY <1>7, <3>1 DEF StatusStart, CanStart, TypeOK, ControlOK, CallOK, Goto, tables
    <3>2. CASE q # r
      BY <1>7, <3>2 DEF StatusStart, CanStart, TypeOK, ControlOK, CallOK, Goto, tables
    <3>. QED  BY <3>1, <3>2
  <2>. QED  BY <2>1, <2>2
<1>8. ASSUME NEW r \in Requests, CancelStart(r) PROVE Inv'
  <2>1. PICK o \in Requests :
           /\ orders[o] # NoOrder
           /\ target' = [target EXCEPT ![r] = o]
           /\ items' = [items EXCEPT ![r] = orders[o].items]
    BY <1>8 DEF CancelStart
  <2>2. orders[o].items \in Seq(Item) /\ Len(orders[o].items) >= 1
    BY <2>1 DEF TypeOK, ControlOK, OrderRow
  <2>3. TypeOK'
    BY <1>8, <2>1, <2>2
       DEF CancelStart, CanStart, TypeOK, Goto, Steps, Operations, Status, tables, brokers
  <2>4. ControlOK'
    <3> SUFFICES ASSUME NEW q \in Requests
                  PROVE  /\ CallOK(q)'
                         /\ orders'[q] # NoOrder => orders'[q].items # <<>>
      BY DEF ControlOK
    <3>1. CASE q = r
      BY <1>8, <2>1, <2>2, <3>1 DEF CancelStart, CanStart, TypeOK, ControlOK, CallOK, Goto, tables
    <3>2. CASE q # r
      BY <1>8, <2>1, <2>2, <3>2 DEF CancelStart, CanStart, TypeOK, ControlOK, CallOK, Goto, tables
    <3>. QED  BY <3>1, <3>2
  <2>. QED  BY <2>3, <2>4
<1>9. ASSUME NEW r \in Requests, CreditRead(r) PROVE Inv'
  <2>1. Current(r).product \in Products /\ Current(r).qty \in Nat
    BY <1>9, CurrentItem DEF CreditRead, ControlOK, CallOK
  <2>2. [rows[Current(r).product] EXCEPT !.stock = @ + Current(r).qty] \in Entity
    <3>1. rows[Current(r).product] \in Entity
      BY <2>1, RowIsEntity
    <3>2. rows[Current(r).product].stock + Current(r).qty \in Int
      BY <2>1, <3>1 DEF Entity
    <3>. QED  BY <3>1, <3>2, EntityChanges
  <2>3. TypeOK'
    BY <1>9, <2>2 DEF CreditRead, TypeOK, Goto, Steps, tables, brokers
  <2>4. ControlOK'
    <3> SUFFICES ASSUME NEW q \in Requests
                  PROVE  /\ CallOK(q)'
                         /\ orders'[q] # NoOrder => orders'[q].items # <<>>
      BY DEF ControlOK
    <3>1. CASE q = r
      BY <1>9, <2>2, <3>1 DEF CreditRead, TypeOK, ControlOK, CallOK, Goto, tables
    <3>2. CASE q # r
      BY <1>9, <2>2, <3>2 DEF CreditRead, TypeOK, ControlOK, CallOK, Goto, tables
    <3>. QED  BY <3>1, <3>2
  <2>. QED  BY <2>3, <2>4
<1>10. ASSUME NEW r \in Requests, UpdateStart(r) PROVE Inv'
  <2>1. PICK p \in Products, x \in Patches, o \in {"restock", "update"} :
           /\ CanStart(r, o)
           /\ op' = [op EXCEPT ![r] = o]
           /\ ent' = [ent EXCEPT ![r] = Patched(rows[p], x)]
           /\ dirty' = [dirty EXCEPT ![r] = AlwaysDirty(x)]
           /\ Goto(r, "load")
           /\ UNCHANGED <<tables, brokers, items, at, target, want, crashes, ledger>>
    BY <1>10 DEF UpdateStart
  <2>2. Patched(rows[p], x) \in Entity
    BY RowIsEntity, EntityChanges
  <2>3. AlwaysDirty(x) \subseteq Columns
    BY DEF AlwaysDirty, Columns
  <2>4. TypeOK'
    BY <2>1, <2>2, <2>3 DEF CanStart, TypeOK, Goto, Steps, Operations, tables, brokers
  <2>5. ControlOK'
    <3> SUFFICES ASSUME NEW q \in Requests
                  PROVE  /\ CallOK(q)'
                         /\ orders'[q] # NoOrder => orders'[q].items # <<>>
      BY DEF ControlOK
    <3>1. CASE q = r
      BY <2>1, <2>2, <3>1 DEF CanStart, TypeOK, ControlOK, CallOK, Goto, tables
    <3>2. CASE q # r
      BY <2>1, <2>2, <3>2 DEF CanStart, TypeOK, ControlOK, CallOK, Goto, tables
    <3>. QED  BY <3>1, <3>2
  <2>. QED  BY <2>4, <2>5
<1>11. ASSUME NEW r \in Requests, RemoveStart(r) PROVE Inv'
  <2>1. PICK p \in Products :
           /\ CanStart(r, "remove")
           /\ op' = [op EXCEPT ![r] = "remove"]
           /\ ent' = [ent EXCEPT ![r] = [rows[p] EXCEPT !.active = FALSE]]
           /\ dirty' = [dirty EXCEPT ![r] = {}]
           /\ Goto(r, "load")
           /\ UNCHANGED <<tables, brokers, items, at, target, want, crashes, ledger>>
    BY <1>11 DEF RemoveStart
  <2>2. [rows[p] EXCEPT !.active = FALSE] \in Entity
    BY RowIsEntity, EntityChanges
  <2>3. TypeOK'
    BY <2>1, <2>2
       DEF CanStart, TypeOK, Goto, Steps, Operations, tables, brokers
  <2>4. ControlOK'
    <3> SUFFICES ASSUME NEW q \in Requests
                  PROVE  /\ CallOK(q)'
                         /\ orders'[q] # NoOrder => orders'[q].items # <<>>
      BY DEF ControlOK
    <3>1. CASE q = r
      BY <2>1, <2>2, <3>1 DEF CanStart, TypeOK, ControlOK, CallOK, Goto, tables
    <3>2. CASE q # r
      BY <2>1, <2>2, <3>2 DEF CanStart, TypeOK, ControlOK, CallOK, Goto, tables
    <3>. QED  BY <3>1, <3>2
  <2>. QED  BY <2>3, <2>4
<1>12. ASSUME NEW r \in Requests, Load(r) PROVE Inv'
  <2>1. Diff(ent[r], rows[ent[r].id]) \subseteq Columns
    BY DEF Diff, Columns
  <2>2. TypeOK'
    BY <1>12, <2>1 DEF Load, TypeOK, Goto, Steps, tables, brokers
  <2>3. ControlOK'
    <3> SUFFICES ASSUME NEW q \in Requests
                  PROVE  /\ CallOK(q)'
                         /\ orders'[q] # NoOrder => orders'[q].items # <<>>
      BY DEF ControlOK
    <3>1. CASE q = r
      BY <1>12, <3>1 DEF Load, TypeOK, ControlOK, CallOK, Goto, tables
    <3>2. CASE q # r
      BY <1>12, <3>2 DEF Load, TypeOK, ControlOK, CallOK, Goto, tables
    <3>. QED  BY <3>1, <3>2
  <2>. QED  BY <2>2, <2>3
<1>13. ASSUME NEW r \in Requests, Update(r) PROVE Inv'
  <2> DEFINE p == ent[r].id
  <2>1. pc[r] = "update" /\ ent[r] \in Entity /\ p \in Products
    BY <1>13 DEF Update, TypeOK, ControlOK, CallOK, Entity
  <2>2. Write(rows[p], ent[r], dirty[r]) \in Entity
        /\ Write(rows[p], ent[r], dirty[r]).id = p
    BY <2>1, RowIsEntity, WriteEntity
  <2>3. rows' = [rows EXCEPT ![p] = Write(rows[p], ent[r], dirty[r])]
        /\ UNCHANGED <<orders, brokers, crashes>>
    BY <1>13 DEF Update
  <2>4. op[r] \in {"create", "cancel"} => Current(r).qty \in Nat
    BY CurrentItem
  <2>5. ledger' \in [Products -> Int]
    BY <1>13, <2>1, <2>4 DEF Update, LedgerAfter, TypeOK, Entity
  <2>6. CASE Finish(r)
    <3>1. TypeOK'
      BY <2>1, <2>2, <2>3, <2>5, <2>6, FinishInv DEF TypeOK, brokers
    <3>2. ControlOK'
      BY <2>3, <2>6 DEF TypeOK, ControlOK, CallOK, Finish
    <3>. QED  BY <3>1, <3>2
  <2>7. CASE /\ op[r] \in {"create", "cancel"}
             /\ \/ ~IsLast(r) /\ at' = [at EXCEPT ![r] = @ + 1]
                \/ IsLast(r) /\ at' = at
             /\ \/ op[r] = "create" /\ \E s \in {"checkout", "read"} : Goto(r, s)
                \/ op[r] = "cancel" /\ Goto(r, "credit")
             /\ ForgetEntity(r)
    <3>1. at' \in [Requests -> Nat \ {0}] /\ at'[r] <= Len(items[r])
      BY <2>7 DEF TypeOK, ControlOK, CallOK, IsLast
    <3>2. TypeOK'
      <4>1. rows' \in [Products -> Entity] /\ \A z \in Products : rows'[z].id = z
        BY <2>1, <2>2, <2>3 DEF TypeOK
      <4>2. pc' \in [Requests -> Steps]
        BY <2>7 DEF TypeOK, Goto, Steps
      <4>3. ent' \in [Requests -> Entity \cup {NoEntity}] /\ dirty' \in [Requests -> SUBSET Columns]
        BY <2>7 DEF TypeOK, ForgetEntity
      <4>4. UNCHANGED <<op, items, target, want>>
        BY <2>7 DEF ForgetEntity
      <4>. QED  BY <2>3, <2>5, <3>1, <4>1, <4>2, <4>3, <4>4 DEF TypeOK, brokers
    <3>3. ControlOK'
      <4> SUFFICES ASSUME NEW q \in Requests
                   PROVE  /\ CallOK(q)'
                          /\ orders'[q] # NoOrder => orders'[q].items # <<>>
        BY DEF ControlOK
      <4>1. CASE q = r
        BY <2>1, <2>3, <2>7, <3>1, <4>1 DEF TypeOK, ControlOK, CallOK, ForgetEntity, Goto
      <4>2. CASE q # r
        BY <2>1, <2>3, <2>7, <4>2 DEF TypeOK, ControlOK, CallOK, ForgetEntity, Goto
      <4>. QED  BY <4>1, <4>2
    <3>. QED  BY <3>2, <3>3
  <2>. QED  BY <1>13, <2>6, <2>7 DEF Update
<1>14. ASSUME Crash PROVE Inv'
  <2>1. TypeOK'
    BY <1>14 DEF Crash, TypeOK, Steps, Status, tables, brokers
  <2>2. ControlOK'
    BY <1>14 DEF Crash, TypeOK, ControlOK, CallOK, InFlight, tables
  <2>. QED  BY <2>1, <2>2
<1>15. CASE UNCHANGED vars
  BY <1>15 DEF vars, tables, brokers, local, TypeOK, ControlOK, CallOK
<1>. QED
  BY <1>1, <1>2, <1>3, <1>4, <1>5, <1>6, <1>7, <1>8, <1>9, <1>10, <1>11, <1>12, <1>13,
     <1>14, <1>15 DEF Next, CallStep, AllDone, CreateReject, FreightFails

\* Every reachable state is well typed and every call well placed, whatever the
\* number of calls in flight: the base of the theorems below.
THEOREM TypeCorrect == Spec => [](TypeOK /\ ControlOK)
<1>1. Init => Inv
  BY InitInv
<1>2. Inv /\ [Next]_vars => Inv'
  BY NextInv
<1>. QED  BY <1>1, <1>2, PTL DEF Spec, Inv
---------------------------------------------------------------------------
(***************************************************************************)
(* Stock.  Only CreateRead lowers a stock, in the copy it has just checked;  *)
(* an UPDATE writes such a copy or leaves the column alone.                *)
(***************************************************************************)
\* Steps that touch neither the rows nor the entity of any call in a save.
LEMMA StockFrame ==
  ASSUME Inv, StockInv, UNCHANGED rows,
         \A q \in Requests : pc'[q] \in {"load", "update"} =>
             pc[q] \in {"load", "update"} /\ ent'[q] = ent[q]
  PROVE  StockInv'
  BY DEF StockInv, StockNonNegative

\* Steps that bring one entity into memory.
LEMMA StockRead ==
  ASSUME Inv, StockInv, UNCHANGED rows, NEW r \in Requests, NEW e, e.stock >= 0,
         ent' = [ent EXCEPT ![r] = e], pc' = [pc EXCEPT ![r] = "load"]
  PROVE  StockInv'
  BY DEF StockInv, StockNonNegative, Inv, TypeOK

\* The steps of a call that are neither a read of a product nor a save of one.
LEMMA FrameSteps ==
  ASSUME Inv, NEW r \in Requests,
         \/ CreateStart(r) \/ CreateReject(r) \/ FreightFails(r) \/ InsertOrder(r)
         \/ PublishRabbit(r) \/ PublishFails(r) \/ EmitKafka(r) \/ EmitFails(r)
         \/ StatusStart(r) \/ StatusSave(r) \/ CancelStart(r) \/ CancelSave(r)
  PROVE  /\ UNCHANGED rows
         /\ \A q \in Requests : pc'[q] \in {"load", "update"} =>
               pc[q] \in {"load", "update"} /\ ent'[q] = ent[q] /\ dirty'[q] = dirty[q]
  BY DEF Inv, TypeOK, CreateStart, CreateReject, FreightFails, InsertOrder, PublishRabbit,
     PublishFails, EmitKafka, EmitFails, StatusStart, StatusSave, CancelStart, CancelSave,
     Finish, Goto, local, tables

\* Every step keeps the stock of the rows, and of the entities to be saved, >= 0.
LEMMA StockNext == Inv /\ StockInv /\ [Next]_vars => StockInv'
<1> SUFFICES ASSUME Inv, StockInv, [Next]_vars PROVE StockInv'
  OBVIOUS
<1>1. ASSUME NEW r \in Requests, CreateRead(r) PROVE StockInv'
  <2> DEFINE row == rows[Current(r).product]
             e == [row EXCEPT !.stock = @ - Current(r).qty]
  <2>1. Current(r).product \in Products /\ Current(r).qty \in Nat
    BY <1>1, CurrentItem DEF CreateRead, Inv, ControlOK, CallOK
  <2>2. row \in Entity /\ row.stock >= Current(r).qty
    BY <1>1, <2>1, RowIsEntity DEF CreateRead, Acceptable
  <2>3. e.stock >= 0
    BY <2>1, <2>2 DEF Entity
  <2>. QED  BY <1>1, <2>3, StockRead DEF CreateRead, Goto, tables
<1>2. ASSUME NEW r \in Requests, CreditRead(r) PROVE StockInv'
  <2> DEFINE row == rows[Current(r).product]
             e == [row EXCEPT !.stock = @ + Current(r).qty]
  <2>1. Current(r).product \in Products /\ Current(r).qty \in Nat
    BY <1>2, CurrentItem DEF CreditRead, Inv, ControlOK, CallOK
  <2>2. row \in Entity /\ row.stock >= 0
    BY <2>1, RowIsEntity DEF StockInv, StockNonNegative
  <2>3. e.stock >= 0
    BY <2>1, <2>2 DEF Entity
  <2>. QED  BY <1>2, <2>3, StockRead DEF CreditRead, Goto, tables
<1>3. ASSUME NEW r \in Requests, UpdateStart(r) PROVE StockInv'
  <2>1. PICK p \in Products, x \in Patches :
           ent' = [ent EXCEPT ![r] = Patched(rows[p], x)] /\ Goto(r, "load") /\ UNCHANGED tables
    BY <1>3 DEF UpdateStart
  <2>2. rows[p] \in Entity /\ rows[p].stock >= 0
    BY RowIsEntity DEF StockInv, StockNonNegative
  <2>3. Patched(rows[p], x).stock >= 0
    BY <2>2, PatchAssumption DEF UpdateProductDto, Patched, Entity
  <2>. QED  BY <2>1, <2>3, StockRead DEF Goto, tables
<1>4. ASSUME NEW r \in Requests, RemoveStart(r) PROVE StockInv'
  <2>1. PICK p \in Products :
           /\ ent' = [ent EXCEPT ![r] = [rows[p] EXCEPT !.active = FALSE]]
           /\ Goto(r, "load") /\ UNCHANGED tables
    BY <1>4 DEF RemoveStart
  <2>2. rows[p] \in Entity /\ rows[p].stock >= 0
    BY RowIsEntity DEF StockInv, StockNonNegative
  <2>3. [rows[p] EXCEPT !.active = FALSE].stock >= 0
    BY <2>2 DEF Entity
  <2>. QED  BY <2>1, <2>3, StockRead DEF Goto, tables
<1>5. ASSUME NEW r \in Requests, Load(r) PROVE StockInv'
  BY <1>5, StockFrame DEF Load, Goto, tables, Inv, TypeOK
<1>6. ASSUME NEW r \in Requests, Update(r) PROVE StockInv'
  <2>1. pc[r] = "update" /\ ent[r] \in Entity /\ ent[r].id \in Products /\ ent[r].stock >= 0
    BY <1>6 DEF Update, Inv, ControlOK, CallOK, StockInv, Entity
  <2>2. rows' = [rows EXCEPT ![ent[r].id] = Write(rows[ent[r].id], ent[r], dirty[r])]
    BY <1>6 DEF Update
  <2>3. Write(rows[ent[r].id], ent[r], dirty[r]).stock >= 0
    BY <2>1, RowIsEntity DEF Write, Entity, StockInv, StockNonNegative
  <2>4. \A q \in Requests : pc'[q] \in {"load", "update"} =>
           pc[q] \in {"load", "update"} /\ ent'[q] = ent[q]
    BY <1>6 DEF Update, Finish, ForgetEntity, Goto, Inv, TypeOK
  <2>. QED  BY <2>1, <2>2, <2>3, <2>4 DEF StockInv, StockNonNegative, Inv, TypeOK
<1>7. ASSUME Crash PROVE StockInv'
  BY <1>7, StockFrame DEF Crash, InFlight, tables, Inv, TypeOK
<1>8. CASE UNCHANGED vars
  BY <1>8, StockFrame DEF vars, tables, local
<1>. QED
  BY <1>1, <1>2, <1>3, <1>4, <1>5, <1>6, <1>7, <1>8, FrameSteps, StockFrame
     DEF Next, CallStep, AllDone

\* However reads, saves and crashes interleave, no stock column is ever negative.
THEOREM StockNeverNegative == Spec => []StockNonNegative
<1>1. Init => StockInv
  BY QuantityAssumption DEF Init, StockInv, StockNonNegative, NewProduct
<1>2. Inv /\ StockInv /\ [Next]_vars => StockInv'
  BY StockNext
<1>3. StockInv => StockNonNegative
  BY DEF StockInv
<1>. QED  BY <1>1, <1>2, <1>3, InitInv, NextInv, PTL DEF Spec

---------------------------------------------------------------------------
(***************************************************************************)
(* Prices.  Markup is injective, so two consistent entities differ in both   *)
(* price columns or in neither: no interleaving of stale saves can mix the   *)
(* base price of one edit with the final price of another.                 *)
(***************************************************************************)
Paired(e) == e.final = Markup[e.base]
Together(d) == "base" \in d <=> "final" \in d

\* Two entities with consistent prices differ in both price columns or in neither.
LEMMA DiffTogether ==
  ASSUME NEW e \in Entity, NEW row \in Entity, Paired(e), Paired(row)
  PROVE  Together(Diff(e, row))
<1>1. e.base # row.base <=> e.final # row.final
  BY MarkupAssumption DEF Paired, Entity
<1>. QED  BY <1>1 DEF Together, Diff

\* An UPDATE of both price columns, or of neither, keeps the row consistent.
LEMMA WritePaired ==
  ASSUME NEW e \in Entity, NEW row \in Entity, NEW d, Paired(e), Paired(row), Together(d)
  PROVE  Paired(Write(row, e, d))
  BY DEF Paired, Together, Write, Entity

\* PATCH recomputes the final price whenever it carries a base price.
LEMMA PatchedPaired ==
  ASSUME NEW e \in Entity, Paired(e), NEW x \in Patches
  PROVE  Paired(Patched(e, x)) /\ Together(AlwaysDirty(x))
  BY PatchAssumption DEF UpdateProductDto, Paired, Together, Patched, AlwaysDirty, Entity

\* Steps that touch neither the rows nor the entity of any call in a save.
LEMMA PriceFrame ==
  ASSUME Inv, PriceInv, UNCHANGED rows,
         \A q \in Requests : pc'[q] \in {"load", "update"} =>
            pc[q] \in {"load", "update"} /\ ent'[q] = ent[q] /\ dirty'[q] = dirty[q]
  PROVE  PriceInv'
  BY DEF PriceInv, PriceConsistent

\* Steps that bring one entity with consistent prices into memory.
LEMMA PriceRead ==
  ASSUME Inv, PriceInv, UNCHANGED rows, NEW r \in Requests,
         NEW e, Paired(e), NEW d, Together(d),
         ent' = [ent EXCEPT ![r] = e], dirty' = [dirty EXCEPT ![r] = d],
         pc' = [pc EXCEPT ![r] = "load"]
  PROVE  PriceInv'
  BY DEF PriceInv, PriceConsistent, Paired, Together, Inv, TypeOK

\* A row read from the table has consistent prices.
LEMMA RowPaired ==
  ASSUME Inv, PriceInv, NEW p \in Products
  PROVE  rows[p] \in Entity /\ Paired(rows[p])
  BY RowIsEntity DEF PriceInv, PriceConsistent, Paired

\* Every step keeps the prices of the rows and of the entities to be saved paired.
LEMMA PriceNext == Inv /\ PriceInv /\ [Next]_vars => PriceInv'
<1> SUFFICES ASSUME Inv, PriceInv, [Next]_vars PROVE PriceInv'
  OBVIOUS
<1>0. Together({})
  BY DEF Together
<1>1. ASSUME NEW r \in Requests, CreateRead(r) \/ CreditRead(r) PROVE PriceInv'
  <2> DEFINE row == rows[Current(r).product]
  <2>1. row \in Entity /\ Paired(row)
    BY <1>1, CurrentItem, RowPaired DEF CreateRead, CreditRead, Inv, ControlOK, CallOK
  <2>2. PICK n : ent' = [ent EXCEPT ![r] = [row EXCEPT !.stock = n]]
    BY <1>1 DEF CreateRead, CreditRead
  <2>3. Paired([row EXCEPT !.stock = n])
    BY <2>1 DEF Paired, Entity
  <2>. QED  BY <1>0, <1>1, <2>2, <2>3, PriceRead DEF CreateRead, CreditRead, Goto, tables
<1>2. ASSUME NEW r \in Requests, UpdateStart(r) PROVE PriceInv'
  <2>1. PICK p \in Products, x \in Patches :
           /\ ent' = [ent EXCEPT ![r] = Patched(rows[p], x)]
           /\ dirty' = [dirty EXCEPT ![r] = AlwaysDirty(x)]
           /\ Goto(r, "load") /\ UNCHANGED tables
    BY <1>2 DEF UpdateStart
  <2>. QED  BY <2>1, RowPaired, PatchedPaired, PriceRead DEF Goto, tables
<1>3. ASSUME NEW r \in Requests, RemoveStart(r) PROVE PriceInv'
  <2>1. PICK p \in Products :
           /\ ent' = [ent EXCEPT ![r] = [rows[p] EXCEPT !.active = FALSE]]
           /\ dirty' = [dirty EXCEPT ![r] = {}]
           /\ Goto(r, "load") /\ UNCHANGED tables
    BY <1>3 DEF RemoveStart
  <2>2. Paired([rows[p] EXCEPT !.active = FALSE])
    BY RowPaired DEF Paired, Entity
  <2>. QED  BY <1>0, <2>1, <2>2, PriceRead DEF Goto, tables
<1>4. ASSUME NEW r \in Requests, Load(r) PROVE PriceInv'
  <2>1. pc[r] = "load" /\ ent[r] \in Entity /\ Paired(ent[r]) /\ Together(dirty[r])
    BY <1>4 DEF Load, Inv, ControlOK, CallOK, PriceInv, Paired, Together
  <2>2. Together(Diff(ent[r], rows[ent[r].id]))
    BY <2>1, RowPaired, DiffTogether DEF Entity
  <2>3. Together(dirty[r] \cup Diff(ent[r], rows[ent[r].id]))
    BY <2>1, <2>2 DEF Together
  <2>. QED  BY <1>4, <2>1, <2>3 DEF Load, Goto, tables, PriceInv, PriceConsistent, Paired,
               Together, Inv, TypeOK
<1>5. ASSUME NEW r \in Requests, Update(r) PROVE PriceInv'
  <2>1. /\ pc[r] = "update" /\ ent[r] \in Entity /\ ent[r].id \in Products
        /\ Paired(ent[r]) /\ Together(dirty[r])
    BY <1>5 DEF Update, Inv, ControlOK, CallOK, PriceInv, Entity, Paired, Together
  <2>2. rows' = [rows EXCEPT ![ent[r].id] = Write(rows[ent[r].id], ent[r], dirty[r])]
    BY <1>5 DEF Update
  <2>3. Paired(Write(rows[ent[r].id], ent[r], dirty[r]))
    BY <2>1, RowPaired, WritePaired
  <2>4. \A q \in Requests : pc'[q] \in {"load", "update"} =>
           pc[q] \in {"load", "update"} /\ ent'[q] = ent[q] /\ dirty'[q] = dirty[q]
    BY <1>5 DEF Update, Finish, ForgetEntity, Goto, Inv, TypeOK
  <2>. QED  BY <2>1, <2>2, <2>3, <2>4 DEF PriceInv, PriceConsistent, Paired, Inv, TypeOK
<1>6. ASSUME Crash PROVE PriceInv'
  BY <1>6, PriceFrame DEF Crash, InFlight, tables, Inv, TypeOK
<1>7. CASE UNCHANGED vars
  BY <1>7, PriceFrame DEF vars, tables, local
<1>. QED
  BY <1>1, <1>2, <1>3, <1>4, <1>5, <1>6, <1>7, FrameSteps, PriceFrame
     DEF Next, CallStep, AllDone

\* Under any interleaving the stored final price is the markup of the stored base
\* price.
THEOREM PriceAlwaysConsistent == Spec => []PriceConsistent
<1>1. Init => PriceInv
  BY DEF Init, PriceInv, PriceConsistent, NewProduct
<1>2. Inv /\ PriceInv /\ [Next]_vars => PriceInv'
  BY PriceNext
<1>3. PriceInv => PriceConsistent
  BY DEF PriceInv
<1>. QED  BY <1>1, <1>2, <1>3, InitInv, NextInv, PTL DEF Spec

---------------------------------------------------------------------------
(***************************************************************************)
(* Events.  Order rows are never deleted, and a call publishes only after    *)
(* the order it works on has a row (ControlOK).                            *)
(***************************************************************************)
Committed(o) == orders[o] # NoOrder

\* Only InsertOrder, StatusSave and CancelSave write orders, and each leaves a row.
LEMMA OrdersStay ==
  ASSUME Inv, [Next]_vars, NEW o \in Requests, Committed(o)
  PROVE  Committed(o)'
<1>1. ASSUME NEW r \in Requests, InsertOrder(r) PROVE Committed(o)'
  BY <1>1 DEF InsertOrder, Committed, NoOrder, Inv, TypeOK
<1>2. ASSUME NEW r \in Requests, StatusSave(r) \/ CancelSave(r) PROVE Committed(o)'
  <2>1. want[r] \in Status /\ orders[o] \in OrderRow
    BY DEF Inv, TypeOK, Committed
  <2>2. orders' = [orders EXCEPT ![target[r]].status = want[r]]
    BY <1>2 DEF StatusSave, CancelSave
  <2>3. orders'[o] = orders[o] \/ orders'[o].status = want[r]
    BY <2>1, <2>2 DEF Inv, TypeOK, OrderRow
  <2>. QED  BY <2>1, <2>3 DEF Committed, NoOrder, Status
<1>3. UNCHANGED orders => Committed(o)'
  BY DEF Committed
<1>4. ASSUME NEW r \in Requests, CallStep(r), ~InsertOrder(r), ~StatusSave(r), ~CancelSave(r)
      PROVE  UNCHANGED orders
  BY <1>4 DEF CallStep, CreateStart, CreateRead, CreateReject, FreightFails, PublishRabbit,
     PublishFails, EmitKafka, EmitFails, StatusStart, CancelStart, CreditRead, UpdateStart,
     RemoveStart, Load, Update, tables
<1>5. (Crash \/ UNCHANGED vars) => UNCHANGED orders
  BY DEF Crash, vars, tables
<1>. QED  BY <1>1, <1>2, <1>3, <1>4, <1>5 DEF Next, AllDone

\* A broker that appends events of committed orders only holds such events.
LEMMA AppendCommitted ==
  ASSUME NEW s \in Seq(Event), NEW e \in Event, Committed(e.order),
         \A i \in 1..Len(s) : Committed(s[i].order)
  PROVE  \A i \in 1..Len(Append(s, e)) : Committed(Append(s, e)[i].order)
<1>1. Len(Append(s, e)) = Len(s) + 1
  OBVIOUS
<1>2. \A i \in 1..(Len(s) + 1) : Append(s, e)[i] = IF i <= Len(s) THEN s[i] ELSE e
  OBVIOUS
<1>. QED  BY <1>1, <1>2

\* Every step keeps the events of both brokers about committed orders.
LEMMA EventsNext == Inv /\ NoPhantomEvent /\ [Next]_vars => NoPhantomEvent'
<1> SUFFICES ASSUME Inv, NoPhantomEvent, [Next]_vars PROVE NoPhantomEvent'
  OBVIOUS
<1>1. /\ queue \in Seq(Event) /\ \A i \in 1..Len(queue) : Committed(queue[i].order)
      /\ topic \in Seq(Event) /\ \A i \in 1..Len(topic) : Committed(topic[i].order)
  BY DEF Inv, TypeOK, NoPhantomEvent, Committed
<1>2. \A o \in Requests : Committed(o) => Committed(o)'
  BY OrdersStay
<1>3. \/ UNCHANGED brokers
      \/ \E r \in Requests :
            /\ pc[r] \in {"publish", "emit"}
            /\ \/ queue' = Append(queue, EventOf(r)) /\ UNCHANGED topic
               \/ topic' = Append(topic, EventOf(r)) /\ UNCHANGED queue
  BY DEF Next, CallStep, CreateStart, CreateRead, CreateReject, FreightFails, InsertOrder,
     PublishRabbit, PublishFails, EmitKafka, EmitFails, StatusStart, StatusSave, CancelStart,
     CancelSave, CreditRead, UpdateStart, RemoveStart, Load, Update, Crash, AllDone, vars,
     brokers
<1>4. \A r \in Requests : pc[r] \in {"publish", "emit"} =>
          EventOf(r) \in Event /\ Committed(EventOf(r).order)
  BY DEF Inv, TypeOK, ControlOK, CallOK, EventOf, Event, Committed
<1>5. /\ \A i \in 1..Len(queue') : Committed(queue'[i].order) /\ queue'[i] \in Event
      /\ \A i \in 1..Len(topic') : Committed(topic'[i].order) /\ topic'[i] \in Event
  <2>1. CASE UNCHANGED brokers
    BY <1>1, <2>1 DEF brokers
  <2>2. ASSUME NEW r \in Requests, pc[r] \in {"publish", "emit"},
               queue' = Append(queue, EventOf(r)) /\ UNCHANGED topic
        PROVE  <1>5!:
    BY <1>1, <1>4, <2>2, AppendCommitted
  <2>3. ASSUME NEW r \in Requests, pc[r] \in {"publish", "emit"},
               topic' = Append(topic, EventOf(r)) /\ UNCHANGED queue
        PROVE  <1>5!:
    BY <1>1, <1>4, <2>3, AppendCommitted
  <2>. QED  BY <1>3, <2>1, <2>2, <2>3
<1>. QED  BY <1>2, <1>5 DEF NoPhantomEvent, Committed, Event

\* Whatever fails and whenever the process dies, RabbitMQ and Kafka never hold an
\* event about an order that is not in the table.
THEOREM NoEventWithoutOrder == Spec => []NoPhantomEvent
<1>1. Init => NoPhantomEvent
  BY DEF Init, NoPhantomEvent
<1>. QED  BY <1>1, TypeCorrect, EventsNext, PTL DEF Spec, Inv
---------------------------------------------------------------------------
(***************************************************************************)
(* One call at a time.  Between findOne and the UPDATE of save() nothing     *)
(* else runs, so the entity is the row with the handler's own change         *)
(* (FreshEntity).  Three properties that overlapping calls refute follow.    *)
(***************************************************************************)
OneAtATime == \A q, r \in Requests : InFlight(q) /\ InFlight(r) => q = r

FreshFor(r) ==
    LET e == ent[r]
        row == rows[e.id] IN
    /\ e.active => row.active
    /\ op[r] \in {"create", "cancel"} => Current(r).product = e.id
    /\ e.stock = CASE op[r] = "create" -> row.stock - Current(r).qty
                   [] op[r] = "cancel" -> row.stock + Current(r).qty
                   [] op[r] = "restock" -> e.stock
                   [] OTHER -> row.stock
    /\ pc[r] = "update" => "stock" \in dirty[r] \/ e.stock = row.stock

FreshEntity == \A r \in Requests : pc[r] \in {"load", "update"} => FreshFor(r)

Cancellable(r) ==
    pc[r] = "save" /\ op[r] = "cancel" => orders[target[r]].status \notin {"shipped", "delivered"}

StockIsLedger == \A p \in Products : rows[p].stock = ledger[p]

SerialInv ==
    /\ OneAtATime /\ FreshEntity /\ StockIsLedger
    /\ \A r \in Requests : Cancellable(r)

\* A bound of one call is met only while no call runs.
LEMMA StartAlone ==
  ASSUME SerialInv, MaxInFlight = 1, NEW r \in Requests, NEW o, CanStart(r, o)
  PROVE  \A q \in Requests : ~InFlight(q)
<1> DEFINE S == {q \in Requests : InFlight(q)}
<1> SUFFICES ASSUME NEW x \in S PROVE FALSE
  OBVIOUS
<1>1. S = {x}
  BY DEF SerialInv, OneAtATime
<1>2. Cardinality({x}) = 1
  BY FS_Singleton
<1>3. Cardinality(S) < 1
  BY DEF CanStart
<1>. HIDE DEF S
<1>. QED  BY <1>1, <1>2, <1>3

\* The call that takes a step is the only one under way.
LEMMA Alone ==
  ASSUME SerialInv, MaxInFlight = 1, NEW r \in Requests, CallStep(r)
  PROVE  \A q \in Requests \ {r} : ~InFlight(q)
<1>1. ASSUME NEW o, CanStart(r, o) PROVE \A q \in Requests : ~InFlight(q)
  BY <1>1, StartAlone
<1>2. InFlight(r) \/ \E o \in Operations : CanStart(r, o)
  BY DEF CallStep, CreateStart, CreateRead, CreateReject, FreightFails, InsertOrder,
     PublishRabbit, PublishFails, EmitKafka, EmitFails, StatusStart, StatusSave, CancelStart,
     CancelSave, CreditRead, UpdateStart, RemoveStart, Load, Update, InFlight, Operations
<1>. QED  BY <1>1, <1>2 DEF SerialInv, OneAtATime

\* What the only call under way has to keep.
LEMMA OneCall ==
  ASSUME Inv, SerialInv, NEW r \in Requests, \A q \in Requests \ {r} : ~InFlight(q),
         NEW step, pc' = [pc EXCEPT ![r] = step],
         step \in {"load", "update"} => FreshFor(r)',
         step = "save" => Cancellable(r)',
         StockIsLedger'
  PROVE  SerialInv'
<1>1. pc'[r] = step /\ \A q \in Requests \ {r} : pc'[q] \in {"idle", "done"}
  BY DEF Inv, TypeOK, InFlight
<1>2. OneAtATime'
  BY <1>1 DEF OneAtATime, InFlight
<1>3. FreshEntity'
  BY <1>1 DEF FreshEntity
<1>4. \A q \in Requests : Cancellable(q)'
  BY <1>1 DEF Cancellable
<1>. QED  BY <1>2, <1>3, <1>4 DEF SerialInv

\* A step of the only call that leaves the products alone and does not end up in a
\* save.
LEMMA QuietCall ==
  ASSUME Inv, SerialInv, NEW r \in Requests, \A q \in Requests \ {r} : ~InFlight(q),
         NEW step \in Steps \ {"load", "update", "save"}, pc' = [pc EXCEPT ![r] = step],
         UNCHANGED <<rows, ledger>>
  PROVE  SerialInv'
<1>1. StockIsLedger'
  BY DEF SerialInv, StockIsLedger
<1>. QED  BY <1>1, OneCall

\* The only call reads a row and changes it as its operation says.
LEMMA FreshRead ==
  ASSUME Inv, SerialInv, NEW r \in Requests, \A q \in Requests \ {r} : ~InFlight(q),
         NEW e \in Entity, ent' = [ent EXCEPT ![r] = e], pc' = [pc EXCEPT ![r] = "load"],
         UNCHANGED <<rows, ledger, items, at>>,
         e.active => rows[e.id].active,
         op'[r] \in {"create", "cancel"} => Current(r).product = e.id,
         e.stock = CASE op'[r] = "create" -> rows[e.id].stock - Current(r).qty
                     [] op'[r] = "cancel" -> rows[e.id].stock + Current(r).qty
                     [] op'[r] = "restock" -> e.stock
                     [] OTHER -> rows[e.id].stock
  PROVE  SerialInv'
<1>1. StockIsLedger'
  BY DEF SerialInv, StockIsLedger
<1>2. ent'[r] = e /\ pc'[r] = "load" /\ items' = items /\ at' = at /\ rows' = rows
  BY DEF Inv, TypeOK
<1>3. FreshFor(r)'
  BY <1>2 DEF FreshFor, Current
<1>. QED  BY <1>1, <1>3, OneCall

\* The entity a save is about to write, and the row it will write it to.
LEMMA Saving ==
  ASSUME Inv, SerialInv, NEW r \in Requests, pc[r] \in {"load", "update"}
  PROVE  ent[r] \in Entity /\ ent[r].id \in Products /\ rows[ent[r].id] \in Entity /\ FreshFor(r)
  BY DEF Inv, ControlOK, CallOK, TypeOK, SerialInv, FreshEntity, Entity

\* create and cancel read the product of the current item.
LEMMA LoopReadSerial ==
  ASSUME Inv, SerialInv, MaxInFlight = 1, NEW r \in Requests, CreateRead(r) \/ CreditRead(r)
  PROVE  SerialInv'
<1> DEFINE row == rows[Current(r).product]
<1> DEFINE n == IF op[r] = "create" THEN row.stock - Current(r).qty ELSE row.stock + Current(r).qty
<1> DEFINE e == [row EXCEPT !.stock = n]
<1>1. op[r] = IF pc[r] = "read" THEN "create" ELSE "cancel"
  BY DEF CreateRead, CreditRead, Inv, ControlOK, CallOK
<1>2. Current(r).product \in Products /\ Current(r).qty \in Int
  BY <1>1, CurrentItem
<1>3. row \in Entity /\ row.id = Current(r).product
  BY <1>2, RowIsEntity
<1>4. ent' = [ent EXCEPT ![r] = e] /\ pc' = [pc EXCEPT ![r] = "load"]
      /\ UNCHANGED <<rows, ledger, items, at, op>>
  BY <1>1 DEF CreateRead, CreditRead, Goto, tables
<1>5. n \in Int
  BY <1>2, <1>3 DEF Entity
<1>6. e \in Entity /\ e.id = Current(r).product /\ e.stock = n /\ e.active = row.active
  BY <1>3, <1>5 DEF Entity
<1>7. \A q \in Requests \ {r} : ~InFlight(q)
  BY Alone DEF CallStep
<1>8. op'[r] \in {"create", "cancel"}
  BY <1>1, <1>4
<1>9. n = CASE op'[r] = "create" -> rows[e.id].stock - Current(r).qty
            [] op'[r] = "cancel" -> rows[e.id].stock + Current(r).qty
            [] op'[r] = "restock" -> e.stock
            [] OTHER -> rows[e.id].stock
  BY <1>4, <1>6, <1>8
<1>. HIDE DEF e, n
<1>. QED  BY <1>4, <1>6, <1>7, <1>8, <1>9, FreshRead

\* PATCH and DELETE of a product read its row; a PATCH keeps isActive, and the stock
\* too unless it carries one.
LEMMA ProductReadSerial ==
  ASSUME Inv, SerialInv, MaxInFlight = 1, NEW r \in Requests, UpdateStart(r) \/ RemoveStart(r)
  PROVE  SerialInv'
<1>1. \A q \in Requests \ {r} : ~InFlight(q)
  BY Alone DEF CallStep
<1>2. CASE UpdateStart(r)
  <2>1. PICK p \in Products, x \in Patches :
           /\ op' = [op EXCEPT ![r] = IF "stock" \in DOMAIN x THEN "restock" ELSE "update"]
           /\ ent' = [ent EXCEPT ![r] = Patched(rows[p], x)]
           /\ Goto(r, "load")
           /\ UNCHANGED <<tables, items, at, ledger>>
    BY <1>2 DEF UpdateStart
  <2> DEFINE e == Patched(rows[p], x)
  <2>2. e \in Entity
    BY RowIsEntity, EntityChanges
  <2>3. e.id = p /\ e.active = rows[p].active /\ ("stock" \notin DOMAIN x => e.stock = rows[p].stock)
    BY RowIsEntity DEF Patched, Entity
  <2>4. op'[r] = IF "stock" \in DOMAIN x THEN "restock" ELSE "update"
    BY <2>1 DEF Inv, TypeOK
  <2>5. ent' = [ent EXCEPT ![r] = e] /\ pc' = [pc EXCEPT ![r] = "load"]
        /\ UNCHANGED <<rows, ledger, items, at>>
    BY <2>1 DEF Goto, tables
  <2>. HIDE DEF e
  <2>6. e.stock = CASE op'[r] = "create" -> rows[e.id].stock - Current(r).qty
                    [] op'[r] = "cancel" -> rows[e.id].stock + Current(r).qty
                    [] op'[r] = "restock" -> e.stock
                    [] OTHER -> rows[e.id].stock
    <3>1. CASE "stock" \in DOMAIN x
      BY <2>4, <3>1
    <3>2. CASE "stock" \notin DOMAIN x
      <4>1. op'[r] = "update" /\ e.stock = rows[e.id].stock
        BY <2>3, <2>4, <3>2
      <4>. QED  BY <4>1
    <3>. QED  BY <3>1, <3>2
  <2>7. (e.active => rows[e.id].active) /\ op'[r] \notin {"create", "cancel"}
    BY <2>3, <2>4
  <2>. QED  BY <1>1, <2>2, <2>5, <2>6, <2>7, FreshRead
<1>3. CASE RemoveStart(r)
  <2>1. PICK p \in Products :
           /\ op' = [op EXCEPT ![r] = "remove"]
           /\ ent' = [ent EXCEPT ![r] = [rows[p] EXCEPT !.active = FALSE]]
           /\ Goto(r, "load")
           /\ UNCHANGED <<tables, items, at, ledger>>
    BY <1>3 DEF RemoveStart
  <2> DEFINE e == [rows[p] EXCEPT !.active = FALSE]
  <2>2. e \in Entity /\ e.id = p /\ e.active = FALSE /\ e.stock = rows[p].stock
    BY RowIsEntity DEF Entity
  <2>3. op'[r] = "remove"
    BY <2>1 DEF Inv, TypeOK
  <2>4. ent' = [ent EXCEPT ![r] = e]
    BY <2>1
  <2>. HIDE DEF e
  <2>. QED  BY <1>1, <2>1, <2>2, <2>3, <2>4, FreshRead DEF Goto, tables
<1>. QED  BY <1>2, <1>3

\* The SELECT of save() finds the column that differs.
LEMMA LoadSerial ==
  ASSUME Inv, SerialInv, MaxInFlight = 1, NEW r \in Requests, Load(r)
  PROVE  SerialInv'
<1>1. \A q \in Requests \ {r} : ~InFlight(q)
  BY Alone DEF CallStep
<1>2. FreshFor(r) /\ pc[r] = "load"
  BY Saving DEF Load
<1>3. pc' = [pc EXCEPT ![r] = "update"] /\ UNCHANGED <<rows, ledger, ent, op, items, at>>
      /\ dirty'[r] = dirty[r] \cup Diff(ent[r], rows[ent[r].id])
  BY DEF Load, Goto, tables, Inv, TypeOK
<1>4. "stock" \in dirty'[r] \/ ent[r].stock = rows[ent[r].id].stock
  BY <1>3 DEF Diff
<1>5. FreshFor(r)'
  BY <1>2, <1>3, <1>4 DEF FreshFor, Current
<1>6. StockIsLedger'
  BY <1>3 DEF SerialInv, StockIsLedger
<1>. QED  BY <1>1, <1>3, <1>5, <1>6, OneCall

\* The UPDATE writes what the operation promises: no save came between.
LEMMA UpdateSerial ==
  ASSUME Inv, SerialInv, MaxInFlight = 1, NEW r \in Requests, Update(r)
  PROVE  SerialInv' /\ \A p \in Products : ~rows[p].active => ~rows'[p].active
<1> DEFINE p == ent[r].id
<1> DEFINE row == Write(rows[p], ent[r], dirty[r])
<1>1. \A q \in Requests \ {r} : ~InFlight(q)
  BY Alone DEF CallStep
<1>2. pc[r] = "update" /\ ent[r] \in Entity /\ p \in Products /\ rows[p] \in Entity /\ FreshFor(r)
  BY Saving DEF Update
<1>3. rows' = [rows EXCEPT ![p] = row] /\ ledger' = LedgerAfter(r)
  BY DEF Update
<1>4. row.stock = ent[r].stock /\ (row.active => rows[p].active)
  BY <1>2 DEF FreshFor, Write, Entity
<1>5. \E step \in {"checkout", "read", "credit", "done"} : pc' = [pc EXCEPT ![r] = step]
  BY DEF Update, Goto, Finish
<1>6. ledger'[p] = row.stock /\ \A k \in Products \ {p} : ledger'[k] = ledger[k]
  <2>1. ledger[p] = rows[p].stock
    BY <1>2 DEF SerialInv, StockIsLedger
  <2>2. ledger \in [Products -> Int]
    BY DEF Inv, TypeOK
  <2>. HIDE DEF row
  <2>. QED  BY <1>2, <1>3, <1>4, <2>1, <2>2 DEF LedgerAfter, FreshFor
<1>. HIDE DEF row
<1>7. rows'[p] = row /\ \A k \in Products \ {p} : rows'[k] = rows[k]
  BY <1>2, <1>3 DEF Inv, TypeOK
<1>8. StockIsLedger'
  BY <1>6, <1>7 DEF SerialInv, StockIsLedger
<1>. QED  BY <1>1, <1>4, <1>5, <1>7, <1>8, OneCall

\* Every step of a call that runs alone keeps the invariant.
LEMMA CallSerial ==
  ASSUME Inv, SerialInv, MaxInFlight = 1, NEW r \in Requests, CallStep(r)
  PROVE  SerialInv'
<1>1. \A q \in Requests \ {r} : ~InFlight(q)
  BY Alone
<1>2. CASE CancelStart(r)
  <2>1. PICK o \in Requests : /\ orders[o].status \notin {"shipped", "delivered"}
                              /\ target' = [target EXCEPT ![r] = o]
    BY <1>2 DEF CancelStart
  <2>2. target'[r] = o /\ pc' = [pc EXCEPT ![r] = "save"] /\ UNCHANGED <<rows, orders, ledger>>
    BY <1>2, <2>1 DEF CancelStart, Goto, tables, Inv, TypeOK
  <2>3. Cancellable(r)' /\ StockIsLedger'
    BY <2>1, <2>2 DEF Cancellable, SerialInv, StockIsLedger
  <2>. QED  BY <1>1, <2>2, <2>3, OneCall
<1>3. CASE StatusStart(r)
  <2>1. pc' = [pc EXCEPT ![r] = "save"] /\ op'[r] = "status" /\ UNCHANGED <<rows, ledger>>
    BY <1>3 DEF StatusStart, Goto, tables, Inv, TypeOK
  <2>2. Cancellable(r)' /\ StockIsLedger'
    BY <2>1 DEF Cancellable, SerialInv, StockIsLedger
  <2>. QED  BY <1>1, <2>1, <2>2, OneCall
<1>4. CASE \/ CreateStart(r) \/ CreateReject(r) \/ FreightFails(r) \/ InsertOrder(r)
           \/ PublishRabbit(r) \/ PublishFails(r) \/ EmitKafka(r) \/ EmitFails(r)
           \/ StatusSave(r) \/ CancelSave(r)
  <2>1. UNCHANGED <<rows, ledger>>
    BY <1>4 DEF CreateStart, CreateReject, FreightFails, InsertOrder, PublishRabbit, PublishFails,
       EmitKafka, EmitFails, StatusSave, CancelSave, tables
  <2>2. \E step \in Steps \ {"load", "update", "save"} : pc' = [pc EXCEPT ![r] = step]
    BY <1>4 DEF CreateStart, CreateReject, FreightFails, InsertOrder, PublishRabbit, PublishFails,
       EmitKafka, EmitFails, StatusSave, CancelSave, Goto, Finish, Steps
  <2>. QED  BY <1>1, <2>1, <2>2, QuietCall
<1>. QED
  BY <1>2, <1>3, <1>4, LoopReadSerial, ProductReadSerial, LoadSerial, UpdateSerial DEF CallStep

\* A crash ends every call and leaves the tables.
LEMMA CrashSerial ==
  ASSUME Inv, SerialInv, Crash
  PROVE  SerialInv'
<1>1. \A q \in Requests : pc'[q] \in {"idle", "done"}
  BY DEF Crash, InFlight, Inv, TypeOK
<1>2. OneAtATime' /\ FreshEntity' /\ \A q \in Requests : Cancellable(q)'
  BY <1>1 DEF OneAtATime, InFlight, FreshEntity, Cancellable
<1>3. StockIsLedger'
  BY DEF Crash, tables, SerialInv, StockIsLedger
<1>. QED  BY <1>2, <1>3 DEF SerialInv

LEMMA SerialInit == Init => SerialInv
  BY DEF Init, SerialInv, OneAtATime, InFlight, FreshEntity, StockIsLedger, NewProduct, Cancellable

LEMMA SerialNext == MaxInFlight = 1 /\ Inv /\ SerialInv /\ [Next]_vars => SerialInv'
<1> SUFFICES ASSUME MaxInFlight = 1, Inv, SerialInv, [Next]_vars PROVE SerialInv'
  OBVIOUS
<1>1. CASE UNCHANGED vars
  BY <1>1 DEF vars, tables, local, SerialInv, OneAtATime, InFlight, FreshEntity, FreshFor, Current,
     StockIsLedger, Cancellable
<1>. QED  BY <1>1, CallSerial, CrashSerial DEF Next, AllDone

\* Calls one at a time keep the invariant, whatever their number, carts and patches.
LEMMA SerialCalls ==
  ASSUME MaxInFlight = 1
  PROVE  Spec => [](Inv /\ SerialInv)
<1>1. Inv /\ SerialInv /\ [Next]_vars => (Inv /\ SerialInv)'
  BY NextInv, SerialNext
<1>. QED  BY <1>1, InitInv, SerialInit, PTL DEF Spec

\* When the server takes one call at a time, no save of the stock is lost: the
\* column is what atomic increments and decrements would have left.
THEOREM NoSaveLostAlone ==
  ASSUME MaxInFlight = 1
  PROVE  Spec => []LedgerExact
<1>1. SerialInv => LedgerExact
  BY DEF SerialInv, StockIsLedger, LedgerExact
<1>. QED  BY <1>1, SerialCalls, PTL

\* When the server takes one call at a time, nothing brings a deactivated product
\* back.
THEOREM SoftDeleteAlone ==
  ASSUME MaxInFlight = 1
  PROVE  Spec => SoftDeleteIsFinal
<1> DEFINE Kept == \A p \in Products : ~rows[p].active => ~rows'[p].active
<1>1. Inv /\ SerialInv /\ [Next]_vars => [Kept]_vars
  <2> SUFFICES ASSUME Inv, SerialInv, Next PROVE Kept
    OBVIOUS
  <2>1. ASSUME NEW r \in Requests, CallStep(r), ~Update(r) PROVE UNCHANGED rows
    BY <2>1 DEF CallStep, CreateStart, CreateRead, CreateReject, FreightFails, InsertOrder,
       PublishRabbit, PublishFails, EmitKafka, EmitFails, StatusStart, StatusSave, CancelStart,
       CancelSave, CreditRead, UpdateStart, RemoveStart, Load, tables
  <2>2. Crash \/ AllDone => UNCHANGED rows
    BY DEF Crash, AllDone, vars, tables
  <2>. QED  BY <2>1, <2>2, UpdateSerial DEF Next
<1>. QED  BY <1>1, SerialCalls, PTL DEF Spec, SoftDeleteIsFinal

\* When the server takes one call at a time, a cancellation never overwrites
\* shipped or delivered.
THEOREM CancelAlone ==
  ASSUME MaxInFlight = 1
  PROVE  Spec => CancelRespectsShipment
<1> DEFINE Respects ==
      \A r \in Requests :
         pc[r] = "save" /\ op[r] = "cancel" /\ pc'[r] = "credit"
            => orders[target[r]].status \notin {"shipped", "delivered"}
<1>1. SerialInv => [Respects]_vars
  BY DEF SerialInv, Cancellable
<1>. QED  BY <1>1, SerialCalls, PTL DEF Spec, CancelRespectsShipment
=============================================================================
