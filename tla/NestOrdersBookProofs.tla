------------------------ MODULE NestOrdersBookProofs ------------------------
(***************************************************************************)
(* Proofs that relate NestOrders to the modules beside it.  One call at a    *)
(* time, it implements OrderBook: for every set of calls and products and    *)
(* every number of crashes.  And composed with the brokers (OrderPipeline),   *)
(* any number of calls at once, its messages keep what handlers and          *)
(* consumers rely on.                                                       *)
(***************************************************************************)
EXTENDS NestOrdersBook, NestOrdersProofs, OrderPipeline, SumTheorems

(***************************************************************************)
(* What a call must know where it takes effect in the book: its order is    *)
(* not there yet, the items it has read passed the checks and their rows     *)
(* still would, a cancel credits the items of the order it cancels.          *)
(***************************************************************************)
Creating(r) == op[r] = "create" /\ pc[r] \in {"read", "load", "update", "checkout"}

NotYetPlaced(r) == pc[r] = "idle" \/ Creating(r) => orders[r] = NoOrder

\* Indexes of the items whose product the loop of a create has read.
Checked(r) ==
    CASE pc[r] = "read" -> 1..(at[r] - 1)
      [] pc[r] \in {"load", "update"} -> 1..at[r]
      [] OTHER -> DOMAIN items[r]

ChecksHold(r) ==
    Creating(r) =>
        /\ items[r] \in Carts
        /\ \A i \in Checked(r) :
              /\ rows[items[r][i].product].active
              /\ items[r][i].qty >= rows[items[r][i].product].minQty

\* The entity of a loop differs from its row in the stock only.
OnlyStockChanges(r) ==
    op[r] \in {"create", "cancel"} /\ pc[r] \in {"load", "update"} =>
        /\ ent[r].active = rows[ent[r].id].active
        /\ ent[r].minQty = rows[ent[r].id].minQty

CancelsItsItems(r) ==
    op[r] = "cancel" /\ pc[r] = "save" =>
        at[r] = 1 /\ want[r] = "cancelled" /\ items[r] = orders[target[r]].items

BookInvFor(r) ==
    NotYetPlaced(r) /\ ChecksHold(r) /\ OnlyStockChanges(r) /\ CancelsItsItems(r)

BookInv == \A r \in Requests : BookInvFor(r)

---------------------------------------------------------------------------
\* The copy of the sums that OrderBook is instantiated with is the sums themselves.
LEMMA BookSums ==
  /\ \A f, S : Book!SumFunctionOnSet(f, S) = SumFunctionOnSet(f, S)
  /\ \A f : Book!SumFunction(f) = SumFunctionOnSet(f, DOMAIN f)
  BY DEF Book!SumFunction, Book!SumFunctionOnSet, Book!FoldFunctionOnSet, Book!MapThenFoldSet,
     SumFunctionOnSet, FoldFunctionOnSet, MapThenFoldSet

LEMMA BookUnits ==
  \A its, p : Book!Units(its, p) = SumFunctionOnSet(UnitsIn(its, p), DOMAIN its)
  BY BookSums DEF Book!Units, Book!Part, UnitsIn

\* Units of a product at the indexes of ix.
InHand(its, ix, p) == SumFunctionOnSet(UnitsIn(its, p), ix)

LEMMA UnitsAreNat ==
  ASSUME NEW its \in Seq(Item), NEW p
  PROVE  UnitsIn(its, p) \in [DOMAIN its -> Nat] /\ DOMAIN its = 1..Len(its) /\ IsFiniteSet(DOMAIN its)
<1>1. DOMAIN its = 1..Len(its) /\ Len(its) \in Nat /\ \A i \in DOMAIN its : its[i] \in Item
  OBVIOUS
<1>2. \A i \in DOMAIN its : its[i].qty \in Nat
  BY <1>1, QuantityAssumption DEF Item
<1>3. IsFiniteSet(1..Len(its))
  BY <1>1, FS_Interval
<1>. QED  BY <1>1, <1>2, <1>3 DEF UnitsIn

\* A sum over some of the items.
LEMMA InHandNat ==
  ASSUME NEW its \in Seq(Item), NEW p, NEW ix \in SUBSET DOMAIN its
  PROVE  InHand(its, ix, p) \in Nat /\ (ix = {} => InHand(its, ix, p) = 0)
<1>1. UnitsIn(its, p) \in [DOMAIN its -> Nat] /\ IsFiniteSet(DOMAIN its)
  BY UnitsAreNat
<1>2. IsFiniteSet(ix)
  BY <1>1, FS_Subset
<1>3. UnitsIn(its, p) \in [DOMAIN its -> Int] /\ \A i \in ix : UnitsIn(its, p)[i] >= 0
  BY <1>1
<1>. QED  BY <1>2, <1>3, SumInt, SumNat DEF InHand

\* One item enters a sum, or leaves it.
LEMMA InHandItem ==
  ASSUME NEW its \in Seq(Item), NEW p, NEW ix \in SUBSET DOMAIN its, NEW i \in ix
  PROVE  InHand(its, ix, p)
           = InHand(its, ix \ {i}, p) + IF its[i].product = p THEN its[i].qty ELSE 0
<1>0. UnitsIn(its, p) \in [DOMAIN its -> Nat] /\ IsFiniteSet(DOMAIN its)
  BY UnitsAreNat
<1>1. IsFiniteSet(ix) /\ UnitsIn(its, p) \in [DOMAIN its -> Int]
      /\ UnitsIn(its, p)[i] = IF its[i].product = p THEN its[i].qty ELSE 0
  BY <1>0, FS_Subset DEF UnitsIn
<1>2. InHand(its, ix, p) = UnitsIn(its, p)[i] + InHand(its, ix \ {i}, p)
  BY <1>1, SumRemove DEF InHand
<1>3. InHand(its, ix \ {i}, p) \in Int /\ UnitsIn(its, p)[i] \in Int
  BY <1>1, InHandNat
<1>. QED  BY <1>1, <1>2, <1>3

\* A sum with one term that is not zero.
LEMMA OneTerm ==
  ASSUME NEW S, IsFiniteSet(S), NEW f \in [S -> Int], NEW y \in S, \A x \in S \ {y} : f[x] = 0
  PROVE  SumFunctionOnSet(f, S) = f[y]
<1> DEFINE zero == [x \in S |-> 0]
<1>1. zero \in [S -> Int] /\ (\A x \in S : zero[x] = 0) /\ \A x \in S \ {y} : f[x] = zero[x]
  OBVIOUS
<1>. HIDE DEF zero
<1>2. SumFunctionOnSet(zero, S) = 0
  BY <1>1, SumZero
<1>3. SumFunctionOnSet(f, S) = SumFunctionOnSet(zero, S) - zero[y] + f[y]
  BY <1>1, SumChange
<1>. QED  BY <1>1, <1>2, <1>3

\* What a call holds are units of its own items.
LEMMA HeldIndexesInside ==
  ASSUME Inv, NEW r \in Requests
  PROVE  items[r] \in Seq(Item) /\ HeldIndexes(r) \in SUBSET DOMAIN items[r]
         /\ (~InFlight(r) => HeldIndexes(r) = {})
<1>1. items[r] \in Seq(Item) /\ at[r] \in Nat \ {0} /\ Len(items[r]) \in Nat
      /\ DOMAIN items[r] = 1..Len(items[r])
  BY DEF Inv, TypeOK
<1>2. op[r] \in {"create", "cancel"} => at[r] <= Len(items[r])
  BY DEF Inv, ControlOK, CallOK
<1>3. 1..(at[r] - 1) \subseteq 1..at[r] /\ at[r]..Len(items[r]) \subseteq 1..Len(items[r])
  BY <1>1
<1>4. op[r] \in {"create", "cancel"} => 1..(at[r] - 1) \subseteq 1..Len(items[r])
  BY <1>1, <1>2
<1>5. HeldIndexes(r) \in SUBSET DOMAIN items[r]
  BY <1>1, <1>3, <1>4 DEF HeldIndexes
<1>6. ~InFlight(r) => HeldIndexes(r) = {}
  BY DEF InFlight, HeldIndexes
<1>. QED  BY <1>1, <1>5, <1>6

\* While r is the only call that may be under way, the shelf of the book is the
\* table and what r holds.
ShelfIs(r) ==
    shelfBar = [p \in Products |->
                   [avail |-> rows[p].stock + InHand(items[r], HeldIndexes(r), p),
                    active |-> rows[p].active,
                    minQty |-> rows[p].minQty]]

OnlyOneHolds ==
    \A r \in Requests : (\A q \in Requests \ {r} : ~InFlight(q)) => ShelfIs(r)

LEMMA ShelfOfOne ==
  ASSUME IsFiniteSet(Requests)
  PROVE  Inv => OnlyOneHolds
<1> SUFFICES ASSUME Inv, NEW r \in Requests, \A q \in Requests \ {r} : ~InFlight(q)
             PROVE  ShelfIs(r)
  BY DEF OnlyOneHolds
<1>1. ASSUME NEW p \in Products
      PROVE  SumFunction(Held(p)) = InHand(items[r], HeldIndexes(r), p)
  <2>1. \A q \in Requests : InHand(items[q], HeldIndexes(q), p) \in Int
                            /\ (q # r => InHand(items[q], HeldIndexes(q), p) = 0)
    BY HeldIndexesInside, InHandNat
  <2>2. Held(p) = [q \in Requests |-> InHand(items[q], HeldIndexes(q), p)]
    BY DEF Held, InHand
  <2> DEFINE h == Held(p)
  <2>3. h \in [Requests -> Int] /\ (\A q \in Requests \ {r} : h[q] = 0)
        /\ h[r] = InHand(items[r], HeldIndexes(r), p) /\ DOMAIN h = Requests
    BY <2>1, <2>2
  <2>. HIDE DEF h
  <2>4. SumFunctionOnSet(h, Requests) = h[r]
    BY <2>3, OneTerm
  <2>. QED  BY <2>3, <2>4 DEF SumFunction, h
<1>. QED  BY <1>1 DEF ShelfIs, shelfBar

---------------------------------------------------------------------------
\* A step of the only call: the other calls have nothing to keep but the absence
\* of their orders.
LEMMA BookFrame ==
  ASSUME Inv, BookInv, NEW r \in Requests, \A q \in Requests \ {r} : ~InFlight(q),
         NEW step, pc' = [pc EXCEPT ![r] = step],
         \A q \in Requests \ {r} : orders[q] = NoOrder => orders'[q] = NoOrder,
         BookInvFor(r)'
  PROVE  BookInv'
<1> SUFFICES ASSUME NEW q \in Requests, q # r PROVE BookInvFor(q)'
  BY DEF BookInv
<1>1. pc'[q] = pc[q] /\ pc[q] \in {"idle", "done"}
  BY DEF Inv, TypeOK, InFlight
<1>2. orders'[q] = NoOrder \/ pc[q] # "idle"
  BY <1>1 DEF BookInv, BookInvFor, NotYetPlaced
<1>. QED
  BY <1>1, <1>2 DEF BookInvFor, NotYetPlaced, Creating, ChecksHold, OnlyStockChanges, CancelsItsItems

\* Where a call has nothing to keep.
LEMMA BookQuiet ==
  ASSUME Inv, BookInv, NEW r \in Requests, \A q \in Requests \ {r} : ~InFlight(q),
         NEW step \in {"done", "publish", "emit", "credit"}, pc' = [pc EXCEPT ![r] = step],
         \A q \in Requests \ {r} : orders[q] = NoOrder => orders'[q] = NoOrder
  PROVE  BookInv'
<1>1. pc'[r] = step
  BY DEF Inv, TypeOK
<1>2. BookInvFor(r)'
  BY <1>1 DEF BookInvFor, NotYetPlaced, Creating, ChecksHold, OnlyStockChanges, CancelsItsItems
<1>. QED  BY <1>2, BookFrame

LEMMA StartBook ==
  ASSUME Inv, SerialInv, BookInv, MaxInFlight = 1, NEW r \in Requests,
         CreateStart(r) \/ StatusStart(r) \/ CancelStart(r) \/ UpdateStart(r) \/ RemoveStart(r)
  PROVE  BookInv'
<1>1. \A q \in Requests \ {r} : ~InFlight(q)
  BY Alone DEF CallStep
<1>2. UNCHANGED <<rows, orders, at>> /\ pc[r] = "idle" /\ at[r] = 1 /\ orders[r] = NoOrder
  BY DEF CreateStart, StatusStart, CancelStart, UpdateStart, RemoveStart, CanStart, tables,
     Inv, ControlOK, CallOK, BookInv, BookInvFor, NotYetPlaced
<1>3. CASE CreateStart(r)
  <2>1. PICK its \in Carts : items' = [items EXCEPT ![r] = its]
    BY <1>3 DEF CreateStart
  <2>2. pc' = [pc EXCEPT ![r] = "read"] /\ pc'[r] = "read" /\ items'[r] = its
    BY <1>3, <2>1 DEF CreateStart, Goto, Inv, TypeOK
  <2>3. Checked(r)' = {}
    BY <1>2, <2>2 DEF Checked
  <2>4. BookInvFor(r)'
    BY <1>2, <2>2, <2>3 DEF BookInvFor, NotYetPlaced, ChecksHold, OnlyStockChanges, CancelsItsItems
  <2>. QED  BY <1>1, <1>2, <2>2, <2>4, BookFrame
<1>4. CASE StatusStart(r)
  <2>1. pc' = [pc EXCEPT ![r] = "save"] /\ pc'[r] = "save" /\ op'[r] = "status"
    BY <1>4 DEF StatusStart, Goto, Inv, TypeOK
  <2>2. BookInvFor(r)'
    BY <2>1 DEF BookInvFor, NotYetPlaced, Creating, ChecksHold, OnlyStockChanges, CancelsItsItems
  <2>. QED  BY <1>1, <1>2, <2>1, <2>2, BookFrame
<1>5. CASE CancelStart(r)
  <2>1. PICK o \in Requests : /\ target' = [target EXCEPT ![r] = o]
                              /\ items' = [items EXCEPT ![r] = orders[o].items]
    BY <1>5 DEF CancelStart
  <2>2. /\ pc' = [pc EXCEPT ![r] = "save"] /\ pc'[r] = "save" /\ op'[r] = "cancel"
        /\ want'[r] = "cancelled" /\ target'[r] = o /\ items'[r] = orders[o].items
    BY <1>5, <2>1 DEF CancelStart, Goto, Inv, TypeOK
  <2>3. BookInvFor(r)'
    BY <1>2, <2>2 DEF BookInvFor, NotYetPlaced, Creating, ChecksHold, OnlyStockChanges, CancelsItsItems
  <2>. QED  BY <1>1, <1>2, <2>2, <2>3, BookFrame
<1>6. CASE UpdateStart(r) \/ RemoveStart(r)
  <2>1. pc' = [pc EXCEPT ![r] = "load"] /\ pc'[r] = "load" /\ op'[r] \in {"update", "restock", "remove"}
    BY <1>6 DEF UpdateStart, RemoveStart, Goto, Inv, TypeOK
  <2>2. BookInvFor(r)'
    BY <2>1 DEF BookInvFor, NotYetPlaced, Creating, ChecksHold, OnlyStockChanges, CancelsItsItems
  <2>. QED  BY <1>1, <1>2, <2>1, <2>2, BookFrame
<1>. QED  BY <1>3, <1>4, <1>5, <1>6

\* The loops read the product of the current item.
LEMMA LoopReadBook ==
  ASSUME Inv, SerialInv, BookInv, MaxInFlight = 1, NEW r \in Requests, CreateRead(r) \/ CreditRead(r)
  PROVE  BookInv'
<1> DEFINE row == rows[Current(r).product]
<1>1. \A q \in Requests \ {r} : ~InFlight(q)
  BY Alone DEF CallStep
<1>2. op[r] = IF pc[r] = "read" THEN "create" ELSE "cancel"
  BY DEF CreateRead, CreditRead, Inv, ControlOK, CallOK
<1>3. row \in Entity /\ row.id = Current(r).product
  BY <1>2, CurrentItem, RowIsEntity
<1>4. PICK n : ent' = [ent EXCEPT ![r] = [row EXCEPT !.stock = n]]
  BY DEF CreateRead, CreditRead
<1>5. ent'[r].active = row.active /\ ent'[r].minQty = row.minQty /\ ent'[r].id = row.id
  BY <1>3, <1>4 DEF Inv, TypeOK, Entity
<1>6. pc' = [pc EXCEPT ![r] = "load"] /\ pc'[r] = "load" /\ UNCHANGED <<rows, orders, items, at, op>>
  BY DEF CreateRead, CreditRead, Goto, tables, Inv, TypeOK
<1>7. OnlyStockChanges(r)' /\ CancelsItsItems(r)'
  BY <1>3, <1>5, <1>6 DEF OnlyStockChanges, CancelsItsItems
<1>8. NotYetPlaced(r)'
  BY <1>2, <1>6 DEF NotYetPlaced, Creating, BookInv, BookInvFor, CreditRead, CreateRead
<1>9. ChecksHold(r)'
  <2> SUFFICES ASSUME op[r] = "create" PROVE ChecksHold(r)'
    BY <1>6 DEF ChecksHold, Creating
  <2>1. pc[r] = "read" /\ Acceptable(row, Current(r).qty)
    BY <1>2 DEF CreateRead, CreditRead
  <2>2. ChecksHold(r) /\ Creating(r) /\ Checked(r) = 1..(at[r] - 1)
    BY <2>1 DEF BookInv, BookInvFor, Creating, Checked
  <2>3. Checked(r)' = 1..at[r] /\ at[r] \in Nat
    BY <1>6 DEF Checked, Inv, TypeOK
  <2>4. \A i \in Checked(r)' : i = at[r] \/ i \in Checked(r)
    BY <2>2, <2>3
  <2>5. rows[items[r][at[r]].product].active /\ items[r][at[r]].qty >= rows[items[r][at[r]].product].minQty
    BY <2>1 DEF Acceptable, Current
  <2>. QED  BY <1>6, <2>2, <2>4, <2>5 DEF ChecksHold
<1>. QED  BY <1>1, <1>6, <1>7, <1>8, <1>9, BookFrame DEF BookInvFor

LEMMA LoadBook ==
  ASSUME Inv, SerialInv, BookInv, MaxInFlight = 1, NEW r \in Requests, Load(r)
  PROVE  BookInv'
<1>1. \A q \in Requests \ {r} : ~InFlight(q)
  BY Alone DEF CallStep
<1>2. /\ pc[r] = "load" /\ pc' = [pc EXCEPT ![r] = "update"] /\ pc'[r] = "update"
      /\ UNCHANGED <<rows, orders, items, at, op, ent>>
  BY DEF Load, Goto, tables, Inv, TypeOK
<1>3. BookInvFor(r)
  BY DEF BookInv
<1>4. BookInvFor(r)'
  BY <1>2, <1>3 DEF BookInvFor, NotYetPlaced, Creating, ChecksHold, Checked, OnlyStockChanges, CancelsItsItems
<1>. QED  BY <1>1, <1>2, <1>4, BookFrame

\* The UPDATE of a loop changes the stock of one product and nothing else the book
\* knows; the other UPDATEs change one product and end their call.
LEMMA UpdateRows ==
  ASSUME Inv, SerialInv, BookInv, MaxInFlight = 1, NEW r \in Requests, Update(r)
  PROVE  /\ ent[r].id \in Products
         /\ \A k \in Products \ {ent[r].id} : rows'[k] = rows[k]
         /\ rows'[ent[r].id].stock = ent[r].stock
         /\ op[r] \in {"create", "cancel"} => \A k \in Products :
               rows'[k].active = rows[k].active /\ rows'[k].minQty = rows[k].minQty
<1> DEFINE p == ent[r].id
<1> DEFINE row == Write(rows[p], ent[r], dirty[r])
<1>1. pc[r] = "update" /\ ent[r] \in Entity /\ p \in Products /\ rows[p] \in Entity /\ FreshFor(r)
  BY Saving DEF Update
<1>2. rows' = [rows EXCEPT ![p] = row]
  BY DEF Update
<1>3. row.stock = ent[r].stock
  BY <1>1 DEF FreshFor, Write, Entity
<1>4. op[r] \in {"create", "cancel"} => row.active = rows[p].active /\ row.minQty = rows[p].minQty
  BY <1>1 DEF BookInv, BookInvFor, OnlyStockChanges, Write, Entity
<1>. HIDE DEF row
<1>5. rows'[p] = row /\ \A k \in Products \ {p} : rows'[k] = rows[k]
  BY <1>1, <1>2 DEF Inv, TypeOK
<1>. QED  BY <1>1, <1>3, <1>4, <1>5

LEMMA UpdateBook ==
  ASSUME Inv, SerialInv, BookInv, MaxInFlight = 1, NEW r \in Requests, Update(r)
  PROVE  BookInv'
<1>1. \A q \in Requests \ {r} : ~InFlight(q)
  BY Alone DEF CallStep
<1>2. orders' = orders
  BY DEF Update
<1>3. CASE op[r] = "create"
  <2>1. /\ pc[r] = "update" /\ op' = op /\ items' = items
        /\ at' = IF IsLast(r) THEN at ELSE [at EXCEPT ![r] = @ + 1]
        /\ pc' = [pc EXCEPT ![r] = IF IsLast(r) THEN "checkout" ELSE "read"]
    BY <1>3 DEF Update, ForgetEntity, Goto
  <2>2. at[r] \in Nat /\ Len(items[r]) \in Nat /\ DOMAIN items[r] = 1..Len(items[r])
        /\ items[r] \in Seq(Item)
    BY DEF Inv, TypeOK
  <2>3. pc'[r] = (IF IsLast(r) THEN "checkout" ELSE "read") /\ Checked(r)' = 1..at[r]
    BY <2>1, <2>2 DEF Checked, IsLast, Inv, TypeOK
  <2>4. ChecksHold(r) /\ Creating(r) /\ NotYetPlaced(r) /\ Checked(r) = 1..at[r]
    BY <1>3, <2>1 DEF BookInv, BookInvFor, Creating, Checked
  <2>5. 1..at[r] \subseteq DOMAIN items[r]
    BY <1>3, <2>2 DEF Inv, ControlOK, CallOK
  <2>6. \A i \in DOMAIN items[r] : items[r][i].product \in Products
    <3>1. \A i \in 1..Len(items[r]) : items[r][i] \in Item
      BY <2>2
    <3>. QED  BY <2>2, <3>1 DEF Item
  <2>7. ChecksHold(r)'
    BY <1>3, <2>1, <2>3, <2>4, <2>5, <2>6, UpdateRows DEF ChecksHold
  <2>8. BookInvFor(r)'
    BY <1>2, <1>3, <2>1, <2>3, <2>4, <2>7
       DEF BookInvFor, NotYetPlaced, OnlyStockChanges, CancelsItsItems
  <2>. QED  BY <1>1, <1>2, <2>1, <2>8, BookFrame
<1>4. CASE op[r] # "create"
  <2>1. \E step \in {"credit", "done"} : pc' = [pc EXCEPT ![r] = step]
    BY <1>4 DEF Update, Goto, Finish
  <2>. QED  BY <1>1, <1>2, <2>1, BookQuiet
<1>. QED  BY <1>3, <1>4

\* The steps after which a call has nothing to keep.
LEMMA QuietSteps ==
  ASSUME Inv, SerialInv, BookInv, MaxInFlight = 1, NEW r \in Requests,
         \/ CreateReject(r) \/ FreightFails(r) \/ InsertOrder(r) \/ PublishRabbit(r)
         \/ PublishFails(r) \/ EmitKafka(r) \/ EmitFails(r) \/ StatusSave(r) \/ CancelSave(r)
  PROVE  BookInv'
<1>1. \A q \in Requests \ {r} : ~InFlight(q)
  BY Alone DEF CallStep
<1>2. \E step \in {"done", "publish", "emit", "credit"} : pc' = [pc EXCEPT ![r] = step]
  BY DEF CreateReject, FreightFails, InsertOrder, PublishRabbit, PublishFails, EmitKafka,
     EmitFails, StatusSave, CancelSave, Goto, Finish
<1>3. ASSUME NEW q \in Requests \ {r}, orders[q] = NoOrder PROVE orders'[q] = NoOrder
  <2>1. pc[r] = "save" => q # target[r]
    BY <1>3 DEF Inv, ControlOK, CallOK
  <2>2. orders' = orders \/ (\E row : orders' = [orders EXCEPT ![r] = row])
        \/ (pc[r] = "save" /\ \E row : orders' = [orders EXCEPT ![target[r]] = row])
    BY DEF CreateReject, FreightFails, InsertOrder, PublishRabbit, PublishFails, EmitKafka,
       EmitFails, StatusSave, CancelSave, tables
  <2>. QED  BY <1>3, <2>1, <2>2 DEF Inv, TypeOK
<1>. QED  BY <1>1, <1>2, <1>3, BookQuiet

LEMMA BookInvInit == Init => BookInv
  BY DEF Init, BookInv, BookInvFor, NotYetPlaced, Creating, ChecksHold, OnlyStockChanges,
     CancelsItsItems

LEMMA BookInvNext == MaxInFlight = 1 /\ Inv /\ SerialInv /\ BookInv /\ [Next]_vars => BookInv'
<1> SUFFICES ASSUME MaxInFlight = 1, Inv, SerialInv, BookInv, [Next]_vars PROVE BookInv'
  OBVIOUS
<1>1. CASE UNCHANGED vars
  BY <1>1 DEF vars, tables, local, BookInv, BookInvFor, NotYetPlaced, Creating, ChecksHold,
     Checked, OnlyStockChanges, CancelsItsItems
<1>2. CASE Crash
  <2>1. \A q \in Requests : orders'[q] = orders[q] /\ pc'[q] = IF InFlight(q) THEN "done" ELSE pc[q]
    BY <1>2 DEF Crash, tables
  <2>. QED  BY <2>1 DEF InFlight, BookInv, BookInvFor, NotYetPlaced, Creating, ChecksHold,
               OnlyStockChanges, CancelsItsItems
<1>3. ASSUME NEW r \in Requests, CallStep(r) PROVE BookInv'
  BY <1>3, StartBook, LoopReadBook, LoadBook, UpdateBook, QuietSteps DEF CallStep
<1>. QED  BY <1>1, <1>2, <1>3 DEF Next, AllDone

---------------------------------------------------------------------------
(***************************************************************************)
(* Every step of the calls is a step of the book.                           *)
(***************************************************************************)
BookStep == Book!BookNext \/ UNCHANGED Book!bookVars

LEMMA ShelfBothSides ==
  ASSUME Inv, OnlyOneHolds, OnlyOneHolds', NEW r \in Requests,
         \A q \in Requests \ {r} : ~InFlight(q), NEW step, pc' = [pc EXCEPT ![r] = step]
  PROVE  ShelfIs(r) /\ ShelfIs(r)'
<1>1. \A q \in Requests \ {r} : ~InFlight(q)'
  BY DEF InFlight, Inv, TypeOK
<1>. QED  BY <1>1 DEF OnlyOneHolds

\* Units that move between a row and the memory of a call stay on the shelf.
LEMMA ShelfStays ==
  ASSUME NEW r \in Requests, ShelfIs(r), ShelfIs(r)', UNCHANGED orders,
         \A p \in Products :
            /\ rows'[p].stock + InHand(items[r], HeldIndexes(r), p)'
                 = rows[p].stock + InHand(items[r], HeldIndexes(r), p)
            /\ rows'[p].active = rows[p].active
            /\ rows'[p].minQty = rows[p].minQty
  PROVE  BookStep
<1>1. shelfBar' = shelfBar
  BY DEF ShelfIs
<1>. QED  BY <1>1 DEF BookStep, Book!bookVars

LEMMA SameInHand ==
  ASSUME Inv, Inv', NEW r \in Requests,
         \/ HeldIndexes(r) = {} /\ HeldIndexes(r)' = {}
         \/ items'[r] = items[r] /\ HeldIndexes(r)' = HeldIndexes(r)
  PROVE  \A p \in Products : /\ InHand(items[r], HeldIndexes(r), p)' = InHand(items[r], HeldIndexes(r), p)
                             /\ HeldIndexes(r) = {} => InHand(items[r], HeldIndexes(r), p) = 0
<1>1. items[r] \in Seq(Item) /\ items'[r] \in Seq(Item)
  BY DEF Inv, TypeOK
<1>2. \A p : InHand(items[r], {}, p) = 0 /\ InHand(items'[r], {}, p) = 0
  BY <1>1, InHandNat
<1>. QED  BY <1>2 DEF InHand, UnitsIn

\* The steps between effects: nothing enters or leaves the hands of the call.
LEMMA StepsBetween ==
  ASSUME Inv, Inv', SerialInv, OnlyOneHolds, OnlyOneHolds', MaxInFlight = 1, NEW r \in Requests,
         \/ CreateStart(r) \/ StatusStart(r) \/ CancelStart(r) \/ UpdateStart(r) \/ RemoveStart(r)
         \/ CreateRead(r) \/ CreditRead(r) \/ Load(r)
         \/ PublishRabbit(r) \/ PublishFails(r) \/ EmitKafka(r) \/ EmitFails(r)
  PROVE  BookStep
<1>1. \A q \in Requests \ {r} : ~InFlight(q)
  BY Alone DEF CallStep
<1>2. UNCHANGED <<rows, orders>>
  BY DEF CreateStart, StatusStart, CancelStart, UpdateStart, RemoveStart, CreateRead, CreditRead,
     Load, PublishRabbit, PublishFails, EmitKafka, EmitFails, tables
<1>3. \E step : pc' = [pc EXCEPT ![r] = step]
  BY DEF CreateStart, StatusStart, CancelStart, UpdateStart, RemoveStart, CreateRead, CreditRead,
     Load, PublishRabbit, PublishFails, EmitKafka, EmitFails, Goto, Finish
<1>4. ShelfIs(r) /\ ShelfIs(r)'
  BY <1>1, <1>3, ShelfBothSides
<1>5. \/ HeldIndexes(r) = {} /\ HeldIndexes(r)' = {}
      \/ items'[r] = items[r] /\ HeldIndexes(r)' = HeldIndexes(r)
  <2>1. CASE CreateStart(r)
    <3>1. pc[r] = "idle" /\ pc'[r] = "read" /\ at'[r] = 1
      BY <2>1 DEF CreateStart, CanStart, Goto, Inv, TypeOK, ControlOK, CallOK
    <3>. QED  BY <3>1 DEF HeldIndexes
  <2>2. CASE StatusStart(r) \/ CancelStart(r) \/ UpdateStart(r) \/ RemoveStart(r)
    <3>1. pc[r] = "idle"
      BY <2>2 DEF StatusStart, CancelStart, UpdateStart, RemoveStart, CanStart
    <3>2. StatusStart(r) \/ CancelStart(r) => pc'[r] = "save"
      BY DEF StatusStart, CancelStart, Goto, Inv, TypeOK
    <3>3. UpdateStart(r) \/ RemoveStart(r) => op'[r] \in {"update", "restock", "remove"}
      BY DEF UpdateStart, RemoveStart, Inv, TypeOK
    <3>. QED  BY <2>2, <3>1, <3>2, <3>3 DEF HeldIndexes
  <2>3. CASE CreateRead(r) \/ CreditRead(r) \/ Load(r)
    <3>1. /\ UNCHANGED <<op, items, at>>
          /\ \/ pc[r] = "read" /\ pc'[r] = "load" /\ op[r] = "create"
             \/ pc[r] = "credit" /\ pc'[r] = "load" /\ op[r] = "cancel"
             \/ pc[r] = "load" /\ pc'[r] = "update"
      BY <2>3 DEF CreateRead, CreditRead, Load, Goto, Inv, TypeOK, ControlOK, CallOK
    <3>. QED  BY <3>1 DEF HeldIndexes
  <2>4. CASE PublishRabbit(r) \/ PublishFails(r) \/ EmitKafka(r) \/ EmitFails(r)
    <3>1. pc[r] \in {"publish", "emit"} /\ pc'[r] \in {"publish", "emit", "done"}
      BY <2>4 DEF PublishRabbit, PublishFails, EmitKafka, EmitFails, Goto, Finish, Inv, TypeOK
    <3>. QED  BY <3>1 DEF HeldIndexes
  <2>. QED  BY <2>1, <2>2, <2>3, <2>4
<1>6. \A p \in Products : InHand(items[r], HeldIndexes(r), p)' = InHand(items[r], HeldIndexes(r), p)
  BY <1>5, SameInHand
<1>. QED  BY <1>2, <1>4, <1>6, ShelfStays

\* The UPDATE of a create takes units from the row into the hands of the call; the
\* UPDATE of a cancel gives them to the row.
LEMMA UpdateMovesUnits ==
  ASSUME Inv, Inv', SerialInv, BookInv, MaxInFlight = 1, NEW r \in Requests, Update(r),
         op[r] \in {"create", "cancel"}, NEW p \in Products
  PROVE  rows'[p].stock + InHand(items[r], HeldIndexes(r), p)'
           = rows[p].stock + InHand(items[r], HeldIndexes(r), p)
<1> DEFINE qty == Current(r).qty
<1> DEFINE part == IF Current(r).product = p THEN qty ELSE 0
<1>1. /\ items[r] \in Seq(Item) /\ items'[r] \in Seq(Item) /\ at[r] \in Nat \ {0}
      /\ Len(items[r]) \in Nat /\ DOMAIN items[r] = 1..Len(items[r]) /\ at[r] <= Len(items[r])
  BY DEF Inv, TypeOK, ControlOK, CallOK
<1>2. /\ pc[r] = "update" /\ FreshFor(r) /\ rows[p].stock \in Int /\ rows'[p].stock \in Int
      /\ Current(r).product = ent[r].id /\ qty \in Nat
  BY Saving, CurrentItem DEF Update, FreshFor, Inv, TypeOK, Entity
<1>3. rows'[p].stock = IF op[r] = "create" THEN rows[p].stock - part ELSE rows[p].stock + part
  <2>1. CASE p = ent[r].id
    <3>1. rows'[p].stock = ent[r].stock
      BY <2>1, UpdateRows
    <3>. QED  BY <1>2, <2>1, <3>1 DEF FreshFor
  <2>2. CASE p # ent[r].id
    BY <1>2, <2>2, UpdateRows
  <2>. QED  BY <2>1, <2>2
<1>4. ASSUME NEW ix \in SUBSET DOMAIN items[r], at[r] \in ix
      PROVE  /\ InHand(items[r], ix, p) = InHand(items[r], ix \ {at[r]}, p) + part
             /\ InHand(items[r], ix \ {at[r]}, p) \in Int
  BY <1>1, <1>4, InHandItem, InHandNat DEF Current
<1>. HIDE DEF part
<1>5. CASE op[r] = "create"
  <2>1. items' = items /\ pc' = [pc EXCEPT ![r] = IF IsLast(r) THEN "checkout" ELSE "read"]
        /\ op' = op /\ at' = IF IsLast(r) THEN at ELSE [at EXCEPT ![r] = @ + 1]
    BY <1>5 DEF Update, ForgetEntity, Goto
  <2>2. HeldIndexes(r) = 1..(at[r] - 1)
    BY <1>2, <1>5 DEF HeldIndexes
  <2>3. HeldIndexes(r)' = 1..at[r]
    <3>1. CASE IsLast(r)
      <4>1. pc'[r] = "checkout"
        BY <2>1, <3>1 DEF Inv, TypeOK
      <4>. QED  BY <1>1, <1>5, <2>1, <3>1, <4>1 DEF HeldIndexes, IsLast
    <3>2. CASE ~IsLast(r)
      <4>1. pc'[r] = "read" /\ at'[r] = at[r] + 1
        BY <2>1, <3>2 DEF Inv, TypeOK
      <4>. QED  BY <1>1, <1>5, <2>1, <4>1 DEF HeldIndexes
    <3>. QED  BY <3>1, <3>2
  <2>4. 1..at[r] \in SUBSET DOMAIN items[r] /\ at[r] \in 1..at[r] /\ (1..at[r]) \ {at[r]} = 1..(at[r] - 1)
    BY <1>1
  <2>5. InHand(items[r], HeldIndexes(r), p)' = InHand(items[r], 1..at[r], p)
    BY <2>1, <2>3 DEF InHand, UnitsIn
  <2>6. InHand(items[r], 1..at[r], p) = InHand(items[r], 1..(at[r] - 1), p) + part
        /\ InHand(items[r], 1..(at[r] - 1), p) \in Int
    BY <1>4, <2>4
  <2>7. part \in Int
    BY <1>2 DEF part
  <2>8. rows'[p].stock = rows[p].stock - part
    BY <1>3, <1>5
  <2>9. rows'[p].stock + InHand(items[r], 1..at[r], p)
          = rows[p].stock + InHand(items[r], 1..(at[r] - 1), p)
    BY <1>2, <2>6, <2>7, <2>8
  <2>. QED  BY <2>2, <2>5, <2>9
<1>6. CASE op[r] = "cancel"
  <2>1. HeldIndexes(r) = at[r]..Len(items[r])
    BY <1>2, <1>6 DEF HeldIndexes
  <2>2. HeldIndexes(r) \in SUBSET DOMAIN items[r] /\ at[r] \in HeldIndexes(r)
        /\ HeldIndexes(r) \ {at[r]} = (at[r] + 1)..Len(items[r])
    BY <1>1, <2>1
  <2>3. InHand(items[r], HeldIndexes(r), p)' = InHand(items[r], (at[r] + 1)..Len(items[r]), p)
    <3>1. CASE IsLast(r)
      <4>1. pc'[r] = "done" /\ (at[r] + 1)..Len(items[r]) = {}
        BY <1>1, <1>6, <3>1 DEF Update, IsLast, Finish, Inv, TypeOK
      <4>2. HeldIndexes(r)' = {}
        BY <4>1 DEF HeldIndexes
      <4>3. InHand(items'[r], {}, p) = 0 /\ InHand(items[r], {}, p) = 0
        BY <1>1, InHandNat
      <4>. QED  BY <4>1, <4>2, <4>3 DEF InHand, UnitsIn
    <3>2. CASE ~IsLast(r)
      <4>1. pc'[r] = "credit" /\ items' = items /\ op' = op /\ at'[r] = at[r] + 1
        BY <1>6, <3>2 DEF Update, ForgetEntity, Goto, Inv, TypeOK
      <4>2. HeldIndexes(r)' = (at[r] + 1)..Len(items[r])
        BY <1>6, <4>1 DEF HeldIndexes
      <4>. QED  BY <4>1, <4>2 DEF InHand, UnitsIn
    <3>. QED  BY <3>1, <3>2
  <2>4. InHand(items[r], HeldIndexes(r), p) = InHand(items[r], (at[r] + 1)..Len(items[r]), p) + part
        /\ InHand(items[r], (at[r] + 1)..Len(items[r]), p) \in Int
    BY <1>4, <2>2
  <2>5. part \in Int
    BY <1>2 DEF part
  <2>6. rows'[p].stock = rows[p].stock + part
    BY <1>3, <1>6
  <2>7. rows'[p].stock + InHand(items[r], (at[r] + 1)..Len(items[r]), p)
          = rows[p].stock + InHand(items[r], HeldIndexes(r), p)
    BY <1>2, <2>4, <2>5, <2>6
  <2>. QED  BY <2>3, <2>7
<1>. QED  BY <1>5, <1>6

\* An UPDATE: of a loop, a stutter; of PATCH or DELETE of a product, an edit.
LEMMA UpdateImplements ==
  ASSUME Inv, Inv', StockInv', SerialInv, BookInv, OnlyOneHolds, OnlyOneHolds', MaxInFlight = 1,
         NEW r \in Requests, Update(r)
  PROVE  BookStep
<1>1. \A q \in Requests \ {r} : ~InFlight(q)
  BY Alone DEF CallStep
<1>2. \E step : pc' = [pc EXCEPT ![r] = step]
  BY DEF Update, Goto, Finish
<1>3. ShelfIs(r) /\ ShelfIs(r)' /\ orders' = orders
  BY <1>1, <1>2, ShelfBothSides DEF Update
<1>4. CASE op[r] \in {"create", "cancel"}
  BY <1>3, <1>4, UpdateMovesUnits, UpdateRows, ShelfStays
<1>5. CASE op[r] \notin {"create", "cancel"}
  <2>1. pc' = [pc EXCEPT ![r] = "done"]
    BY <1>5 DEF Update, Finish
  <2>2. HeldIndexes(r) = {} /\ HeldIndexes(r)' = {}
    BY <1>5, <2>1 DEF HeldIndexes, Inv, TypeOK
  <2>3. \A k \in Products : InHand(items[r], HeldIndexes(r), k) = 0
                            /\ InHand(items[r], HeldIndexes(r), k)' = 0
    BY <2>2, SameInHand
  <2>4. PICK p \in Products : \A k \in Products \ {p} : rows'[k] = rows[k]
    BY UpdateRows
  <2>5. rows'[p].stock \in Int /\ rows'[p].stock >= 0
    BY DEF StockInv, StockNonNegative, Inv, TypeOK, Entity
  <2>6. rows'[p].active => rows[p].active
    BY UpdateSerial
  <2>7. shelfBar'[p].avail = rows'[p].stock + InHand(items[r], HeldIndexes(r), p)'
        /\ shelfBar'[p].active = rows'[p].active /\ shelfBar[p].active = rows[p].active
    BY <1>3 DEF ShelfIs
  <2>8. \A k \in Products \ {p} : shelfBar'[k] = shelfBar[k]
    BY <1>3, <2>3, <2>4 DEF ShelfIs
  <2>9. shelfBar'[p].avail >= 0
    BY <2>3, <2>5, <2>7
  <2>10. Book!Edit(p)
    BY <1>3, <2>6, <2>7, <2>8, <2>9 DEF Book!Edit
  <2>. QED  BY <2>10 DEF BookStep, Book!BookNext
<1>. QED  BY <1>4, <1>5

\* The insert of the order places it: its units leave the shelf.
LEMMA InsertPlaces ==
  ASSUME Inv, StockInv, BookInv, NEW r \in Requests, ShelfIs(r), ShelfIs(r)', InsertOrder(r)
  PROVE  BookStep
<1> DEFINE its == items[r]
<1>1. pc[r] = "checkout" /\ op[r] = "create" /\ its \in Seq(Item)
      /\ orders' = [orders EXCEPT ![r] = [status |-> "pending", items |-> its]]
  BY DEF InsertOrder, Inv, TypeOK, ControlOK, CallOK
<1>2. Creating(r) /\ orders[r] = NoOrder /\ its \in Carts
      /\ \A i \in DOMAIN its : /\ rows[its[i].product].active
                               /\ its[i].qty >= rows[its[i].product].minQty
  BY <1>1 DEF BookInv, BookInvFor, NotYetPlaced, Creating, ChecksHold, Checked
<1>3. rows' = rows /\ items' = items /\ HeldIndexes(r) = DOMAIN its /\ HeldIndexes(r)' = {}
  <2>1. pc'[r] = "publish" /\ rows' = rows /\ items' = items
    BY DEF InsertOrder, Goto, local, Inv, TypeOK
  <2>. QED  BY <1>1, <2>1 DEF HeldIndexes
<1>4. \A p : Book!Units(its, p) = InHand(its, DOMAIN its, p)
  BY BookUnits DEF InHand
<1>5. \A p \in Products : /\ Book!Units(its, p) \in Nat
                          /\ rows[p].stock \in Int /\ rows[p].stock >= 0
  BY <1>1, <1>4, InHandNat DEF StockInv, StockNonNegative, Inv, TypeOK, Entity
<1>6. \A p \in Products :
         shelfBar[p] = [avail |-> rows[p].stock + Book!Units(its, p),
                        active |-> rows[p].active, minQty |-> rows[p].minQty]
  BY <1>3, <1>4 DEF ShelfIs
<1>7. ASSUME NEW p \in Products
      PROVE  shelfBar'[p] = [avail |-> rows[p].stock,
                             active |-> rows[p].active, minQty |-> rows[p].minQty]
  <2>1. InHand(items[r], HeldIndexes(r), p)' = InHand(its, {}, p)
    BY <1>3 DEF InHand, UnitsIn
  <2>2. InHand(its, {}, p) = 0 /\ rows[p].stock + 0 = rows[p].stock
    BY <1>1, <1>5, InHandNat
  <2>. QED  BY <1>3, <2>1, <2>2 DEF ShelfIs
<1>8. ASSUME NEW p \in Products
      PROVE  /\ shelfBar[p].avail = rows[p].stock + Book!Units(its, p)
             /\ shelfBar[p].active = rows[p].active
             /\ shelfBar[p].minQty = rows[p].minQty
  <2> PICK n : n = rows[p].stock + Book!Units(its, p)
    OBVIOUS
  <2>1. shelfBar[p] = [avail |-> n, active |-> rows[p].active, minQty |-> rows[p].minQty]
    BY <1>6
  <2>. QED  BY <2>1
<1>9. \A i \in DOMAIN its : its[i].product \in Products
  <2>1. \A i \in 1..Len(its) : its[i] \in Item
    BY <1>1
  <2>. QED  BY <1>1, <2>1 DEF Item
<1>10. \A i \in DOMAIN its : /\ shelfBar[its[i].product].active
                             /\ its[i].qty >= shelfBar[its[i].product].minQty
  BY <1>2, <1>8, <1>9
<1>11. \A p \in Products : Book!Units(its, p) <= shelfBar[p].avail
  BY <1>5, <1>8
<1>12. shelfBar' = Book!Moved(its, -1)
  <2>1. ASSUME NEW p \in Products
        PROVE  shelfBar'[p] = [shelfBar[p] EXCEPT !.avail = @ + (-1) * Book!Units(its, p)]
    <3> PICK u, s : u = Book!Units(its, p) /\ s = rows[p].stock
      OBVIOUS
    <3>1. u \in Int /\ s \in Int
      BY <1>5
    <3>2. (s + u) + (-1) * u = s
      BY <3>1
    <3>3. shelfBar[p] = [avail |-> s + u, active |-> rows[p].active, minQty |-> rows[p].minQty]
          /\ shelfBar'[p] = [avail |-> s, active |-> rows[p].active, minQty |-> rows[p].minQty]
      BY <1>6, <1>7
    <3>. QED  BY <3>2, <3>3
  <2>2. shelfBar' = [p \in Products |-> shelfBar'[p]]
    BY DEF ShelfIs
  <2>. QED  BY <2>1, <2>2 DEF Book!Moved
<1>13. Book!Place(r, its)
  BY <1>1, <1>2, <1>10, <1>11, <1>12 DEF Book!Place
<1>. QED  BY <1>2, <1>13 DEF BookStep, Book!BookNext

\* The save of the status cancels the order: its units are on the shelf from there.
LEMMA SaveCancels ==
  ASSUME Inv, SerialInv, BookInv, NEW r \in Requests, ShelfIs(r), ShelfIs(r)', CancelSave(r)
  PROVE  BookStep
<1> DEFINE o == target[r]
<1> DEFINE its == items[r]
<1>1. /\ pc[r] = "save" /\ op[r] = "cancel" /\ o \in Requests /\ orders[o] # NoOrder
      /\ its \in Seq(Item) /\ its = orders[o].items /\ at[r] = 1
      /\ orders' = [orders EXCEPT ![o].status = "cancelled"]
      /\ orders[o].status \notin {"shipped", "delivered"}
  BY DEF CancelSave, Inv, TypeOK, ControlOK, CallOK, BookInv, BookInvFor, CancelsItsItems,
     SerialInv, Cancellable
<1>2. rows' = rows /\ items' = items /\ HeldIndexes(r) = {} /\ HeldIndexes(r)' = DOMAIN its
  <2>1. pc'[r] = "credit" /\ rows' = rows /\ items' = items /\ op' = op /\ at' = at
    BY DEF CancelSave, Goto, local, Inv, TypeOK
  <2>. QED  BY <1>1, <2>1 DEF HeldIndexes
<1>3. \A p : Book!Units(its, p) = InHand(its, DOMAIN its, p)
  BY BookUnits DEF InHand
<1>4. shelfBar' = Book!Moved(its, 1)
  <2>1. ASSUME NEW p \in Products
        PROVE  shelfBar'[p] = [shelfBar[p] EXCEPT !.avail = @ + 1 * Book!Units(its, p)]
    <3> PICK u, s : u = Book!Units(its, p) /\ s = rows[p].stock
      OBVIOUS
    <3>1. u = InHand(its, DOMAIN its, p) /\ u \in Int /\ InHand(its, {}, p) = 0
      BY <1>1, <1>3, InHandNat
    <3>2. s \in Int
      BY DEF Inv, TypeOK, Entity
    <3>3. (s + 0) + 1 * u = s + u
      BY <3>1, <3>2
    <3>4. InHand(items[r], HeldIndexes(r), p)' = InHand(its, DOMAIN its, p)
      BY <1>2 DEF InHand, UnitsIn
    <3>5. shelfBar[p] = [avail |-> s + 0, active |-> rows[p].active, minQty |-> rows[p].minQty]
          /\ shelfBar'[p] = [avail |-> s + u, active |-> rows[p].active, minQty |-> rows[p].minQty]
      BY <1>2, <3>1, <3>4 DEF ShelfIs
    <3>. QED  BY <3>3, <3>5
  <2>2. shelfBar' = [p \in Products |-> shelfBar'[p]]
    BY DEF ShelfIs
  <2>. QED  BY <2>1, <2>2 DEF Book!Moved
<1>5. Book!Cancel(o)
  BY <1>1, <1>4 DEF Book!Cancel
<1>. QED  BY <1>1, <1>5 DEF BookStep, Book!BookNext

\* A call that stops holding units without an effect loses them.
LEMMA Loses ==
  ASSUME Inv, NEW r \in Requests, ShelfIs(r), ShelfIs(r)', UNCHANGED <<rows, orders>>,
         items'[r] \in Seq(Item), HeldIndexes(r)' = {}
  PROVE  BookStep
<1>1. ASSUME NEW p \in Products
      PROVE  /\ shelfBar'[p].avail <= shelfBar[p].avail
             /\ shelfBar'[p] = [shelfBar[p] EXCEPT !.avail = shelfBar'[p].avail]
  <2>1. InHand(items[r], HeldIndexes(r), p) \in Nat
    BY HeldIndexesInside, InHandNat
  <2>2. InHand(items'[r], {}, p) = 0
    BY InHandNat
  <2>3. InHand(items[r], HeldIndexes(r), p)' = 0
    BY <2>2 DEF InHand, UnitsIn
  <2> PICK u, s : u = InHand(items[r], HeldIndexes(r), p) /\ s = rows[p].stock
    OBVIOUS
  <2>4. s \in Int /\ s + 0 <= s + u
    BY <2>1 DEF Inv, TypeOK, Entity
  <2>5. shelfBar[p] = [avail |-> s + u, active |-> rows[p].active, minQty |-> rows[p].minQty]
        /\ shelfBar'[p] = [avail |-> s + 0, active |-> rows[p].active, minQty |-> rows[p].minQty]
    BY <2>3 DEF ShelfIs
  <2>. QED  BY <2>4, <2>5
<1>2. Book!Lose
  BY <1>1 DEF Book!Lose
<1>. QED  BY <1>2 DEF BookStep, Book!BookNext

LEMMA RejectLoses ==
  ASSUME Inv, Inv', SerialInv, OnlyOneHolds, OnlyOneHolds', MaxInFlight = 1, NEW r \in Requests,
         CreateReject(r) \/ FreightFails(r)
  PROVE  BookStep
<1>1. \A q \in Requests \ {r} : ~InFlight(q)
  BY Alone DEF CallStep
<1>2. pc' = [pc EXCEPT ![r] = "done"] /\ UNCHANGED <<rows, orders>>
  BY DEF CreateReject, FreightFails, Finish, tables
<1>3. ShelfIs(r) /\ ShelfIs(r)'
  BY <1>1, <1>2, ShelfBothSides
<1>4. HeldIndexes(r)' = {}
  BY <1>2 DEF HeldIndexes, Inv, TypeOK
<1>5. items'[r] \in Seq(Item)
  BY DEF Inv, TypeOK
<1>. QED  BY <1>2, <1>3, <1>4, <1>5, Loses

LEMMA CrashLoses ==
  ASSUME Inv, Inv', SerialInv, OnlyOneHolds, OnlyOneHolds', Crash
  PROVE  BookStep
<1>1. PICK r \in Requests : InFlight(r)
  BY DEF Crash
<1>2. \A q \in Requests \ {r} : ~InFlight(q)
  BY <1>1 DEF SerialInv, OneAtATime
<1>3. \A q \in Requests : pc'[q] = IF InFlight(q) THEN "done" ELSE pc[q]
  BY DEF Crash
<1>4. \A q \in Requests \ {r} : ~InFlight(q)'
  BY <1>2, <1>3 DEF InFlight
<1>5. ShelfIs(r) /\ ShelfIs(r)'
  BY <1>2, <1>4 DEF OnlyOneHolds
<1>6. HeldIndexes(r)' = {} /\ items'[r] \in Seq(Item) /\ UNCHANGED <<rows, orders>>
  BY <1>1, <1>3 DEF HeldIndexes, Crash, tables, Inv, TypeOK
<1>. QED  BY <1>5, <1>6, Loses

\* PATCH /orders/:id/status.
LEMMA StatusSets ==
  ASSUME Inv, NEW r \in Requests, ShelfIs(r), ShelfIs(r)', StatusSave(r)
  PROVE  BookStep
<1>1. /\ pc[r] = "save" /\ target[r] \in Requests /\ orders[target[r]] # NoOrder /\ want[r] \in Status
      /\ orders' = [orders EXCEPT ![target[r]].status = want[r]]
  BY DEF StatusSave, Inv, TypeOK, ControlOK, CallOK
<1>2. rows' = rows /\ HeldIndexes(r) = {} /\ HeldIndexes(r)' = {} /\ items' = items
  <2>1. pc'[r] = "emit" /\ rows' = rows /\ items' = items
    BY DEF StatusSave, Goto, local, Inv, TypeOK
  <2>. QED  BY <1>1, <2>1 DEF HeldIndexes
<1>3. shelfBar' = shelfBar
  BY <1>2 DEF ShelfIs, InHand, UnitsIn
<1>4. Book!SetStatus(target[r], want[r])
  BY <1>1, <1>3 DEF Book!SetStatus
<1>. QED  BY <1>1, <1>4 DEF BookStep, Book!BookNext

\* Every step of NestOrders, its calls one at a time, is a step of the book or none.
LEMMA StepImplements ==
  ASSUME MaxInFlight = 1, Inv, Inv', StockInv, StockInv', SerialInv, BookInv, OnlyOneHolds,
         OnlyOneHolds', [Next]_vars
  PROVE  BookStep
<1>1. CASE UNCHANGED vars
  <2>1. shelfBar' = shelfBar
    BY <1>1 DEF vars, tables, local, shelfBar, Held, HeldIndexes, UnitsIn
  <2>. QED  BY <1>1, <2>1 DEF vars, tables, BookStep, Book!bookVars
<1>2. ASSUME NEW r \in Requests, InsertOrder(r) \/ StatusSave(r) \/ CancelSave(r) PROVE BookStep
  <2>1. \A q \in Requests \ {r} : ~InFlight(q)
    BY <1>2, Alone DEF CallStep
  <2>2. \E step : pc' = [pc EXCEPT ![r] = step]
    BY <1>2 DEF InsertOrder, StatusSave, CancelSave, Goto
  <2>3. ShelfIs(r) /\ ShelfIs(r)'
    BY <2>1, <2>2, ShelfBothSides
  <2>. QED  BY <1>2, <2>3, InsertPlaces, SaveCancels, StatusSets
<1>3. ASSUME NEW r \in Requests, CallStep(r) PROVE BookStep
  BY <1>2, <1>3, StepsBetween, UpdateImplements, RejectLoses DEF CallStep
<1>. QED  BY <1>1, <1>3, CrashLoses DEF Next, AllDone

LEMMA InitImplements ==
  ASSUME IsFiniteSet(Requests), Init
  PROVE  Book!BookInit
<1>1. Inv /\ \A r \in Requests : ~InFlight(r)
  BY InitInv DEF Init, InFlight
<1>2. ASSUME NEW p \in Products PROVE shelfBar[p].avail >= 0 /\ shelfBar[p].active
  <2>1. rows[p].stock = InitStock /\ rows[p].active
    BY DEF Init, NewProduct
  <2>2. \A r \in Requests : InHand(items[r], HeldIndexes(r), p) = 0
    BY <1>1, HeldIndexesInside, InHandNat
  <2>3. Held(p) = [r \in Requests |-> InHand(items[r], HeldIndexes(r), p)]
    BY DEF Held, InHand
  <2> DEFINE h == Held(p)
  <2>4. h \in [Requests -> Int] /\ (\A r \in Requests : h[r] = 0) /\ DOMAIN h = Requests
    BY <2>2, <2>3
  <2>. HIDE DEF h
  <2>5. SumFunctionOnSet(h, Requests) = 0
    BY <2>4, SumZero
  <2>6. shelfBar[p].avail = InitStock + 0 /\ shelfBar[p].active
    BY <2>1, <2>4, <2>5 DEF shelfBar, SumFunction, h
  <2>. QED  BY <2>6, QuantityAssumption
<1>3. orders = [r \in Requests |-> NoOrder]
  BY DEF Init
<1>. QED  BY <1>2, <1>3 DEF Book!BookInit

\* Run one call at a time, the handlers of OrdersService and ProductsService, with
\* their reads, saves, rejections and crashes, are the atomic operations of the
\* order book: for every set of calls, products, carts and patches.
THEOREM SerialCallsAreAtomic ==
  ASSUME IsFiniteSet(Requests), MaxInFlight = 1
  PROVE  Spec => ImplementsOrderBook
<1> DEFINE All == Inv /\ StockInv /\ SerialInv /\ BookInv
<1>0. Init => StockInv
  BY QuantityAssumption DEF Init, StockInv, StockNonNegative, NewProduct
<1>1. Init => All /\ Book!BookInit
  BY <1>0, InitInv, SerialInit, BookInvInit, InitImplements
<1>2. All /\ [Next]_vars => All'
  BY NextInv, StockNext, SerialNext, BookInvNext
<1>3. Inv => OnlyOneHolds
  BY ShelfOfOne
<1>4. All /\ All' /\ OnlyOneHolds /\ OnlyOneHolds' /\ [Next]_vars => [Book!BookNext]_(Book!bookVars)
  BY StepImplements DEF BookStep
<1>. QED
  BY <1>1, <1>2, <1>3, <1>4, PTL DEF Spec, ImplementsOrderBook, Book!BookSpec

---------------------------------------------------------------------------
\* NestOrders with OrderEvents.  Where a request's message can be while it publishes.
PublishInv ==
    \A r \in Requests :
       /\ publish[r] = "idle" => r \notin AtBroker /\ ~InLog(r)
       /\ publish[r] = "sent" => r \in AtBroker
       /\ publish[r] \in {"waiting", "sent", "kafka"} => AboutAnOrder(r)
       /\ pc[r] \in {"publish", "emit"} => payload[r] = EventOf(r)
       /\ \A q \in behind[r] : pc[q] = "done"

PipelineTypes ==
    /\ publish \in [Messages -> {"idle", "waiting", "sent", "kafka", "done", "lost"}]
    /\ log \in [Partitions -> Seq(Messages)]
    /\ payload \in [Requests -> Event \cup {Blank}] /\ behind \in [Requests -> SUBSET Requests]

PipelineInv ==
    PipelineTypes /\ PublishInv /\ MessagesAreAboutOrders /\ AcceptedIsHeld /\ LogFollowsAnswers

\* Steps of handlers other than the two saves that publish.
SavesNothing == \A r \in Requests : ~InsertOrder(r) /\ ~StatusSave(r)

\* No message leaves the brokers, and one that comes was on its way.
MessagesMove ==
    /\ AtBroker \subseteq AtBroker'
    /\ \A r \in Requests :
          /\ r \in AtBroker' => r \in AtBroker \/ publish[r] = "waiting"
          /\ publish'[r] = "idle" => publish[r] = "idle"
          /\ publish'[r] = "sent" => publish[r] = "sent" \/ r \in AtBroker'
          /\ publish'[r] \in {"waiting", "sent", "kafka"} => publish[r] \in {"waiting", "sent", "kafka"}

\* The topics only grow, by messages that are being emitted and foreign ones.
LogGrows ==
    \A p \in Partitions :
       /\ \A i \in DOMAIN log[p] : i \in DOMAIN log'[p] /\ log'[p][i] = log[p][i]
       /\ \A i \in DOMAIN log'[p] :
             \/ i \in DOMAIN log[p]
             \/ log'[p][i] \in Foreign
             \/ /\ log'[p][i] \in Requests
                /\ publish[log'[p][i]] = "kafka" /\ pc[log'[p][i]] = "emit"

\* What a handler counts as accepted has arrived.
Accepts ==
    /\ \/ UNCHANGED queue
       \/ \E r \in Requests : /\ publish[r] = "sent" /\ pc[r] = "publish"
                              /\ queue' = Append(queue, EventOf(r))
    /\ \/ UNCHANGED topic
       \/ \E r \in Requests : pc[r] = "emit" /\ InLog(r)' /\ topic' = Append(topic, EventOf(r))

LEMMA PipelineStepsNest == [PipelineNext]_pipelineVars => [Next]_vars
<1>. SUFFICES ASSUME [PipelineNext]_pipelineVars  PROVE [Next]_vars
  OBVIOUS
<1>1. CASE \E r \in Requests : HandlerStep(r)
  BY <1>1 DEF HandlerStep, Begin, Next, CallStep
<1>2. CASE \E r \in Requests : Save(r)
  BY <1>2 DEF Save, Next, CallStep
<1>3. CASE \E r \in Requests : Published(r)
  BY <1>3 DEF Published, Next, CallStep
<1>4. CASE BrokerStep \/ Restart
  BY <1>4 DEF BrokerStep, Restart, Next
<1>. QED  BY <1>1, <1>2, <1>3, <1>4 DEF PipelineNext, pipelineVars

LEMMA BrokerVarsAreEventVars == UNCHANGED brokerVars <=> UNCHANGED Events!eventVars
  BY DEF brokerVars, Events!eventVars, Events!rabbitVars, Events!kafkaVars, Events!socketVars

LEMMA PipelineStepsEvents == [PipelineNext]_pipelineVars => [Events!EventNext]_(Events!eventVars)
<1>. SUFFICES ASSUME [PipelineNext]_pipelineVars  PROVE [Events!EventNext]_(Events!eventVars)
  OBVIOUS
<1>1. CASE \E r \in Requests : HandlerStep(r)
  BY <1>1, BrokerVarsAreEventVars DEF HandlerStep
<1>2. CASE \E r \in Requests : Save(r)
  BY <1>2 DEF Save, Events!EventNext, Messages
<1>3. CASE \E r \in Requests : Published(r)
  BY <1>3 DEF Published, Events!EventNext, Events!PublishStep, Messages
<1>4. CASE BrokerStep
  BY <1>4 DEF BrokerStep, Events!EventNext, Events!PublishStep
<1>5. CASE Restart
  BY <1>5 DEF Restart, Events!EventNext
<1>6. CASE UNCHANGED pipelineVars
  BY <1>6, BrokerVarsAreEventVars DEF pipelineVars
<1>. QED  BY <1>1, <1>2, <1>3, <1>4, <1>5, <1>6 DEF PipelineNext

(* The composition adds nothing to its parts: every behaviour of the process is  *)
(* one of NestOrders and one of OrderEvents, so what is proved of either holds   *)
(* of the process.                                                        *)
THEOREM PipelineRunsBoth ==
  PipelineSpec => Spec /\ Events!EventInit /\ [][Events!EventNext]_(Events!eventVars)
<1>1. PipelineInit => Init /\ Events!EventInit
  BY DEF PipelineInit
<1>. QED  BY <1>1, PipelineStepsNest, PipelineStepsEvents, PTL DEF PipelineSpec, Spec

\* A call that has ended does not go on.
LEMMA DoneStays ==
  ASSUME TypeOK, [Next]_vars, NEW q \in Requests, pc[q] = "done"
  PROVE  pc'[q] = "done"
<1>. USE DEF TypeOK
<1>1. CASE UNCHANGED vars
  BY <1>1 DEF vars
<1>2. CASE Crash
  BY <1>2 DEF Crash, InFlight
<1>3. ASSUME NEW r \in Requests, CallStep(r)  PROVE pc'[q] = "done"
  <2>1. pc[r] # "done"
    BY <1>3 DEF CallStep, CreateStart, CreateRead, CreateReject, FreightFails, InsertOrder,
       PublishRabbit, PublishFails, EmitKafka, EmitFails, StatusStart, StatusSave, CancelStart,
       CancelSave, CreditRead, UpdateStart, RemoveStart, Load, Update, CanStart
  <2>2. \E s : pc' = [pc EXCEPT ![r] = s]
    BY <1>3 DEF CallStep, CreateStart, CreateRead, CreateReject, FreightFails, InsertOrder,
       PublishRabbit, PublishFails, EmitKafka, EmitFails, StatusStart, StatusSave, CancelStart,
       CancelSave, CreditRead, UpdateStart, RemoveStart, Load, Update, Goto, Finish
  <2>. QED  BY <2>1, <2>2
<1>. QED  BY <1>1, <1>2, <1>3 DEF Next, AllDone

\* From the save on, a call publishes about one order and one status.
LEMMA PublishesOneEvent ==
  ASSUME TypeOK, [Next]_vars, SavesNothing, NEW q \in Requests, pc'[q] \in {"publish", "emit"}
  PROVE  pc[q] \in {"publish", "emit"} /\ EventOf(q)' = EventOf(q)
<1>. USE DEF TypeOK, EventOf
<1>1. CASE UNCHANGED vars
  BY <1>1 DEF vars, local
<1>2. CASE Crash
  BY <1>2 DEF Crash, InFlight
<1>3. ASSUME NEW r \in Requests, CallStep(r)
      PROVE  pc[q] \in {"publish", "emit"} /\ EventOf(q)' = EventOf(q)
  <2>. USE DEF Goto, Finish, local, ForgetEntity
  <2>1. CASE PublishRabbit(r) \/ PublishFails(r) \/ EmitKafka(r) \/ EmitFails(r)
    BY <2>1 DEF PublishRabbit, PublishFails, EmitKafka, EmitFails
  <2>2. CASE CreateStart(r) \/ StatusStart(r) \/ CancelStart(r) \/ UpdateStart(r) \/ RemoveStart(r)
    BY <2>2 DEF CreateStart, StatusStart, CancelStart, UpdateStart, RemoveStart
  <2>3. CASE CreateRead(r) \/ CreateReject(r) \/ FreightFails(r) \/ CancelSave(r) \/ CreditRead(r)
    BY <2>3 DEF CreateRead, CreateReject, FreightFails, CancelSave, CreditRead
  <2>4. CASE Load(r) \/ Update(r)
    BY <2>4 DEF Load, Update
  <2>. QED  BY <1>3, <2>1, <2>2, <2>3, <2>4 DEF CallStep, SavesNothing
<1>. QED  BY <1>1, <1>2, <1>3 DEF Next, AllDone

\* What the steps that save nothing have in common.
LEMMA MovesKeep ==
  ASSUME Inv, Inv', PipelineInv, [Next]_vars, SavesNothing, UNCHANGED <<payload, behind>>,
         PipelineTypes', MessagesMove, LogGrows, Accepts
  PROVE  PipelineInv'
<1>1. \A r \in Requests : AboutAnOrder(r) => AboutAnOrder(r)'
  BY OrdersStay DEF AboutAnOrder, Committed
<1>2. \A r \in Requests : InLog(r) => InLog(r)'
  BY DEF LogGrows, InLog
<1>3. \A r \in Requests : InLog(r)' => InLog(r) \/ publish[r] = "kafka"
  BY PipelineConstants DEF LogGrows, InLog
<1>4. PublishInv'
  <2>. SUFFICES ASSUME NEW r \in Requests
                PROVE  /\ publish'[r] = "idle" => r \notin AtBroker' /\ ~InLog(r)'
                       /\ publish'[r] = "sent" => r \in AtBroker'
                       /\ publish'[r] \in {"waiting", "sent", "kafka"} => AboutAnOrder(r)'
                       /\ pc'[r] \in {"publish", "emit"} => payload'[r] = EventOf(r)'
                       /\ \A q \in behind'[r] : pc'[q] = "done"
    BY DEF PublishInv
  <2>1. publish'[r] = "idle" => r \notin AtBroker' /\ ~InLog(r)'
    BY <1>3 DEF MessagesMove, PipelineInv, PublishInv
  <2>2. publish'[r] = "sent" => r \in AtBroker'
    BY DEF MessagesMove, PipelineInv, PublishInv
  <2>3. publish'[r] \in {"waiting", "sent", "kafka"} => AboutAnOrder(r)'
    BY <1>1 DEF MessagesMove, PipelineInv, PublishInv
  <2>4. pc'[r] \in {"publish", "emit"} => payload'[r] = EventOf(r)'
    BY PublishesOneEvent DEF PipelineInv, PublishInv, Inv
  <2>5. \A q \in behind'[r] : pc'[q] = "done"
    BY DoneStays DEF PipelineInv, PublishInv, PipelineTypes, Inv
  <2>. QED  BY <2>1, <2>2, <2>3, <2>4, <2>5
<1>5. MessagesAreAboutOrders'
  BY <1>1, <1>3 DEF MessagesMove, PipelineInv, PublishInv, MessagesAreAboutOrders
<1>6. AcceptedIsHeld'
  <2>. USE DEF PipelineInv, AcceptedIsHeld
  <2>1. queue \in Seq(Event) /\ topic \in Seq(Event)
    BY DEF Inv, TypeOK
  <2>2. ASSUME NEW k \in DOMAIN queue'
        PROVE  \E r \in Requests : r \in AtBroker' /\ payload'[r] = queue'[k]
    <3>1. CASE k \in DOMAIN queue /\ queue'[k] = queue[k]
      BY <3>1 DEF MessagesMove
    <3>2. CASE \E r \in Requests : publish[r] = "sent" /\ pc[r] = "publish" /\ queue'[k] = EventOf(r)
      BY <3>2 DEF MessagesMove, PublishInv
    <3>. QED  BY <2>1, <2>2, <3>1, <3>2 DEF Accepts
  <2>3. ASSUME NEW k \in DOMAIN topic'
        PROVE  \E r \in Requests : InLog(r)' /\ payload'[r] = topic'[k]
    <3>1. CASE k \in DOMAIN topic /\ topic'[k] = topic[k]
      BY <1>2, <3>1
    <3>2. CASE \E r \in Requests : pc[r] = "emit" /\ InLog(r)' /\ topic'[k] = EventOf(r)
      BY <3>2 DEF PublishInv
    <3>3. CASE UNCHANGED topic
      BY <2>3, <3>1, <3>3
    <3>4. ASSUME NEW r \in Requests, pc[r] = "emit", InLog(r)', topic' = Append(topic, EventOf(r))
          PROVE  (k \in DOMAIN topic /\ topic'[k] = topic[k]) \/ topic'[k] = EventOf(r)
      BY <2>1, <2>3, <3>4
    <3>. QED  BY <3>1, <3>2, <3>3, <3>4 DEF Accepts
  <2>. QED  BY <2>2, <2>3
<1>7. LogFollowsAnswers'
  <2>. SUFFICES ASSUME NEW p \in Partitions, NEW i \in DOMAIN log'[p], NEW j \in DOMAIN log'[p],
                       i < j, log'[p][i] \in Requests
                PROVE  log'[p][j] \notin behind[log'[p][i]]
    BY DEF LogFollowsAnswers
  <2>1. CASE j \in DOMAIN log[p]
    <3>1. log[p] \in Seq(Messages) /\ log'[p] \in Seq(Messages)
      BY DEF PipelineInv, PipelineTypes
    <3>2. i \in DOMAIN log[p]
      BY <2>1, <3>1
    <3>3. log'[p][i] = log[p][i] /\ log'[p][j] = log[p][j]
      BY <2>1, <3>2 DEF LogGrows
    <3>. QED  BY <2>1, <3>2, <3>3 DEF PipelineInv, LogFollowsAnswers
  <2>2. CASE j \notin DOMAIN log[p]
    <3>1. log'[p][j] \in Foreign \/ pc[log'[p][j]] = "emit"
      BY <2>2 DEF LogGrows
    <3>2. behind[log'[p][i]] \subseteq Requests /\ \A q \in behind[log'[p][i]] : pc[q] = "done"
      BY DEF PipelineInv, PublishInv, PipelineTypes
    <3>. QED  BY <3>1, <3>2, PipelineConstants
  <2>. QED  BY <2>1, <2>2
<1>. QED  BY <1>4, <1>5, <1>6, <1>7 DEF PipelineInv

\* Messages go nowhere in steps that are not about them.
LEMMA StandStill ==
  ASSUME PipelineInv, UNCHANGED <<brokerVars, payload, behind>>
  PROVE  PipelineTypes' /\ MessagesMove /\ LogGrows
<1>1. UNCHANGED <<publish, ordersQueue, unacked, worked, dlq, log>>
  BY DEF brokerVars
<1>. QED  BY <1>1 DEF PipelineInv, PipelineTypes, MessagesMove, LogGrows, AtBroker, Event

LEMMA StutterKeeps == PipelineInv /\ UNCHANGED pipelineVars => PipelineInv'
<1>. SUFFICES ASSUME PipelineInv, UNCHANGED pipelineVars  PROVE PipelineInv'
  OBVIOUS
<1>1. UNCHANGED <<brokerVars, payload, behind, vars>>
  BY DEF pipelineVars
<1>2. UNCHANGED <<publish, ordersQueue, unacked, worked, dlq, log>>
  BY <1>1 DEF brokerVars
<1>3. UNCHANGED <<orders, queue, topic, pc, target, want>>
  BY <1>1 DEF vars, tables, brokers, local
<1>. QED
  BY <1>1, <1>2, <1>3 DEF PipelineInv, PipelineTypes, PublishInv, MessagesAreAboutOrders,
     AcceptedIsHeld, LogFollowsAnswers, AtBroker, InLog, AboutAnOrder, EventOf, Event

\* A step of a handler that publishes nothing changes nothing at the brokers.
LEMMA HandlerKeeps ==
  ASSUME Inv, Inv', PipelineInv, NEW r \in Requests, HandlerStep(r)
  PROVE  PipelineInv'
<1>1. UNCHANGED <<brokerVars, payload, behind>>
  BY DEF HandlerStep
<1>2. SavesNothing
  <2>1. pc \in [Requests -> Steps]
    BY DEF Inv, TypeOK
  <2>2. \E s : s \notin {"publish", "emit"} /\ pc' = [pc EXCEPT ![r] = s]
    BY DEF HandlerStep, Begin, CreateStart, StatusStart, CancelStart, UpdateStart,
       RemoveStart, CreateRead, CreateReject, FreightFails, CancelSave, CreditRead, Load, Update,
       Goto, Finish
  <2>. QED  BY <2>1, <2>2 DEF SavesNothing, InsertOrder, StatusSave, Goto
<1>3. UNCHANGED brokers
  BY DEF HandlerStep, Begin, CreateStart, StatusStart, CancelStart, UpdateStart,
     RemoveStart, CreateRead, CreateReject, FreightFails, CancelSave, CreditRead, Load, Update
<1>4. Accepts
  BY <1>3 DEF brokers, Accepts
<1>5. [Next]_vars
  BY DEF HandlerStep, Begin, Next, CallStep
<1>. QED  BY <1>1, <1>2, <1>4, <1>5, StandStill, MovesKeep

\* A save: nothing of the request is at the brokers yet, and its order is in the table.
LEMMA SaveKeeps ==
  ASSUME Inv, Inv', PipelineInv, NEW r \in Requests, Save(r)
  PROVE  PipelineInv'
<1>1. [Next]_vars
  BY DEF Save, Next, CallStep
<1>2. /\ publish \in [Messages -> {"idle", "waiting", "sent", "kafka", "done", "lost"}]
      /\ log \in [Partitions -> Seq(Messages)]
      /\ payload \in [Requests -> Event \cup {Blank}] /\ behind \in [Requests -> SUBSET Requests]
  BY DEF PipelineInv, PipelineTypes
<1>3. /\ publish[r] = "idle" /\ \E s \in {"waiting", "kafka"} : publish' = [publish EXCEPT ![r] = s]
      /\ UNCHANGED <<ordersQueue, unacked, worked, dlq, log>>
  BY DEF Save, Events!OrderCommitted, Events!PublishAt, Events!rabbitVars, Events!kafkaVars
<1>4. /\ payload' = [payload EXCEPT ![r] = EventOf(r)]
      /\ behind' = [behind EXCEPT ![r] = {q \in Requests : pc[q] = "done"}]
  BY DEF Save
<1>5. /\ UNCHANGED <<queue, topic, target, want>>
      /\ \E s \in {"publish", "emit"} : pc' = [pc EXCEPT ![r] = s]
  BY DEF Save, InsertOrder, StatusSave, brokers, local, Goto
<1>6. /\ pc \in [Requests -> Steps] /\ target \in [Requests -> Requests] /\ want \in [Requests -> Status]
      /\ pc[r] \in {"checkout", "save"}
  BY DEF Inv, TypeOK, Save, InsertOrder, StatusSave
<1>7. EventOf(r) \in Event /\ \A q \in Requests : EventOf(q)' = EventOf(q)
  BY <1>5, <1>6 DEF EventOf, Event
<1>8. PipelineTypes'
  BY <1>2, <1>3, <1>4, <1>7 DEF PipelineTypes, Messages
<1>9. r \notin AtBroker /\ ~InLog(r) /\ AtBroker' = AtBroker /\ \A q \in Requests : InLog(q)' = InLog(q)
  BY <1>3 DEF PipelineInv, PublishInv, AtBroker, InLog
<1>10. \A q \in Requests : q # r =>
          /\ payload'[q] = payload[q] /\ publish'[q] = publish[q] /\ pc'[q] = pc[q]
          /\ behind'[q] = behind[q]
  BY <1>2, <1>3, <1>4, <1>5, <1>6 DEF Messages
<1>11. AboutAnOrder(r)'
  <2>1. pc'[r] \in {"publish", "emit"}
    BY <1>5, <1>6
  <2>2. orders'[target'[r]] # NoOrder
    BY <2>1 DEF Inv, ControlOK, CallOK
  <2>. QED  BY <2>2, <1>2, <1>4, <1>5, <1>6 DEF AboutAnOrder, EventOf
<1>12. \A q \in Requests : AboutAnOrder(q) => AboutAnOrder(q)'
  BY <1>1, <1>10, <1>11, OrdersStay DEF AboutAnOrder, Committed
<1>13. PublishInv'
  <2>. SUFFICES ASSUME NEW q \in Requests
                PROVE  /\ publish'[q] = "idle" => q \notin AtBroker' /\ ~InLog(q)'
                       /\ publish'[q] = "sent" => q \in AtBroker'
                       /\ publish'[q] \in {"waiting", "sent", "kafka"} => AboutAnOrder(q)'
                       /\ pc'[q] \in {"publish", "emit"} => payload'[q] = EventOf(q)'
                       /\ \A d \in behind'[q] : pc'[d] = "done"
    BY DEF PublishInv
  <2>1. CASE q = r
    <3>1. publish'[r] \notin {"idle", "sent"}
      BY <1>2, <1>3 DEF Messages
    <3>2. payload'[r] = EventOf(r)'
      BY <1>2, <1>4, <1>7
    <3>3. \A d \in behind'[r] : pc'[d] = "done"
      BY <1>2, <1>4, <1>5, <1>6
    <3>. QED  BY <2>1, <3>1, <3>2, <3>3, <1>11
  <2>2. CASE q # r
    <3>1. \A d \in behind[q] : pc'[d] = "done"
      BY <1>1, <1>2, DoneStays DEF PipelineInv, PublishInv, Inv
    <3>. QED  BY <2>2, <3>1, <1>7, <1>9, <1>10, <1>12 DEF PipelineInv, PublishInv
  <2>. QED  BY <2>1, <2>2
<1>14. MessagesAreAboutOrders'
  BY <1>9, <1>12 DEF PipelineInv, MessagesAreAboutOrders
<1>15. AcceptedIsHeld'
  <2>1. \A k \in DOMAIN queue : \E q \in Requests : q \in AtBroker' /\ payload'[q] = queue[k]
    BY <1>9, <1>10 DEF PipelineInv, AcceptedIsHeld
  <2>2. \A k \in DOMAIN topic : \E q \in Requests : InLog(q)' /\ payload'[q] = topic[k]
    BY <1>9, <1>10 DEF PipelineInv, AcceptedIsHeld
  <2>. QED  BY <2>1, <2>2, <1>5 DEF AcceptedIsHeld
<1>16. LogFollowsAnswers'
  <2>. SUFFICES ASSUME NEW p \in Partitions, NEW i \in DOMAIN log[p], NEW j \in DOMAIN log[p],
                       i < j, log[p][i] \in Requests
                PROVE  log[p][j] \notin behind'[log[p][i]]
    BY <1>3 DEF LogFollowsAnswers
  <2>1. log[p][i] # r
    BY <1>9 DEF InLog
  <2>. QED  BY <2>1, <1>10 DEF PipelineInv, LogFollowsAnswers
<1>. QED  BY <1>8, <1>13, <1>14, <1>15, <1>16 DEF PipelineInv

\* What a step of the brokers says about messages, when nothing is emitted.
LEMMA LogStands ==
  ASSUME PipelineTypes, UNCHANGED log
  PROVE  LogGrows
  BY DEF LogGrows

\* The handler learns what became of a publish.
LEMMA PublishedKeeps ==
  ASSUME Inv, Inv', PipelineInv, NEW r \in Requests, Published(r)
  PROVE  PipelineInv'
<1>1. [Next]_vars /\ UNCHANGED <<payload, behind>>
  BY DEF Published, Next, CallStep
<1>2. PipelineTypes /\ AtBroker = AtBroker
  BY DEF PipelineInv
<1>3. pc \in [Requests -> Steps] /\ target \in [Requests -> Requests] /\ want \in [Requests -> Status]
  BY DEF Inv, TypeOK
<1>4. SavesNothing
  <2>1. pc[r] \in {"publish", "emit"} /\ \E s : pc' = [pc EXCEPT ![r] = s]
    BY DEF Published, PublishRabbit, PublishFails, EmitKafka, EmitFails, Goto, Finish
  <2>. QED  BY <2>1, <1>3 DEF SavesNothing, InsertOrder, StatusSave, Goto
<1>5. CASE PublishRabbit(r) /\ Events!Confirm(r)
  <2>1. /\ publish[r] = "sent" /\ \E s \in {"kafka", "done"} : publish' = [publish EXCEPT ![r] = s]
        /\ UNCHANGED <<ordersQueue, unacked, worked, dlq, log>>
    BY <1>5 DEF Events!Confirm, Events!PublishAt, Events!AfterRabbit, Events!kafkaVars
  <2>2. PipelineTypes' /\ MessagesMove
    BY <2>1, <1>1, <1>2 DEF PipelineTypes, MessagesMove, AtBroker, Messages, Event
  <2>3. Accepts
    BY <1>5, <2>1 DEF PublishRabbit, Accepts
  <2>. QED  BY <1>1, <1>2, <1>4, <2>1, <2>2, <2>3, LogStands, MovesKeep
<1>6. CASE PublishFails(r) /\ Events!Refuse(r)
  <2>1. /\ publish[r] = "waiting" /\ \E s \in {"kafka", "done"} : publish' = [publish EXCEPT ![r] = s]
        /\ UNCHANGED <<ordersQueue, unacked, worked, dlq, log>>
    BY <1>6 DEF Events!Refuse, Events!PublishAt, Events!AfterRabbit, Events!kafkaVars, Events!rabbitVars
  <2>2. PipelineTypes' /\ MessagesMove
    BY <2>1, <1>1, <1>2 DEF PipelineTypes, MessagesMove, AtBroker, Messages, Event
  <2>3. Accepts
    BY <1>6 DEF PublishFails, brokers, Accepts
  <2>. QED  BY <1>1, <1>2, <1>4, <2>1, <2>2, <2>3, LogStands, MovesKeep
<1>7. CASE EmitFails(r) /\ Events!EmitRejected(r)
  <2>1. /\ publish[r] = "kafka" /\ publish' = [publish EXCEPT ![r] = "done"]
        /\ UNCHANGED <<ordersQueue, unacked, worked, dlq, log>>
    BY <1>7 DEF Events!EmitRejected, Events!PublishAt, Events!kafkaVars, Events!rabbitVars
  <2>2. PipelineTypes' /\ MessagesMove
    BY <2>1, <1>1, <1>2 DEF PipelineTypes, MessagesMove, AtBroker, Messages, Event
  <2>3. Accepts
    BY <1>7 DEF EmitFails, brokers, Accepts
  <2>. QED  BY <1>1, <1>2, <1>4, <2>1, <2>2, <2>3, LogStands, MovesKeep
<1>8. CASE EmitKafka(r) /\ Events!Emit(r)
  <2>. DEFINE p == Partition[r]
  <2>1. /\ publish[r] = "kafka" /\ \E s \in {"waiting", "done"} : publish' = [publish EXCEPT ![r] = s]
        /\ UNCHANGED <<ordersQueue, unacked, worked, dlq>>
        /\ \E copies \in {<<r>>, <<r, r>>} : log' = [log EXCEPT ![p] = log[p] \o copies]
    BY <1>8 DEF Events!Emit, Events!PublishAt, Events!AfterKafka, Events!rabbitVars
  <2>2. p \in Partitions /\ log \in [Partitions -> Seq(Messages)] /\ r \in Messages
    BY <1>2, PipelineConstants DEF PipelineTypes, Messages
  <2>3. PICK copies \in {<<r>>, <<r, r>>} : log' = [log EXCEPT ![p] = log[p] \o copies]
    BY <2>1
  <2>4. log[p] \in Seq(Messages)
    BY <2>2
  <2>5. log[p] \in Seq(Messages) /\ log'[p] = log[p] \o copies
        /\ \A q \in Partitions : q # p => log'[q] = log[q]
    BY <2>2, <2>3
  <2>6. /\ \A i \in DOMAIN log[p] : i \in DOMAIN log'[p] /\ log'[p][i] = log[p][i]
        /\ \A i \in DOMAIN log'[p] : i \in DOMAIN log[p] \/ log'[p][i] = r
        /\ \E i \in DOMAIN log'[p] : log'[p][i] = r
        /\ log'[p] \in Seq(Messages)
    <3>. HIDE DEF p
    <3>. DEFINE s == log[p]  t == s \o copies
    <3>1. s \in Seq(Messages) /\ r \in Messages /\ copies \in {<<r>>, <<r, r>>}
      BY <2>2, <2>3, <2>4
    <3>. HIDE DEF s
    <3>2. /\ \A i \in DOMAIN s : i \in DOMAIN t /\ t[i] = s[i]
          /\ \A i \in DOMAIN t : i \in DOMAIN s \/ t[i] = r
          /\ \E i \in DOMAIN t : t[i] = r
          /\ t \in Seq(Messages)
      <4>1. CASE copies = <<r>>
        <5>1. Len(s) + 1 \in DOMAIN (s \o <<r>>) /\ (s \o <<r>>)[Len(s) + 1] = r
          BY <3>1
        <5>. QED  BY <3>1, <4>1, <5>1
      <4>2. CASE copies = <<r, r>>
        <5>1. Len(s) + 1 \in DOMAIN (s \o <<r, r>>) /\ (s \o <<r, r>>)[Len(s) + 1] = r
          BY <3>1
        <5>. QED  BY <3>1, <4>2, <5>1
      <4>. QED  BY <3>1, <4>1, <4>2
    <3>3. log'[p] = t
      BY <2>5 DEF s
    <3>. QED  BY <3>2, <3>3 DEF s
  <2>. HIDE DEF p
  <2>7. pc[r] = "emit"
    BY <1>8 DEF EmitKafka
  <2>8. LogGrows
    <3>. SUFFICES ASSUME NEW q \in Partitions
                  PROVE  /\ \A i \in DOMAIN log[q] : i \in DOMAIN log'[q] /\ log'[q][i] = log[q][i]
                         /\ \A i \in DOMAIN log'[q] :
                               \/ i \in DOMAIN log[q]
                               \/ log'[q][i] \in Foreign
                               \/ /\ log'[q][i] \in Requests
                                  /\ publish[log'[q][i]] = "kafka" /\ pc[log'[q][i]] = "emit"
      BY DEF LogGrows
    <3>. QED  BY <2>1, <2>5, <2>6, <2>7
  <2>9. PipelineTypes' /\ MessagesMove
    <3>1. log' \in [Partitions -> Seq(Messages)]
      BY <2>2, <2>3, <2>5, <2>6
    <3>. QED  BY <3>1, <2>1, <1>1, <1>2 DEF PipelineTypes, MessagesMove, AtBroker, Messages, Event
  <2>10. InLog(r)'
    BY <2>2, <2>6 DEF InLog
  <2>11. Accepts
    BY <1>8, <2>7, <2>10 DEF EmitKafka, Accepts
  <2>. QED  BY <1>1, <1>4, <2>8, <2>9, <2>11, MovesKeep
<1>. QED  BY <1>5, <1>6, <1>7, <1>8 DEF Published

\* The brokers, the consumers and the sockets move messages and lose none.
LEMMA BrokerMoves ==
  ASSUME PipelineTypes, BrokerStep
  PROVE  PipelineTypes' /\ MessagesMove /\ LogGrows
<1>1. UNCHANGED <<payload, behind>>
  BY DEF BrokerStep
<1>2. /\ publish \in [Messages -> {"idle", "waiting", "sent", "kafka", "done", "lost"}]
      /\ log \in [Partitions -> Seq(Messages)]
  BY DEF PipelineTypes
<1>3. CASE UNCHANGED <<publish, log>> /\ AtBroker' = AtBroker
  BY <1>1, <1>3 DEF PipelineTypes, MessagesMove, LogGrows, Event
<1>4. ASSUME NEW e \in Messages, Events!SendToBroker(e)
      PROVE  PipelineTypes' /\ MessagesMove /\ LogGrows
  <2>1. /\ publish[e] = "waiting" /\ publish' = [publish EXCEPT ![e] = "sent"]
        /\ ordersQueue' = ordersQueue \cup {e} /\ UNCHANGED <<unacked, worked, dlq, log>>
    BY <1>4 DEF Events!SendToBroker, Events!PublishAt, Events!kafkaVars
  <2>. QED  BY <1>1, <1>2, <2>1 DEF PipelineTypes, MessagesMove, LogGrows, AtBroker, Event, Messages
<1>5. ASSUME NEW e \in Messages, Events!ForeignMessage(e)
      PROVE  PipelineTypes' /\ MessagesMove /\ LogGrows
  <2>. DEFINE p == Partition[e]
  <2>1. /\ publish[e] = "idle" /\ publish' = [publish EXCEPT ![e] = "done"]
        /\ UNCHANGED <<ordersQueue, unacked, worked, dlq>>
        /\ e \in Foreign /\ log' = [log EXCEPT ![p] = Append(log[p], e)]
    BY <1>5, PipelineConstants DEF Events!ForeignMessage, Events!PublishAt, Events!rabbitVars
  <2>2. p \in Partitions
    BY PipelineConstants
  <2>. HIDE DEF p
  <2>3. log[p] \in Seq(Messages) /\ log'[p] = Append(log[p], e)
        /\ \A q \in Partitions : q # p => log'[q] = log[q]
    BY <1>2, <2>1, <2>2
  <2>4. /\ \A i \in DOMAIN log[p] : i \in DOMAIN log'[p] /\ log'[p][i] = log[p][i]
        /\ \A i \in DOMAIN log'[p] : i \in DOMAIN log[p] \/ log'[p][i] = e
        /\ log'[p] \in Seq(Messages)
    BY <2>3
  <2>5. LogGrows
    <3>. SUFFICES ASSUME NEW q \in Partitions
                  PROVE  /\ \A i \in DOMAIN log[q] : i \in DOMAIN log'[q] /\ log'[q][i] = log[q][i]
                         /\ \A i \in DOMAIN log'[q] :
                               i \in DOMAIN log[q] \/ log'[q][i] \in Foreign
      BY DEF LogGrows
    <3>. QED  BY <2>1, <2>3, <2>4
  <2>6. log' \in [Partitions -> Seq(Messages)]
    BY <1>2, <2>1, <2>2, <2>3, <2>4
  <2>. QED  BY <1>1, <1>2, <2>1, <2>5, <2>6 DEF PipelineTypes, MessagesMove, AtBroker, Event, Messages
<1>6. ASSUME NEW e \in Messages, Events!Expire(e) \/ Events!Deliver(e) \/ Events!Settle(e)
      PROVE  UNCHANGED <<publish, log>> /\ AtBroker' = AtBroker
  BY <1>6 DEF Events!Expire, Events!Deliver, Events!Settle, Events!kafkaVars, AtBroker
<1>7. CASE Events!Disconnect
  <2>1. /\ publish' = [e \in Messages |-> IF publish[e] = "sent" THEN "waiting" ELSE publish[e]]
        /\ UNCHANGED log /\ AtBroker' = AtBroker
    BY <1>7 DEF Events!Disconnect, Events!Resent, Events!Stored, Events!kafkaVars, AtBroker
  <2>. QED  BY <1>1, <1>2, <2>1 DEF PipelineTypes, MessagesMove, LogGrows, Event, Messages
<1>8. CASE Events!Reconnect \/ Events!ConsumeOrders \/ Events!JoinGroup \/ Events!ConsumerStaysOff
           \/ Events!SetNotificationDeps \/ Events!CommitOffsets \/ Events!Rebalance
           \/ (\E p \in Partitions : Events!EachMessage(p))
           \/ (\E s \in Sockets : Events!Connect(s) \/ Events!Leave(s))
  <2>1. UNCHANGED <<publish, ordersQueue, unacked, worked, dlq, log>>
    BY <1>8 DEF Events!Reconnect, Events!ConsumeOrders, Events!JoinGroup, Events!ConsumerStaysOff,
       Events!SetNotificationDeps, Events!CommitOffsets, Events!Rebalance, Events!EachMessage,
       Events!Connect, Events!Leave, Events!rabbitVars, Events!kafkaVars
  <2>. QED  BY <1>3, <2>1 DEF AtBroker
<1>. QED  BY <1>3, <1>4, <1>5, <1>6, <1>7, <1>8 DEF BrokerStep

LEMMA BrokerKeeps ==
  ASSUME Inv, Inv', PipelineInv, BrokerStep
  PROVE  PipelineInv'
<1>1. UNCHANGED vars /\ UNCHANGED <<payload, behind>>
  BY DEF BrokerStep
<1>2. SavesNothing
  BY <1>1 DEF vars, SavesNothing, InsertOrder, StatusSave, Goto, Inv, TypeOK
<1>3. Accepts
  BY <1>1 DEF vars, brokers, Accepts
<1>4. PipelineTypes' /\ MessagesMove /\ LogGrows
  BY BrokerMoves DEF PipelineInv
<1>. QED  BY <1>1, <1>2, <1>3, <1>4, MovesKeep

\* A restart forgets the requests and what they were publishing, and no message.
LEMMA RestartKeeps ==
  ASSUME Inv, Inv', PipelineInv, Restart
  PROVE  PipelineInv'
<1>1. [Next]_vars /\ UNCHANGED <<payload, behind>>
  BY DEF Restart, Next
<1>2. UNCHANGED brokers /\ \A r \in Requests : pc'[r] \notin {"publish", "emit"} \/ pc'[r] = pc[r]
  BY DEF Restart, Crash, vars
<1>3. SavesNothing
  BY <1>2 DEF SavesNothing, InsertOrder, StatusSave, Goto, Inv, TypeOK
<1>4. Accepts
  BY <1>2 DEF brokers, Accepts
<1>5. /\ publish' = [e \in Messages |-> IF publish[e] \in {"idle", "done"} THEN publish[e] ELSE "lost"]
      /\ UNCHANGED log /\ AtBroker' = AtBroker
  BY DEF Restart, Events!RestartServer, AtBroker
<1>6. PipelineTypes' /\ MessagesMove /\ LogGrows
  BY <1>1, <1>5 DEF PipelineInv, PipelineTypes, MessagesMove, LogGrows, Event, Messages
<1>. QED  BY <1>1, <1>3, <1>4, <1>6, MovesKeep

LEMMA PipelineInvInit == PipelineInit => PipelineInv
<1>. SUFFICES ASSUME PipelineInit  PROVE PipelineInv
  OBVIOUS
<1>1. /\ publish = [e \in Messages |-> "idle"] /\ log = [p \in Partitions |-> <<>>]
      /\ AtBroker = {} /\ queue = <<>> /\ topic = <<>> /\ pc = [r \in Requests |-> "idle"]
      /\ payload = [r \in Requests |-> Blank] /\ behind = [r \in Requests |-> {}]
  <2>1. \E round \in {Messages} : publish = [e \in Messages |-> IF e \in round THEN "idle" ELSE "done"]
    BY DEF PipelineInit, Events!EventInit
  <2>2. publish = [e \in Messages |-> "idle"]
    BY <2>1
  <2>. QED  BY <2>2 DEF PipelineInit, Init, Events!EventInit, AtBroker
<1>2. \A r \in Requests : ~InLog(r)
  BY <1>1 DEF InLog
<1>3. publish \in [Messages -> {"idle"}] /\ \A r \in Requests : publish[r] = "idle"
  BY <1>1 DEF Messages
<1>4. PipelineTypes
  BY <1>1, <1>3 DEF PipelineTypes, Event
<1>5. PublishInv
  BY <1>1, <1>2, <1>3 DEF PublishInv
<1>6. MessagesAreAboutOrders /\ AcceptedIsHeld /\ LogFollowsAnswers
  BY <1>1, <1>2 DEF MessagesAreAboutOrders, AcceptedIsHeld, LogFollowsAnswers
<1>. QED  BY <1>4, <1>5, <1>6 DEF PipelineInv

LEMMA PipelineInvNext ==
  Inv /\ PipelineInv /\ [PipelineNext]_pipelineVars => (Inv /\ PipelineInv)'
<1>. SUFFICES ASSUME Inv, PipelineInv, [PipelineNext]_pipelineVars  PROVE Inv' /\ PipelineInv'
  OBVIOUS
<1>1. Inv'
  BY PipelineStepsNest, NextInv
<1>2. CASE \E r \in Requests : HandlerStep(r)
  BY <1>1, <1>2, HandlerKeeps
<1>3. CASE \E r \in Requests : Save(r)
  BY <1>1, <1>3, SaveKeeps
<1>4. CASE \E r \in Requests : Published(r)
  BY <1>1, <1>4, PublishedKeeps
<1>5. CASE BrokerStep
  BY <1>1, <1>5, BrokerKeeps
<1>6. CASE Restart
  BY <1>1, <1>6, RestartKeeps
<1>7. CASE UNCHANGED pipelineVars
  BY <1>1, <1>7, StutterKeeps
<1>. QED  BY <1>1, <1>2, <1>3, <1>4, <1>5, <1>6, <1>7 DEF PipelineNext

LEMMA PipelineHolds == PipelineSpec => [](Inv /\ PipelineInv)
<1>1. PipelineInit => Inv /\ PipelineInv
  BY InitInv, PipelineInvInit DEF PipelineInit
<1>. QED  BY <1>1, PipelineInvNext, PTL DEF PipelineSpec

(* Whatever fails between the table, RabbitMQ and Kafka, a worker or a         *)
(* notification that looks up the order of a message finds it.              *)
THEOREM MessagesHaveTheirOrder == PipelineSpec => []MessagesAreAboutOrders
<1>1. Inv /\ PipelineInv => MessagesAreAboutOrders
  BY DEF PipelineInv
<1>. QED  BY <1>1, PipelineHolds, PTL

(* What publishOrder or emit has told a handler to be accepted is held, with the *)
(* order and the status the handler meant, whatever breaks or restarts later.    *)
THEOREM AcceptedStaysHeld == PipelineSpec => []AcceptedIsHeld
<1>1. Inv /\ PipelineInv => AcceptedIsHeld
  BY DEF PipelineInv
<1>. QED  BY <1>1, PipelineHolds, PTL

(* A request that saves when another has been answered or has died comes after   *)
(* it in the topic, for any number of requests, copies and restarts.            *)
THEOREM TopicFollowsAnswers == PipelineSpec => []LogFollowsAnswers
<1>1. Inv /\ PipelineInv => LogFollowsAnswers
  BY DEF PipelineInv
<1>. QED  BY <1>1, PipelineHolds, PTL
=============================================================================
