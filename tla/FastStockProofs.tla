--------------------------- MODULE FastStockProofs ---------------------------
(***************************************************************************)
(* Theorems about FastStock, for any calls, products and quantities.         *)
(*                                                                         *)
(* NoShortageIsSilent: no consumption commits a shortage without its alert.    *)
(* StockTypes: no interleaving leaves a column negative.                      *)
(* ReservedStaysWithinQuantity: when reservations fit the quantities.          *)
(* NothingReservedUnpromised: overlapping calls reserve nothing unpromised.     *)
(* SerialReservationsExact: one call at a time, the sums agree.               *)
(*                                                                         *)
(* NoSilentShortage speaks of committed quantities.  ShortageInv adds that a  *)
(* quantity flushed and not committed yet has been alerted too, that only a   *)
(* consumption flushes one, and that nobody deletes a row while it is locked.  *)
(***************************************************************************)
EXTENDS FastStock, SumTheorems

Unposted == {"order", "reserve", "consume", "delete", "unorder"}
Reserving == {"order", "reserve"}
Ids == Requests \cup {"seed", "none"}
AnyRow == [id : Ids, quantity : Int, reserved : Int]

SessionsTyped ==
    /\ db \in [Products -> AnyRow] /\ alerts \subseteq Products
    /\ pc \in [Requests -> {"idle", "read", "flush", "commit", "done"}]
    /\ op \in [Requests -> Reserving \cup {"consume", "none"}]
    /\ items \in [Requests -> Seq(Item)] /\ at \in [Requests -> Nat]
    /\ mem \in [Requests -> [Products -> AnyRow]] /\ base \in [Requests -> [Products -> AnyRow]]
    /\ written \in [Requests -> [Products -> SUBSET Columns]]

(* A session works on one of its items; a consumption has a single one, and    *)
(* updates nothing before its flush.                                       *)
SessionsPlaced ==
    \A r \in Requests :
       /\ InFlight(r) => op[r] # "none" /\ at[r] \in 1..Len(items[r])
       /\ ~InFlight(r) => /\ at[r] = 1 /\ written[r] = NoColumns
                          /\ mem[r] = NoRows /\ base[r] = NoRows
       /\ op[r] = "consume" =>
             /\ Len(items[r]) = 1
             /\ pc[r] # "commit" => written[r] = NoColumns
       /\ pc[r] = "flush" => mem[r][Product(r)].id = "seed"

(* Reservations leave quantities alone. *)
ReservedOnly ==
    \A r \in Requests, p \in Products :
       op[r] \in Reserving =>
          "quantity" \notin written[r][p] /\ mem[r][p].quantity = base[r][p].quantity

(* A quantity that was flushed and is below the minimum has been alerted. *)
FlushedAlerted ==
    \A r \in Requests, p \in Products :
       "quantity" \in written[r][p] /\ mem[r][p].quantity < Minimum[p] => p \in alerts

(* Every row is one of the start, and a row with a lock on it exists. *)
RowsKept ==
    \A p \in Products : /\ db[p] # Absent => db[p].id = "seed"
                        /\ Holders(p) # {} => db[p].id = "seed"

ShortageInv ==
    /\ SessionsTyped /\ SessionsPlaced /\ ReservedOnly /\ FlushedAlerted /\ RowsKept
    /\ NoSilentShortage

---------------------------------------------------------------------------
(* The item a session works on has a product. *)
LEMMA WorksOnProduct ==
  ASSUME ShortageInv, NEW r \in Requests, InFlight(r)
  PROVE  Current(r) \in Item /\ Product(r) \in Products /\ Current(r).qty \in Nat
  <1>1. items[r] \in Seq(Item) /\ at[r] \in 1..Len(items[r])
    BY DEF ShortageInv, SessionsTyped, SessionsPlaced
  <1>2. Current(r) \in Item  BY <1>1 DEF Current
  <1> QED  BY <1>2, StockConstants DEF Product, Item

(* What a session sees of a row is the row with what it has updated. *)
LEMMA MergeRow ==
  ASSUME NEW row \in AnyRow, NEW e \in AnyRow, NEW cols \in SUBSET Columns
  PROVE  /\ Merge(row, e, cols) \in AnyRow /\ Merge(row, e, cols).id = row.id
         /\ Merge(row, e, cols).quantity = IF "quantity" \in cols THEN e.quantity ELSE row.quantity
         /\ cols = {} => Merge(row, e, cols) = row
  BY DEF Merge, AnyRow

LEMMA RowShapes == Absent \in AnyRow /\ SeedRow \in AnyRow /\ Absent.id # "seed"
  BY StockConstants DEF Absent, SeedRow, AnyRow, Ids

(* A session that closes leaves the others as they are; the committed rows it   *)
(* leaves must be in order.                                                *)
LEMMA CloseKeeps ==
  ASSUME ShortageInv, NEW r \in Requests, Close(r), alerts' = alerts,
         db' \in [Products -> AnyRow],
         \A p \in Products :
            /\ db'[p] # Absent => db'[p].id = "seed" /\ (db'[p].quantity < Minimum[p] => p \in alerts)
            /\ Holders(p) \ {r} # {} => db'[p].id = "seed"
  PROVE  ShortageInv'
  <1> USE DEF ShortageInv
  <1>1. /\ pc' = [pc EXCEPT ![r] = "done"] /\ op' = [op EXCEPT ![r] = "none"]
        /\ items' = [items EXCEPT ![r] = <<>>] /\ at' = [at EXCEPT ![r] = 1]
        /\ mem' = [mem EXCEPT ![r] = NoRows] /\ base' = [base EXCEPT ![r] = NoRows]
        /\ written' = [written EXCEPT ![r] = NoColumns]
    BY DEF Close, Goto
  <1>2. NoRows \in [Products -> AnyRow] /\ NoColumns \in [Products -> SUBSET Columns]
    BY RowShapes DEF NoRows, NoColumns
  <1>3. SessionsTyped'
    BY <1>1, <1>2 DEF SessionsTyped
  <1>4. \A q \in Requests \ {r} :
           /\ pc'[q] = pc[q] /\ op'[q] = op[q] /\ items'[q] = items[q] /\ at'[q] = at[q]
           /\ mem'[q] = mem[q] /\ base'[q] = base[q] /\ written'[q] = written[q]
    BY <1>1
  <1>5. /\ pc'[r] = "done" /\ op'[r] = "none" /\ at'[r] = 1 /\ written'[r] = NoColumns
        /\ mem'[r] = NoRows /\ base'[r] = NoRows
    BY <1>1 DEF SessionsTyped
  <1>6. SessionsPlaced'
    BY <1>4, <1>5 DEF SessionsPlaced, InFlight, Product, Current
  <1>7. ReservedOnly'  BY <1>4, <1>5 DEF ReservedOnly, Reserving
  <1>8. FlushedAlerted'  BY <1>4, <1>5 DEF FlushedAlerted, NoColumns
  <1>9. \A p \in Products : Holders(p)' = Holders(p) \ {r}
    BY <1>4, <1>5 DEF Holders, NoColumns
  <1>10. RowsKept'  BY <1>9 DEF RowsKept
  <1>11. NoSilentShortage'  BY DEF NoSilentShortage
  <1> QED  BY <1>3, <1>6, <1>7, <1>8, <1>10, <1>11

(* A refusal, an error, an abort or the end of delete_order: no row changes. *)
LEMMA AbortKeeps ==
  ASSUME ShortageInv, NEW r \in Requests, Close(r), UNCHANGED <<db, alerts>>
  PROVE  ShortageInv'
  <1>1. db' \in [Products -> AnyRow]  BY DEF ShortageInv, SessionsTyped
  <1>2. \A p \in Products :
           /\ db'[p] # Absent => db'[p].id = "seed" /\ (db'[p].quantity < Minimum[p] => p \in alerts)
           /\ Holders(p) \ {r} # {} => db'[p].id = "seed"
    BY DEF ShortageInv, RowsKept, NoSilentShortage
  <1> QED  BY <1>1, <1>2, CloseKeeps

LEMMA DeleteStockKeeps ==
  ASSUME ShortageInv, NEW r \in Requests, DeleteStock(r)
  PROVE  ShortageInv'
  <1>1. PICK p \in Products : Holders(p) = {} /\ db' = [db EXCEPT ![p] = Absent]
    BY DEF DeleteStock
  <1>2. Close(r) /\ alerts' = alerts  BY DEF DeleteStock
  <1>3. db' \in [Products -> AnyRow]  BY <1>1, RowShapes DEF ShortageInv, SessionsTyped
  <1>4. \A q \in Products :
           /\ db'[q] # Absent => db'[q].id = "seed" /\ (db'[q].quantity < Minimum[q] => q \in alerts)
           /\ Holders(q) \ {r} # {} => db'[q].id = "seed"
    BY <1>1 DEF ShortageInv, SessionsTyped, RowsKept, NoSilentShortage
  <1> QED  BY <1>2, <1>3, <1>4, CloseKeeps

(* What becomes visible is what was committed before, and what r has flushed. *)
LEMMA CommitKeeps ==
  ASSUME ShortageInv, NEW r \in Requests, Commit(r)
  PROVE  ShortageInv'
  <1> USE DEF ShortageInv
  <1>1. op[r] # "put"  BY DEF SessionsTyped, Reserving
  <1>2. Close(r) /\ alerts' = alerts /\ db' = [p \in Products |-> Seen(r, p)]
    BY <1>1 DEF Commit
  <1>3. ASSUME NEW p \in Products
        PROVE  /\ db'[p] \in AnyRow
               /\ db'[p] # Absent => db'[p].id = "seed" /\ (db'[p].quantity < Minimum[p] => p \in alerts)
               /\ Holders(p) \ {r} # {} => db'[p].id = "seed"
    <2> DEFINE cols == written[r][p]
    <2>1. db[p] \in AnyRow /\ mem[r][p] \in AnyRow /\ cols \in SUBSET Columns
      BY DEF SessionsTyped
    <2>2. /\ db'[p] \in AnyRow /\ db'[p].id = db[p].id
          /\ db'[p].quantity = IF "quantity" \in cols THEN mem[r][p].quantity ELSE db[p].quantity
          /\ cols = {} => db'[p] = db[p]
      BY <1>2, <2>1, MergeRow DEF Seen
    <2>3. cols # {} => db[p].id = "seed" /\ db[p] # Absent
      BY RowShapes DEF RowsKept, Holders
    <2>4. "quantity" \in cols /\ mem[r][p].quantity < Minimum[p] => p \in alerts
      BY DEF FlushedAlerted
    <2>5. db[p] # Absent => db[p].id = "seed" /\ (db[p].quantity < Minimum[p] => p \in alerts)
      BY DEF RowsKept, NoSilentShortage
    <2>6. Holders(p) \ {r} # {} => db[p].id = "seed"  BY DEF RowsKept
    <2> HIDE DEF cols
    <2> QED  BY <2>2, <2>3, <2>4, <2>5, <2>6
  <1>4. db' \in [Products -> AnyRow]  BY <1>2, <1>3
  <1> QED  BY <1>2, <1>3, <1>4, CloseKeeps

LEMMA StartKeeps ==
  ASSUME ShortageInv, NEW r \in Requests, NEW o \in Reserving \cup {"consume"}, NEW cart \in Seq(Item),
         Len(cart) >= 1, o = "consume" => Len(cart) = 1, Start(r, o, cart)
  PROVE  ShortageInv'
  <1> USE DEF ShortageInv
  <1>1. /\ pc[r] = "idle" /\ pc' = [pc EXCEPT ![r] = "read"] /\ op' = [op EXCEPT ![r] = o]
        /\ items' = [items EXCEPT ![r] = cart]
        /\ UNCHANGED <<db, alerts, at, mem, base, written>>
    BY DEF Start, CanStart, Goto, shared
  <1>2. SessionsTyped'  BY <1>1 DEF SessionsTyped, Reserving
  <1>3. /\ at[r] = 1 /\ written[r] = NoColumns /\ mem[r] = NoRows /\ base[r] = NoRows
    BY <1>1 DEF SessionsPlaced, InFlight
  <1>4. /\ pc'[r] = "read" /\ op'[r] = o /\ items'[r] = cart
        /\ \A q \in Requests \ {r} : pc'[q] = pc[q] /\ op'[q] = op[q] /\ items'[q] = items[q]
    BY <1>1 DEF SessionsTyped
  <1>5. SessionsPlaced'
    <2>1. 1 \in 1..Len(cart) /\ o # "none"  BY DEF Reserving
    <2> QED  BY <1>1, <1>3, <1>4, <2>1 DEF SessionsPlaced, InFlight, Product, Current
  <1>6. ReservedOnly'
    BY <1>1, <1>3, <1>4 DEF ReservedOnly, NoColumns
  <1>7. FlushedAlerted' /\ RowsKept' /\ NoSilentShortage'
    BY <1>1 DEF FlushedAlerted, RowsKept, Holders, NoSilentShortage
  <1> QED  BY <1>2, <1>5, <1>6, <1>7

(* A session that has read a row and changed its entity: nothing is flushed. *)
LEMMA AssignKeeps ==
  ASSUME ShortageInv, NEW r \in Requests, NEW e \in AnyRow, NEW n \in AnyRow,
         pc[r] = "read", pc' = [pc EXCEPT ![r] = "flush"], Assign(r, Product(r), e, n),
         UNCHANGED <<db, alerts, op, items, at, written>>,
         n.id = "seed",
         op[r] \in Reserving => n.quantity = e.quantity
  PROVE  ShortageInv'
  <1> USE DEF ShortageInv
  <1> DEFINE p == Product(r)
  <1>1. p \in Products  BY WorksOnProduct DEF InFlight
  <1>2. /\ mem' = [mem EXCEPT ![r][p] = n] /\ base' = [base EXCEPT ![r][p] = e]
    BY DEF Assign
  <1> HIDE DEF p
  <1>3. /\ mem' \in [Requests -> [Products -> AnyRow]] /\ base' \in [Requests -> [Products -> AnyRow]]
        /\ mem'[r][p] = n /\ base'[r][p] = e
        /\ \A q \in Requests, k \in Products : q # r \/ k # p =>
               mem'[q][k] = mem[q][k] /\ base'[q][k] = base[q][k]
        /\ \A q \in Requests \ {r} : mem'[q] = mem[q] /\ base'[q] = base[q] /\ pc'[q] = pc[q]
        /\ pc'[r] = "flush"
    BY <1>1, <1>2 DEF SessionsTyped
  <1>4. SessionsTyped'  BY <1>3 DEF SessionsTyped
  <1>5. SessionsPlaced'
    <2>1. \A q \in Requests : Product(q)' = Product(q)  BY DEF Product, Current
    <2> QED  BY <1>3, <2>1 DEF SessionsPlaced, InFlight, p
  <1>6. ReservedOnly'  BY <1>3 DEF ReservedOnly
  <1>7. FlushedAlerted'
    <2>1. "quantity" \notin written[r][p]
      BY <1>1 DEF SessionsPlaced, SessionsTyped, ReservedOnly, NoColumns, InFlight
    <2> QED  BY <1>3, <2>1 DEF FlushedAlerted
  <1>8. RowsKept' /\ NoSilentShortage'  BY DEF RowsKept, Holders, NoSilentShortage
  <1> QED  BY <1>4, <1>5, <1>6, <1>7, <1>8

LEMMA ReserveReadKeeps ==
  ASSUME ShortageInv, NEW r \in Requests, ReserveRead(r)
  PROVE  ShortageInv'
  <1> DEFINE p == Product(r)
  <1> DEFINE row == Seen(r, p)
  <1> DEFINE new == [row EXCEPT !.reserved = @ + Current(r).qty]
  <1>1. pc[r] = "read" /\ p \in Products /\ Current(r).qty \in Nat
    BY WorksOnProduct DEF ReserveRead, InFlight
  <1>2. row \in AnyRow /\ row.id = db[p].id
    BY <1>1, MergeRow DEF Seen, ShortageInv, SessionsTyped
  <1>3. db[p].id = "seed"  BY <1>1 DEF ReserveRead, ShortageInv, RowsKept
  <1>4. Assign(r, p, row, new)  BY DEF ReserveRead
  <1> HIDE DEF row
  <1>5. new \in AnyRow /\ new.id = row.id /\ new.quantity = row.quantity
    BY <1>1, <1>2 DEF AnyRow
  <1> HIDE DEF new
  <1>6. pc' = [pc EXCEPT ![r] = "flush"] /\ UNCHANGED <<db, alerts, op, items, at, written>>
    BY DEF ReserveRead, Goto, shared
  <1> QED  BY <1>1, <1>2, <1>3, <1>4, <1>5, <1>6, AssignKeeps

LEMMA ConsumeReadKeeps ==
  ASSUME ShortageInv, NEW r \in Requests, ConsumeRead(r)
  PROVE  ShortageInv'
  <1> DEFINE p == Product(r)
  <1> DEFINE row == db[p]
  <1> DEFINE qty == Current(r).qty
  <1> DEFINE new == [row EXCEPT !.quantity = @ - qty, !.reserved = AtLeastZero(@ - qty)]
  <1>1. pc[r] = "read" /\ op[r] = "consume" /\ p \in Products /\ qty \in Nat
    BY WorksOnProduct DEF ConsumeRead, InFlight
  <1>2. row \in AnyRow /\ row.quantity >= qty  BY <1>1 DEF ConsumeRead, ShortageInv, SessionsTyped
  <1>3. row.id = "seed"  BY <1>1, <1>2 DEF Absent, ShortageInv, RowsKept
  <1>4. Assign(r, p, row, new)  BY DEF ConsumeRead
  <1> HIDE DEF row, qty
  <1>5. new \in AnyRow /\ new.id = row.id
    <2> DEFINE reserved == AtLeastZero(row.reserved - qty)
    <2>1. qty \in Int /\ row.quantity \in Int /\ row.reserved \in Int  BY <1>1, <1>2 DEF AnyRow
    <2>2. row.quantity - qty \in Int  BY <2>1
    <2>3. reserved \in Int  BY <2>1 DEF AtLeastZero
    <2>4. new = [row EXCEPT !.quantity = row.quantity - qty, !.reserved = reserved]  OBVIOUS
    <2> HIDE DEF new, reserved
    <2> QED  BY <1>2, <2>2, <2>3, <2>4 DEF AnyRow
  <1> HIDE DEF new
  <1>6. pc' = [pc EXCEPT ![r] = "flush"] /\ UNCHANGED <<db, alerts, op, items, at, written>>
    BY DEF ConsumeRead, Goto, shared
  <1> QED  BY <1>1, <1>2, <1>3, <1>4, <1>5, <1>6, AssignKeeps DEF Reserving

(* A quantity reaches a row only through a consumption's flush, which alerts;   *)
(* the row is locked from then on, so it was not deleted and will not be.     *)
LEMMA FlushKeeps ==
  ASSUME ShortageInv, NEW r \in Requests, Flush(r)
  PROVE  ShortageInv'
  <1> USE DEF ShortageInv
  <1> DEFINE p == Product(r)
  <1> DEFINE cols == Dirty(r, p)
  <1> DEFINE step == IF IsLast(r) THEN "commit" ELSE "read"
  <1>1. pc[r] = "flush" /\ InFlight(r) /\ p \in Products
    BY WorksOnProduct DEF Flush, InFlight
  <1>2. /\ UNCHANGED <<db, op, items, mem>> /\ alerts \subseteq alerts' /\ alerts' \subseteq Products
        /\ op[r] = "consume" /\ mem[r][p].quantity < Minimum[p] => p \in alerts'
        /\ cols = {} \/ ~Gone(r, p)
        /\ written' = [written EXCEPT ![r][p] = @ \cup cols]
        /\ base' = [base EXCEPT ![r][p] = mem[r][p]]
        /\ at' = IF IsLast(r) THEN at ELSE [at EXCEPT ![r] = @ + 1]
        /\ pc' = [pc EXCEPT ![r] = step]
    BY <1>1 DEF Flush, Goto, SessionsTyped
  <1>3. cols \subseteq Columns /\ step \in {"read", "commit"}  BY DEF Dirty
  <1>4. op[r] \in Reserving => "quantity" \notin cols
    BY <1>1 DEF ReservedOnly, Dirty
  <1>5. op[r] \in Reserving \cup {"consume"}
    BY <1>1 DEF SessionsPlaced, SessionsTyped
  <1>6. cols # {} => db[p].id = "seed"  BY <1>1, <1>2 DEF Gone, SessionsPlaced
  <1>7. at[r] \in 1..Len(items[r]) /\ at[r] \in Nat /\ Len(items[r]) \in Nat
    BY <1>1 DEF SessionsPlaced, SessionsTyped
  <1>8. at' \in [Requests -> Nat] /\ at'[r] \in 1..Len(items[r])
    <2>1. CASE IsLast(r)  BY <2>1, <1>2, <1>7 DEF SessionsTyped
    <2>2. CASE ~IsLast(r)
      <3>1. at' = [at EXCEPT ![r] = at[r] + 1]  BY <2>2, <1>2
      <3>2. at[r] + 1 \in 1..Len(items[r])  BY <2>2, <1>7 DEF IsLast
      <3> QED  BY <3>1, <3>2 DEF SessionsTyped
    <2> QED  BY <2>1, <2>2
  <1>9. op[r] = "consume" => step = "commit"
    <2>1. op[r] = "consume" => Len(items[r]) = 1  BY DEF SessionsPlaced
    <2>2. ASSUME op[r] = "consume"  PROVE at[r] = Len(items[r])
      <3>1. Len(items[r]) = 1  BY <2>1, <2>2
      <3>2. 1 <= at[r] /\ at[r] <= 1  BY <3>1, <1>7
      <3> QED  BY <3>1, <3>2, <1>7
    <2> QED  BY <2>2 DEF IsLast
  <1> HIDE DEF p, cols, step
  <1>10. /\ written' \in [Requests -> [Products -> SUBSET Columns]]
         /\ base' \in [Requests -> [Products -> AnyRow]]
         /\ pc'[r] = step /\ written'[r][p] = written[r][p] \cup cols /\ base'[r][p] = mem[r][p]
         /\ \A q \in Requests, k \in Products : q # r \/ k # p =>
                written'[q][k] = written[q][k] /\ base'[q][k] = base[q][k]
         /\ \A q \in Requests \ {r} : /\ pc'[q] = pc[q] /\ at'[q] = at[q]
                                      /\ written'[q] = written[q] /\ base'[q] = base[q]
    BY <1>1, <1>2, <1>3 DEF SessionsTyped
  <1>11. SessionsTyped'
    BY <1>2, <1>3, <1>8, <1>10 DEF SessionsTyped
  <1>12. SessionsPlaced'
    <2>1. ASSUME NEW q \in Requests
          PROVE  /\ InFlight(q)' => op'[q] # "none" /\ at'[q] \in 1..Len(items'[q])
                 /\ ~InFlight(q)' => /\ at'[q] = 1 /\ written'[q] = NoColumns
                                     /\ mem'[q] = NoRows /\ base'[q] = NoRows
                 /\ op'[q] = "consume" =>
                       /\ Len(items'[q]) = 1
                       /\ pc'[q] # "commit" => written'[q] = NoColumns
                 /\ pc'[q] = "flush" => (mem[q][Product(q)].id = "seed" /\ Product(q)' = Product(q))
      <3>1. CASE q = r
        BY <3>1, <1>1, <1>2, <1>3, <1>8, <1>9, <1>10 DEF SessionsPlaced, InFlight
      <3>2. CASE q # r
        BY <3>2, <1>2, <1>10 DEF SessionsPlaced, InFlight, Product, Current
      <3> QED  BY <3>1, <3>2
    <2> QED  BY <2>1, <1>2 DEF SessionsPlaced
  <1>13. ReservedOnly'
    BY <1>2, <1>4, <1>10 DEF ReservedOnly
  <1>14. FlushedAlerted'
    <2>1. ASSUME NEW q \in Requests, NEW k \in Products, "quantity" \in written'[q][k],
                 mem[q][k].quantity < Minimum[k]
          PROVE  k \in alerts'
      <3>1. CASE "quantity" \in written[q][k]  BY <3>1, <2>1, <1>2 DEF FlushedAlerted
      <3>2. CASE "quantity" \notin written[q][k]
        <4>1. q = r /\ k = p /\ "quantity" \in cols  BY <3>2, <2>1, <1>10
        <4> QED  BY <4>1, <2>1, <1>2, <1>4, <1>5
      <3> QED  BY <3>1, <3>2
    <2> QED  BY <2>1, <1>2 DEF FlushedAlerted
  <1>15. RowsKept'
    <2>1. ASSUME NEW k \in Products, NEW q \in Requests, written'[q][k] # {}
          PROVE  db[k].id = "seed"
      <3>1. CASE written[q][k] # {}  BY <3>1 DEF RowsKept, Holders
      <3>2. CASE written[q][k] = {}
        <4>1. q = r /\ k = p /\ cols # {}  BY <3>2, <2>1, <1>10
        <4> QED  BY <4>1, <1>6
      <3> QED  BY <3>1, <3>2
    <2> QED  BY <2>1, <1>2 DEF RowsKept, Holders
  <1>16. NoSilentShortage'  BY <1>2 DEF NoSilentShortage
  <1> QED  BY <1>11, <1>12, <1>13, <1>14, <1>15, <1>16

LEMMA SkippedKeeps ==
  ASSUME ShortageInv, NEW r \in Requests, ReserveSkipped(r)
  PROVE  ShortageInv'
  <1> USE DEF ShortageInv
  <1> DEFINE step == IF IsLast(r) THEN "commit" ELSE "read"
  <1>1. /\ pc[r] = "read" /\ op[r] = "order" /\ InFlight(r)
        /\ UNCHANGED <<db, alerts, op, items, mem, base, written>>
        /\ at' = IF IsLast(r) THEN at ELSE [at EXCEPT ![r] = @ + 1]
        /\ pc' = [pc EXCEPT ![r] = step]
    BY DEF ReserveSkipped, Goto, shared, InFlight
  <1>2. step \in {"read", "commit"}  OBVIOUS
  <1>3. at[r] \in 1..Len(items[r]) /\ at[r] \in Nat /\ Len(items[r]) \in Nat
    BY <1>1 DEF SessionsPlaced, SessionsTyped
  <1>4. at' \in [Requests -> Nat] /\ at'[r] \in 1..Len(items[r])
    <2>1. CASE IsLast(r)  BY <2>1, <1>1, <1>3 DEF SessionsTyped
    <2>2. CASE ~IsLast(r)
      <3>1. at' = [at EXCEPT ![r] = at[r] + 1]  BY <2>2, <1>1
      <3>2. at[r] + 1 \in 1..Len(items[r])  BY <2>2, <1>3 DEF IsLast
      <3> QED  BY <3>1, <3>2 DEF SessionsTyped
    <2> QED  BY <2>1, <2>2
  <1> HIDE DEF step
  <1>5. pc'[r] = step /\ \A q \in Requests \ {r} : pc'[q] = pc[q] /\ at'[q] = at[q]
    BY <1>1 DEF SessionsTyped
  <1>6. SessionsTyped'  BY <1>1, <1>2, <1>4 DEF SessionsTyped
  <1>7. SessionsPlaced'
    <2>1. ASSUME NEW q \in Requests
          PROVE  /\ InFlight(q)' => op'[q] # "none" /\ at'[q] \in 1..Len(items'[q])
                 /\ ~InFlight(q)' => /\ at'[q] = 1 /\ written'[q] = NoColumns
                                     /\ mem'[q] = NoRows /\ base'[q] = NoRows
                 /\ op'[q] = "consume" =>
                       /\ Len(items'[q]) = 1
                       /\ pc'[q] # "commit" => written'[q] = NoColumns
                 /\ pc'[q] = "flush" => (mem[q][Product(q)].id = "seed" /\ Product(q)' = Product(q))
      <3>1. CASE q = r  BY <3>1, <1>1, <1>2, <1>4, <1>5 DEF InFlight
      <3>2. CASE q # r  BY <3>2, <1>1, <1>5 DEF SessionsPlaced, InFlight, Product, Current
      <3> QED  BY <3>1, <3>2
    <2> QED  BY <2>1, <1>1 DEF SessionsPlaced
  <1>8. ReservedOnly' /\ FlushedAlerted' /\ RowsKept' /\ NoSilentShortage'
    BY <1>1 DEF ReservedOnly, FlushedAlerted, RowsKept, Holders, NoSilentShortage
  <1> QED  BY <1>6, <1>7, <1>8

(* A crash closes every session, and its locks with it. *)
LEMMA CrashKeeps ==
  ASSUME ShortageInv, Crash
  PROVE  ShortageInv'
  <1> USE DEF ShortageInv
  <1>1. /\ UNCHANGED <<db, alerts>>
        /\ pc' = [r \in Requests |-> IF InFlight(r) THEN "done" ELSE pc[r]]
        /\ op' = [r \in Requests |-> "none"] /\ items' = [r \in Requests |-> <<>>]
        /\ at' = [r \in Requests |-> 1]
        /\ mem' = [r \in Requests |-> NoRows] /\ base' = [r \in Requests |-> NoRows]
        /\ written' = [r \in Requests |-> NoColumns]
    BY DEF Crash, shared
  <1>2. NoRows \in [Products -> AnyRow] /\ NoColumns \in [Products -> SUBSET Columns]
    BY RowShapes DEF NoRows, NoColumns
  <1>3. SessionsTyped'  BY <1>1, <1>2 DEF SessionsTyped
  <1>4. SessionsPlaced'
    <2>1. \A r \in Requests : ~InFlight(r)'  BY <1>1 DEF InFlight
    <2> QED  BY <2>1, <1>1 DEF SessionsPlaced, InFlight
  <1>5. ReservedOnly' /\ FlushedAlerted'
    BY <1>1 DEF ReservedOnly, FlushedAlerted, NoColumns, Reserving
  <1>6. RowsKept' /\ NoSilentShortage'
    BY <1>1 DEF RowsKept, Holders, NoColumns, NoSilentShortage
  <1> QED  BY <1>3, <1>4, <1>5, <1>6

---------------------------------------------------------------------------
LEMMA CartsOfItems ==
  ASSUME NEW cart \in Carts
  PROVE  cart \in Seq(Item) /\ Len(cart) >= 1
  <1>1. PICK n \in 1..MaxItems : cart \in [1..n -> Item]  BY DEF Carts
  <1>2. n \in Nat /\ n >= 1  BY StockConstants
  <1> QED  BY <1>1, <1>2

LEMMA InitShortage ==
  ASSUME Init, \A p \in Products : Minimum[p] <= InitQuantity
  PROVE  ShortageInv
  <1>1. PICK stocked \in SUBSET Products :
          db = [p \in Products |-> IF p \in stocked THEN SeedRow ELSE Absent]
    BY DEF Init
  <1>2. NoRows \in [Products -> AnyRow] /\ NoColumns \in [Products -> SUBSET Columns]
    BY RowShapes DEF NoRows, NoColumns
  <1>3. SessionsTyped  BY <1>1, <1>2, RowShapes DEF Init, SessionsTyped
  <1>4. SessionsPlaced  BY DEF Init, SessionsPlaced, InFlight
  <1>5. ReservedOnly /\ FlushedAlerted
    BY DEF Init, ReservedOnly, FlushedAlerted, NoColumns, Reserving
  <1>6. RowsKept  BY <1>1 DEF Init, RowsKept, Holders, NoColumns, SeedRow
  <1>7. NoSilentShortage
    <2>1. SeedRow.quantity = InitQuantity  BY DEF SeedRow
    <2>2. InitQuantity \in Nat /\ \A p \in Products : Minimum[p] \in Nat  BY StockConstants
    <2> QED  BY <1>1, <2>1, <2>2 DEF NoSilentShortage
  <1> QED  BY <1>3, <1>4, <1>5, <1>6, <1>7 DEF ShortageInv

LEMMA StepShortage ==
  ASSUME Ops \subseteq Unposted, ShortageInv, [Next]_vars
  PROVE  ShortageInv'
  <1>1. CASE UNCHANGED vars
    <2>1. UNCHANGED <<db, alerts, pc, op, items, at, mem, base, written>>
      BY <1>1 DEF vars, shared, session
    <2> QED
      BY <2>1 DEF ShortageInv, SessionsTyped, SessionsPlaced, ReservedOnly, FlushedAlerted, RowsKept,
                  NoSilentShortage, Holders, InFlight, Product, Current
  <1>2. ASSUME NEW r \in Requests, Begin(r)  PROVE ShortageInv'
    <2>1. ~PutStart(r) /\ ~PostStart(r)
      BY DEF PutStart, PostStart, CanStart, Unposted
    <2>2. CASE OrderStart(r)  BY <2>2, CartsOfItems, StartKeeps DEF OrderStart, Reserving
    <2>3. CASE ReserveStart(r) \/ ConsumeStart(r)
      <3>1. PICK i \in Item : Start(r, "reserve", <<i>>) \/ Start(r, "consume", <<i>>)
        BY <2>3 DEF ReserveStart, ConsumeStart
      <3>2. <<i>> \in Seq(Item) /\ Len(<<i>>) = 1 /\ Len(<<i>>) >= 1  OBVIOUS
      <3> QED  BY <3>1, <3>2, StartKeeps DEF Reserving
    <2>4. CASE DeleteOrder(r)  BY <2>4, AbortKeeps DEF DeleteOrder
    <2> QED  BY <1>2, <2>1, <2>2, <2>3, <2>4, DeleteStockKeeps DEF Begin
  <1>3. ASSUME NEW r \in Requests, Continue(r)  PROVE ShortageInv'
    <2>1. pc[r] \in {"idle", "read", "flush", "commit", "done"}
      BY DEF ShortageInv, SessionsTyped
    <2>2. ~AlertAfterCommit(r) /\ ~Insert(r) /\ ~InsertFails(r)
      BY <2>1 DEF AlertAfterCommit, Insert, InsertFails
    <2>3. CASE Refused(r) \/ FlushStale(r) \/ AlertCacheFails(r)
      BY <2>3, AbortKeeps DEF Refused, FlushStale, AlertCacheFails, shared
    <2> QED
      BY <1>3, <2>2, <2>3, ReserveReadKeeps, SkippedKeeps, ConsumeReadKeeps, FlushKeeps, CommitKeeps
         DEF Continue
  <1>4. ASSUME NEW r \in Requests, DeadlockAbort(r)  PROVE ShortageInv'
    BY <1>4, AbortKeeps DEF DeadlockAbort, shared
  <1> QED  BY <1>1, <1>2, <1>3, <1>4, CrashKeeps DEF Next, AllDone

(* No consumption ever commits a quantity below the minimum without an alert:   *)
(* consume_stock alerts before its commit, and neither overlapping calls,      *)
(* deletions, rollbacks nor a crash between the two can separate them.  PUT and *)
(* POST are left out: they alert after their commit.                        *)
THEOREM NoShortageIsSilent ==
  ASSUME Ops \subseteq Unposted, \A p \in Products : Minimum[p] <= InitQuantity
  PROVE  Spec => []NoSilentShortage
  <1>1. Init => ShortageInv  BY InitShortage
  <1>2. ShortageInv /\ [Next]_vars => ShortageInv'  BY StepShortage
  <1>3. ShortageInv => NoSilentShortage  BY DEF ShortageInv
  <1> QED  BY <1>1, <1>2, <1>3, PTL DEF Spec

---------------------------------------------------------------------------
(***************************************************************************)
(* Types, for every mixture of the seven operations.  That no committed       *)
(* column is ever negative needs two things more: a session that has an        *)
(* UPDATE not committed holds an existing row, which nobody can delete, and a  *)
(* session about to flush holds one it has read.                             *)
(***************************************************************************)
Lists == Carts \cup {<<[product |-> p, qty |-> 0]>> : p \in Products}

LockedRowsExist ==
    \A r \in Requests, p \in Products :
       written[r][p] # {} => db[p] \in Row /\ mem[r][p] \in Row

CallsUnderWay ==
    \A r \in Requests :
       /\ InFlight(r) => items[r] \in Lists /\ at[r] \in 1..Len(items[r])
       /\ ~InFlight(r) => at[r] = 1
       /\ pc[r] = "flush" => mem[r][Product(r)] \in Row

TypeInv == TypeOK /\ LockedRowsExist /\ CallsUnderWay

LEMMA AbsentIsNoRow == Absent \notin Row /\ Absent \in Rows /\ \A row \in Row : row.id # Absent.id
  BY StockConstants DEF Absent, Row, Rows

LEMMA ListsOfItems ==
  ASSUME NEW list \in Lists
  PROVE  /\ Len(list) \in 1..MaxItems
         /\ \A i \in 1..Len(list) : list[i].product \in Products /\ list[i].qty \in Nat
  <1>1. CASE list \in Carts
    <2>1. PICK n \in 1..MaxItems : list \in [1..n -> Item]  BY <1>1 DEF Carts
    <2>2. n \in Nat /\ Len(list) = n  BY <2>1, StockConstants
    <2> QED  BY <2>1, <2>2, StockConstants DEF Item
  <1>2. CASE list \in {<<[product |-> p, qty |-> 0]>> : p \in Products}
    <2>1. PICK p \in Products : list = <<[product |-> p, qty |-> 0]>>  BY <1>2
    <2>2. Len(list) = 1 /\ list[1].product = p /\ list[1].qty = 0  BY <2>1
    <2>3. \A i \in 1..Len(list) : i = 1  BY <2>2
    <2>4. 1 \in 1..MaxItems  BY StockConstants
    <2> QED  BY <2>2, <2>3, <2>4
  <1> QED  BY <1>1, <1>2 DEF Lists

LEMMA WorksOn ==
  ASSUME TypeInv, NEW r \in Requests, InFlight(r)
  PROVE  Product(r) \in Products /\ Current(r).qty \in Nat
  BY ListsOfItems DEF TypeInv, CallsUnderWay, Product, Current

LEMMA MergeRows ==
  ASSUME NEW row \in Row, NEW e, NEW cols, cols # {} => e \in Row
  PROVE  /\ Merge(row, e, cols) \in Row
         /\ Merge(row, e, cols).id = row.id
         /\ Merge(row, e, cols).quantity = IF "quantity" \in cols THEN e.quantity ELSE row.quantity
         /\ Merge(row, e, cols).reserved = IF "reserved" \in cols THEN e.reserved ELSE row.reserved
  BY DEF Merge, Row

LEMMA SeenRow ==
  ASSUME TypeInv, NEW r \in Requests, NEW p \in Products
  PROVE  /\ Seen(r, p) \in Rows
         /\ db[p] # Absent => Seen(r, p) \in Row
         /\ written[r][p] = {} => Seen(r, p) = db[p]
  <1>1. db[p] \in Rows /\ (written[r][p] # {} => db[p] \in Row /\ mem[r][p] \in Row)
    BY DEF TypeInv, TypeOK, LockedRowsExist
  <1>2. CASE db[p] \in Row  
    <2>1. Seen(r, p) \in Row  BY <1>1, <1>2, MergeRows DEF Seen
    <2>2. written[r][p] = {} => Seen(r, p) = db[p]
      BY <1>2 DEF Seen, Merge, Row
    <2> QED  BY <2>1, <2>2 DEF Rows
  <1>3. CASE db[p] = Absent
    <2>1. written[r][p] = {}  BY <1>1, <1>3, AbsentIsNoRow
    <2>2. Seen(r, p) = Absent  BY <1>3, <2>1 DEF Seen, Merge, Absent
    <2> QED  BY <1>3, <2>2, AbsentIsNoRow
  <1> QED  BY <1>1, <1>2, <1>3 DEF Rows

LEMMA PatchedRow ==
  ASSUME NEW row \in Row, NEW put \in Puts
  PROVE  Patched(row, put) \in Row
  <1>1. DOMAIN row = {"id", "quantity", "reserved"}  BY DEF Row
  <1>2. "id" \notin DOMAIN put /\ \A c \in DOMAIN put : put[c] \in Nat
    BY StockConstants DEF Columns
  <1> DEFINE id == row.id
             quantity == IF "quantity" \in DOMAIN put THEN put["quantity"] ELSE row.quantity
             reserved == IF "reserved" \in DOMAIN put THEN put["reserved"] ELSE row.reserved
  <1>3. Patched(row, put) = [id |-> id, quantity |-> quantity, reserved |-> reserved]
    BY <1>1, <1>2 DEF Patched, Row
  <1>4. id \in Requests \cup {"seed"} /\ quantity \in Nat /\ reserved \in Nat
    BY <1>2 DEF Row
  <1> HIDE DEF id, quantity, reserved
  <1> QED  BY <1>3, <1>4 DEF Row

LEMMA EmptyTables ==
  /\ NoRows \in [Products -> Rows] /\ NoColumns \in [Products -> SUBSET Columns]
  /\ Nothing \in [Products -> Nat] /\ 1 \in 1..MaxItems
  BY AbsentIsNoRow, StockConstants DEF NoRows, NoColumns, Nothing

(* A session that closes. *)
LEMMA CloseTyped ==
  ASSUME TypeInv, NEW r \in Requests, Close(r),
         db' \in [Products -> Rows], orders' \subseteq Requests,
         claims' \in [Requests -> [Products -> Nat]], alerts' \subseteq Products, crashes' = crashes,
         \A p \in Products : Holders(p) \ {r} # {} => db'[p] \in Row
  PROVE  TypeInv'
  <1> USE DEF TypeInv
  <1>1. /\ pc' = [pc EXCEPT ![r] = "done"] /\ op' = [op EXCEPT ![r] = "none"]
        /\ items' = [items EXCEPT ![r] = <<>>] /\ at' = [at EXCEPT ![r] = 1]
        /\ mem' = [mem EXCEPT ![r] = NoRows] /\ base' = [base EXCEPT ![r] = NoRows]
        /\ written' = [written EXCEPT ![r] = NoColumns] /\ grant' = [grant EXCEPT ![r] = Nothing]
    BY DEF Close, Goto
  <1>2. TypeOK'
    BY <1>1, EmptyTables DEF TypeOK, Steps
  <1>3. \A q \in Requests \ {r} :
           /\ pc'[q] = pc[q] /\ items'[q] = items[q] /\ at'[q] = at[q]
           /\ mem'[q] = mem[q] /\ written'[q] = written[q]
    BY <1>1
  <1>4. pc'[r] = "done" /\ at'[r] = 1 /\ written'[r] = NoColumns
    BY <1>1 DEF TypeOK
  <1>5. LockedRowsExist'
    BY <1>3, <1>4 DEF LockedRowsExist, Holders, NoColumns
  <1>6. CallsUnderWay'
    BY <1>3, <1>4 DEF CallsUnderWay, InFlight, Product, Current
  <1> QED  BY <1>2, <1>5, <1>6

LEMMA AbortTyped ==
  ASSUME TypeInv, NEW r \in Requests, Close(r), UNCHANGED <<db, orders, claims, crashes>>,
         alerts' \subseteq Products
  PROVE  TypeInv'
  BY CloseTyped DEF TypeInv, TypeOK, LockedRowsExist, Holders

LEMMA StartTyped ==
  ASSUME TypeInv, NEW r \in Requests, NEW o \in Operations, NEW cart \in Carts, Start(r, o, cart)
  PROVE  TypeInv'
  <1> USE DEF TypeInv
  <1>1. /\ pc[r] = "idle" /\ pc' = [pc EXCEPT ![r] = "read"] /\ op' = [op EXCEPT ![r] = o]
        /\ items' = [items EXCEPT ![r] = cart]
        /\ UNCHANGED <<db, orders, claims, alerts, at, mem, base, written, grant, crashes>>
    BY DEF Start, CanStart, Goto, shared
  <1>2. TypeOK'  BY <1>1 DEF TypeOK, Steps
  <1>3. LockedRowsExist'  BY <1>1 DEF LockedRowsExist
  <1>4. cart \in Lists /\ 1 \in 1..Len(cart)  BY ListsOfItems DEF Lists
  <1>5. at[r] = 1  BY <1>1 DEF CallsUnderWay, InFlight
  <1>6. CallsUnderWay'
    BY <1>1, <1>4, <1>5 DEF CallsUnderWay, InFlight, Product, Current, TypeOK
  <1> QED  BY <1>2, <1>3, <1>6

(* A session that has changed an entity in memory, of a row nobody can have      *)
(* seen it update without holding the row.                                  *)
LEMMA AssignTyped ==
  ASSUME TypeInv, NEW r \in Requests, NEW o \in Operations \cup {"none"}, NEW list \in Lists,
         NEW step \in Steps \ {"idle", "done"}, NEW p \in Products, NEW e \in Row, NEW n \in Row,
         Assign(r, p, e, n), pc' = [pc EXCEPT ![r] = step], op' = [op EXCEPT ![r] = o],
         items' = [items EXCEPT ![r] = list], at[r] \in 1..Len(list), list[at[r]].product = p,
         grant' \in [Requests -> [Products -> Nat]],
         db' \in [Products -> Rows], \A q \in Products : db[q] # Absent => db'[q] = db[q],
         UNCHANGED <<orders, claims, alerts, at, written, crashes>>
  PROVE  TypeInv'
  <1> USE DEF TypeInv
  <1>1. /\ mem' = [mem EXCEPT ![r][p] = n] /\ base' = [base EXCEPT ![r][p] = e]
    BY DEF Assign
  <1>2. /\ mem' \in [Requests -> [Products -> Rows]] /\ base' \in [Requests -> [Products -> Rows]]
        /\ mem'[r][p] = n
        /\ \A q \in Requests, k \in Products : q # r \/ k # p => mem'[q][k] = mem[q][k]
        /\ \A q \in Requests \ {r} : mem'[q] = mem[q] /\ pc'[q] = pc[q] /\ items'[q] = items[q]
        /\ pc'[r] = step /\ items'[r] = list
    BY <1>1 DEF TypeOK, Rows
  <1>3. TypeOK'  BY <1>2 DEF TypeOK, Lists
  <1>4. LockedRowsExist'
    <2> SUFFICES ASSUME NEW q \in Requests, NEW k \in Products, written[q][k] # {}
                 PROVE  db'[k] \in Row /\ mem'[q][k] \in Row
      BY DEF LockedRowsExist
    <2>1. db[k] \in Row /\ mem[q][k] \in Row  BY DEF LockedRowsExist
    <2>2. db'[k] = db[k]  BY <2>1, AbsentIsNoRow
    <2>3. mem'[q][k] \in Row
      <3>1. CASE q = r /\ k = p  BY <3>1, <1>2
      <3>2. CASE q # r \/ k # p  BY <3>2, <1>2, <2>1
      <3> QED  BY <3>1, <3>2
    <2> QED  BY <2>1, <2>2, <2>3
  <1>5. Product(r)' = p  BY <1>2 DEF Product, Current
  <1>6. \A q \in Requests \ {r} : Product(q)' = Product(q)  BY <1>2 DEF Product, Current
  <1>7. CallsUnderWay'
    <2> SUFFICES ASSUME NEW q \in Requests
                 PROVE  /\ InFlight(q)' => items'[q] \in Lists /\ at'[q] \in 1..Len(items'[q])
                        /\ ~InFlight(q)' => at'[q] = 1
                        /\ pc'[q] = "flush" => mem'[q][Product(q)'] \in Row
      BY DEF CallsUnderWay
    <2>1. CASE q = r
      <3>1. InFlight(q)'  BY <1>2, <2>1 DEF InFlight
      <3> QED  BY <1>2, <1>5, <2>1, <3>1
    <2>2. CASE q # r
      <3>1. pc'[q] = pc[q] /\ items'[q] = items[q] /\ mem'[q] = mem[q] /\ at'[q] = at[q]
            /\ Product(q)' = Product(q)
        BY <1>2, <1>6, <2>2
      <3> QED  BY <3>1 DEF CallsUnderWay, InFlight
    <2> QED  BY <2>1, <2>2
  <1> QED  BY <1>3, <1>4, <1>7

LEMMA ReserveReadTyped ==
  ASSUME TypeInv, NEW r \in Requests, ReserveRead(r)
  PROVE  TypeInv'
  <1> DEFINE p == Product(r)
             row == Seen(r, p)
             n == [row EXCEPT !.reserved = @ + Current(r).qty]
  <1>1. pc[r] = "read" /\ InFlight(r) /\ db[p] # Absent  BY DEF ReserveRead, InFlight
  <1>2. p \in Products /\ Current(r).qty \in Nat  BY <1>1, WorksOn
  <1>3. row \in Row  BY <1>1, <1>2, SeenRow
  <1>4. Assign(r, p, row, n) /\ pc' = [pc EXCEPT ![r] = "flush"]
    BY DEF ReserveRead, Goto
  <1>5. /\ UNCHANGED <<db, orders, claims, alerts, op, items, at, written, crashes>>
        /\ grant' \in [Requests -> [Products -> Nat]]
    <2>1. grant' = [grant EXCEPT ![r][p] = @ + Current(r).qty]  BY DEF ReserveRead
    <2> HIDE DEF p
    <2>2. grant \in [Requests -> [Products -> Nat]]  BY DEF TypeInv, TypeOK
    <2>3. grant[r][p] + Current(r).qty \in Nat  BY <1>2, <2>2
    <2>4. grant' \in [Requests -> [Products -> Nat]]  BY <1>2, <2>1, <2>2, <2>3
    <2> QED  BY <2>4 DEF ReserveRead, shared
  <1>6. /\ items[r] \in Lists /\ at[r] \in 1..Len(items[r]) /\ items[r][at[r]].product = p
        /\ op[r] \in Operations \cup {"none"}
        /\ items' = [items EXCEPT ![r] = items[r]] /\ op' = [op EXCEPT ![r] = op[r]]
    BY <1>1, <1>5 DEF TypeInv, TypeOK, CallsUnderWay, Product, Current
  <1> HIDE DEF row, p
  <1>7. n \in Row  BY <1>2, <1>3 DEF Row
  <1>8. "flush" \in Steps \ {"idle", "done"} /\ db' \in [Products -> Rows]
    BY <1>5 DEF Steps, TypeInv, TypeOK
  <1> HIDE DEF n
  <1> QED  BY <1>2, <1>3, <1>4, <1>5, <1>6, <1>7, <1>8, AssignTyped

LEMMA ConsumeReadTyped ==
  ASSUME TypeInv, NEW r \in Requests, ConsumeRead(r)
  PROVE  TypeInv'
  <1> DEFINE p == Product(r)
             row == db[p]
             qty == Current(r).qty
             n == [row EXCEPT !.quantity = @ - qty, !.reserved = AtLeastZero(@ - qty)]
  <1>1. pc[r] = "read" /\ InFlight(r) /\ row.quantity >= qty  BY DEF ConsumeRead, InFlight
  <1>2. p \in Products /\ qty \in Nat  BY <1>1, WorksOn
  <1>3. row \in Row  BY <1>1, <1>2 DEF TypeInv, TypeOK, Rows, Absent
  <1>4. Assign(r, p, row, n) /\ pc' = [pc EXCEPT ![r] = "flush"]
    BY DEF ConsumeRead, Goto
  <1>5. UNCHANGED <<db, orders, claims, alerts, op, items, at, written, grant, crashes>>
    BY DEF ConsumeRead, shared
  <1>6. /\ items[r] \in Lists /\ at[r] \in 1..Len(items[r]) /\ items[r][at[r]].product = p
        /\ op[r] \in Operations \cup {"none"} /\ grant' \in [Requests -> [Products -> Nat]]
        /\ items' = [items EXCEPT ![r] = items[r]] /\ op' = [op EXCEPT ![r] = op[r]]
    BY <1>1, <1>5 DEF TypeInv, TypeOK, CallsUnderWay, Product, Current
  <1> HIDE DEF row, p, qty
  <1>7. n \in Row
    <2> DEFINE left == row.quantity - qty
               reserved == AtLeastZero(row.reserved - qty)
    <2>1. row.quantity \in Nat /\ row.reserved \in Nat  BY <1>3 DEF Row
    <2>2. left \in Nat /\ reserved \in Nat  BY <1>1, <1>2, <2>1 DEF AtLeastZero
    <2>3. n = [row EXCEPT !.quantity = left, !.reserved = reserved]  OBVIOUS
    <2> HIDE DEF n, left, reserved
    <2> QED  BY <1>3, <2>2, <2>3 DEF Row
  <1>8. "flush" \in Steps \ {"idle", "done"} /\ db' \in [Products -> Rows]
    BY <1>5 DEF Steps, TypeInv, TypeOK
  <1> HIDE DEF n
  <1> QED  BY <1>2, <1>3, <1>4, <1>5, <1>6, <1>7, <1>8, AssignTyped

(* The step of a call to its next item, or past its last one. *)
LEMMA NextItem ==
  ASSUME TypeInv, NEW r \in Requests, InFlight(r),
         at' = IF IsLast(r) THEN at ELSE [at EXCEPT ![r] = @ + 1]
  PROVE  /\ at' \in [Requests -> 1..MaxItems] /\ at'[r] \in 1..Len(items[r])
         /\ \A q \in Requests \ {r} : at'[q] = at[q]
  <1>1. /\ at \in [Requests -> 1..MaxItems] /\ at[r] \in 1..Len(items[r])
        /\ Len(items[r]) \in 1..MaxItems
    BY ListsOfItems DEF TypeInv, TypeOK, CallsUnderWay
  <1>2. CASE IsLast(r)  BY <1>1, <1>2
  <1>3. CASE ~IsLast(r)
    <2>1. at[r] + 1 \in 1..Len(items[r]) /\ at[r] + 1 \in 1..MaxItems
      BY <1>1, <1>3, StockConstants DEF IsLast
    <2>2. at' = [at EXCEPT ![r] = at[r] + 1]  BY <1>3
    <2> QED  BY <1>1, <2>1, <2>2
  <1> QED  BY <1>2, <1>3

LEMMA SkippedTyped ==
  ASSUME TypeInv, NEW r \in Requests, ReserveSkipped(r)
  PROVE  TypeInv'
  <1> USE DEF TypeInv
  <1>1. /\ pc[r] = "read" /\ InFlight(r)
        /\ UNCHANGED <<db, orders, claims, alerts, op, items, mem, base, written, grant, crashes>>
        /\ at' = IF IsLast(r) THEN at ELSE [at EXCEPT ![r] = @ + 1]
        /\ \E step \in {"commit", "read"} : pc' = [pc EXCEPT ![r] = step]
    BY DEF ReserveSkipped, Goto, shared, InFlight
  <1>2. /\ at' \in [Requests -> 1..MaxItems] /\ at'[r] \in 1..Len(items[r])
        /\ \A q \in Requests \ {r} : at'[q] = at[q]
    BY <1>1, NextItem
  <1>3. TypeOK'  BY <1>1, <1>2 DEF TypeOK, Steps
  <1>4. LockedRowsExist'  BY <1>1 DEF LockedRowsExist
  <1>5. CallsUnderWay'
    BY <1>1, <1>2 DEF TypeOK, CallsUnderWay, InFlight, Product, Current
  <1> QED  BY <1>3, <1>4, <1>5

(* The UPDATE of a row that is still the one that was read. *)
LEMMA FlushTyped ==
  ASSUME TypeInv, NEW r \in Requests, Flush(r)
  PROVE  TypeInv'
  <1> USE DEF TypeInv
  <1> DEFINE p == Product(r)
             cols == Dirty(r, p)
  <1>1. /\ pc[r] = "flush" /\ InFlight(r) /\ alerts' \in {alerts, alerts \cup {p}}
        /\ cols = {} \/ ~Gone(r, p)
        /\ UNCHANGED <<db, orders, claims, op, items, mem, grant, crashes>>
        /\ written' = [written EXCEPT ![r][p] = @ \cup cols]
        /\ base' = [base EXCEPT ![r][p] = mem[r][p]]
        /\ at' = IF IsLast(r) THEN at ELSE [at EXCEPT ![r] = @ + 1]
        /\ \E step \in {"commit", "read"} : pc' = [pc EXCEPT ![r] = step]
    BY DEF Flush, Goto, InFlight
  <1>2. /\ at' \in [Requests -> 1..MaxItems] /\ at'[r] \in 1..Len(items[r])
        /\ \A q \in Requests \ {r} : at'[q] = at[q]
    BY <1>1, NextItem
  <1>3. p \in Products  BY <1>1, WorksOn
  <1>4. cols \in SUBSET Columns  BY DEF Dirty
  <1>5. mem[r][p] \in Row  BY <1>1 DEF CallsUnderWay
  <1>6. cols # {} => db[p] \in Row
    BY <1>1, <1>3, <1>5, AbsentIsNoRow DEF Gone, TypeOK, Rows
  <1> HIDE DEF p, cols
  <1>7. /\ written' \in [Requests -> [Products -> SUBSET Columns]]
        /\ base' \in [Requests -> [Products -> Rows]]
        /\ written'[r][p] = written[r][p] \cup cols
        /\ \A q \in Requests, k \in Products : q # r \/ k # p => written'[q][k] = written[q][k]
    BY <1>1, <1>3, <1>4 DEF TypeOK
  <1>8. TypeOK'  BY <1>1, <1>2, <1>3, <1>7 DEF TypeOK, Steps
  <1>9. LockedRowsExist'
    <2> SUFFICES ASSUME NEW q \in Requests, NEW k \in Products, written'[q][k] # {}
                 PROVE  db[k] \in Row /\ mem[q][k] \in Row
      BY <1>1 DEF LockedRowsExist
    <2>1. CASE written[q][k] # {}  BY <2>1 DEF LockedRowsExist
    <2>2. CASE written[q][k] = {}
      <3>1. q = r /\ k = p /\ cols # {}  BY <1>7, <2>2
      <3> QED  BY <1>5, <1>6, <3>1
    <2> QED  BY <2>1, <2>2
  <1>10. CallsUnderWay'
    BY <1>1, <1>2 DEF TypeOK, CallsUnderWay, InFlight, Product, Current
  <1> QED  BY <1>8, <1>9, <1>10

LEMMA CommitTyped ==
  ASSUME TypeInv, NEW r \in Requests, Commit(r)
  PROVE  TypeInv'
  <1> USE DEF TypeInv
  <1>1. /\ pc[r] = "commit" /\ InFlight(r) /\ UNCHANGED <<alerts, crashes>>
        /\ db' = [p \in Products |-> Seen(r, p)]
        /\ orders' \in {orders, orders \cup {r}}
        /\ claims' = [claims EXCEPT ![r] = grant[r]]
    BY DEF Commit, InFlight
  <1>2. /\ db' \in [Products -> Rows] /\ orders' \subseteq Requests
        /\ claims' \in [Requests -> [Products -> Nat]] /\ alerts' \subseteq Products
    BY <1>1, SeenRow DEF TypeOK
  <1>3. \A q \in Requests, p \in Products : written[q][p] # {} => db'[p] \in Row
    <2> SUFFICES ASSUME NEW q \in Requests, NEW p \in Products, written[q][p] # {}
                 PROVE  db'[p] \in Row
      OBVIOUS
    <2>1. db[p] # Absent  BY AbsentIsNoRow DEF LockedRowsExist
    <2> QED  BY <1>1, <2>1, SeenRow
  <1>4. CASE op[r] # "put"
    BY <1>1, <1>2, <1>3, <1>4, CloseTyped DEF Commit, Holders
  <1>5. CASE op[r] = "put"
    <2>1. /\ pc' = [pc EXCEPT ![r] = "alert"] /\ written' = [written EXCEPT ![r] = NoColumns]
          /\ UNCHANGED <<op, items, at, mem, base, grant>>
      BY <1>5 DEF Commit, Goto
    <2>2. TypeOK'  BY <1>1, <1>2, <2>1, EmptyTables DEF TypeOK, Steps
    <2>3. LockedRowsExist'
      BY <1>3, <2>1 DEF TypeOK, LockedRowsExist, NoColumns
    <2>4. CallsUnderWay'
      BY <1>1, <2>1 DEF TypeOK, CallsUnderWay, InFlight, Product, Current
    <2> QED  BY <2>2, <2>3, <2>4
  <1> QED  BY <1>4, <1>5

LEMMA PutStartTyped ==
  ASSUME TypeInv, NEW r \in Requests, PutStart(r)
  PROVE  TypeInv'
  <1>1. PICK p \in Products, put \in Puts :
           /\ pc[r] = "idle" /\ db[p] # Absent
           /\ op' = [op EXCEPT ![r] = "put"]
           /\ items' = [items EXCEPT ![r] = <<[product |-> p, qty |-> 0]>>]
           /\ Assign(r, p, db[p], Patched(db[p], put))
           /\ pc' = [pc EXCEPT ![r] = "flush"]
           /\ UNCHANGED <<db, orders, claims, alerts, at, written, grant, crashes>>
    BY DEF PutStart, CanStart, Goto, shared
  <1> DEFINE list == <<[product |-> p, qty |-> 0]>>
  <1>2. db[p] \in Row /\ Patched(db[p], put) \in Row
    BY <1>1, PatchedRow DEF TypeInv, TypeOK, Rows
  <1>3. list \in Lists /\ Len(list) = 1 /\ list[1].product = p  BY DEF Lists
  <1>4. at[r] = 1  BY <1>1 DEF TypeInv, CallsUnderWay, InFlight
  <1>5. "put" \in Operations \cup {"none"} /\ "flush" \in Steps \ {"idle", "done"}
    BY DEF Operations, Steps
  <1>6. grant' \in [Requests -> [Products -> Nat]] /\ db' \in [Products -> Rows]
    BY <1>1 DEF TypeInv, TypeOK
  <1> HIDE DEF list
  <1>7. at[r] \in 1..Len(list) /\ list[at[r]].product = p  BY <1>3, <1>4
  <1>8. items' = [items EXCEPT ![r] = list]  BY <1>1 DEF list
  <1> QED  BY <1>1, <1>2, <1>3, <1>5, <1>6, <1>7, <1>8, AssignTyped

LEMMA PostStartTyped ==
  ASSUME TypeInv, NEW r \in Requests, PostStart(r)
  PROVE  TypeInv'
  <1> USE DEF TypeInv
  <1>1. PICK p \in Products :
           /\ pc[r] = "idle" /\ op' = [op EXCEPT ![r] = "post"]
           /\ items' = [items EXCEPT ![r] = <<[product |-> p, qty |-> 0]>>]
           /\ pc' = [pc EXCEPT ![r] = "insert"]
           /\ UNCHANGED <<db, orders, claims, alerts, at, mem, base, written, grant, crashes>>
    BY DEF PostStart, CanStart, Goto, shared
  <1> DEFINE list == <<[product |-> p, qty |-> 0]>>
  <1>2. list \in Lists /\ Len(list) = 1  BY DEF Lists
  <1> HIDE DEF list
  <1>3. items' = [items EXCEPT ![r] = list]  BY <1>1 DEF list
  <1>4. TypeOK'  BY <1>1, <1>2, <1>3 DEF TypeOK, Steps, Operations, Lists
  <1>5. LockedRowsExist'  BY <1>1 DEF LockedRowsExist
  <1>6. at[r] = 1 /\ 1 \in 1..Len(list)  BY <1>1, <1>2 DEF CallsUnderWay, InFlight
  <1>7. CallsUnderWay'
    BY <1>1, <1>2, <1>3, <1>6 DEF TypeOK, CallsUnderWay, InFlight, Product, Current
  <1> QED  BY <1>4, <1>5, <1>7

LEMMA InsertTyped ==
  ASSUME TypeInv, NEW r \in Requests, Insert(r)
  PROVE  TypeInv'
  <1> DEFINE p == Product(r)
             new == [id |-> r, quantity |-> 0, reserved |-> 0]
  <1>1. PICK put \in Puts :
           /\ pc[r] = "insert" /\ db[p] = Absent
           /\ db' = [db EXCEPT ![p] = Patched(new, put)]
           /\ Assign(r, p, Patched(new, put), Patched(new, put))
           /\ pc' = [pc EXCEPT ![r] = "alert"]
           /\ UNCHANGED <<orders, claims, alerts, op, items, at, written, grant, crashes>>
    BY DEF Insert, Goto
  <1>2. InFlight(r)  BY <1>1 DEF InFlight
  <1>3. p \in Products  BY <1>2, WorksOn
  <1>4. new \in Row  BY DEF Row
  <1> HIDE DEF new
  <1>5. Patched(new, put) \in Row  BY <1>4, PatchedRow
  <1>6. /\ items[r] \in Lists /\ at[r] \in 1..Len(items[r]) /\ items[r][at[r]].product = p
        /\ op[r] \in Operations \cup {"none"} /\ grant' \in [Requests -> [Products -> Nat]]
        /\ items' = [items EXCEPT ![r] = items[r]] /\ op' = [op EXCEPT ![r] = op[r]]
    BY <1>1, <1>2 DEF TypeInv, TypeOK, CallsUnderWay, Product, Current
  <1> HIDE DEF p
  <1>7. /\ db' \in [Products -> Rows]
        /\ \A q \in Products : db[q] # Absent => db'[q] = db[q]
    BY <1>1, <1>3, <1>5 DEF TypeInv, TypeOK, Rows
  <1>8. "alert" \in Steps \ {"idle", "done"}  BY DEF Steps
  <1>9. /\ pc' = [pc EXCEPT ![r] = "alert"]
        /\ UNCHANGED <<orders, claims, alerts, at, written, crashes>>
    BY <1>1
  <1> DEFINE row == Patched(new, put)
  <1>10. Assign(r, p, row, row) /\ row \in Row  BY <1>1, <1>5
  <1> HIDE DEF row
  <1> QED  BY <1>3, <1>6, <1>7, <1>8, <1>9, <1>10, AssignTyped

LEMMA DeleteStockTyped ==
  ASSUME TypeInv, NEW r \in Requests, DeleteStock(r)
  PROVE  TypeInv'
  <1>1. PICK p \in Products : Holders(p) = {} /\ db' = [db EXCEPT ![p] = Absent]
    BY DEF DeleteStock
  <1>2. Close(r) /\ UNCHANGED <<orders, claims, alerts, crashes>>  BY DEF DeleteStock
  <1>3. db' \in [Products -> Rows]  BY <1>1, AbsentIsNoRow DEF TypeInv, TypeOK
  <1>4. \A q \in Products : Holders(q) \ {r} # {} => db'[q] \in Row
    BY <1>1 DEF TypeInv, TypeOK, LockedRowsExist, Holders
  <1>5. orders' \subseteq Requests /\ claims' \in [Requests -> [Products -> Nat]]
        /\ alerts' \subseteq Products
    BY <1>2 DEF TypeInv, TypeOK
  <1> QED  BY <1>2, <1>3, <1>4, <1>5, CloseTyped

LEMMA DeleteOrderTyped ==
  ASSUME TypeInv, NEW r \in Requests, DeleteOrder(r)
  PROVE  TypeInv'
  <1>1. PICK o \in orders :
           orders' = orders \ {o} /\ claims' = [claims EXCEPT ![o] = Nothing]
    BY DEF DeleteOrder
  <1>2. Close(r) /\ UNCHANGED <<db, alerts, crashes>>  BY DEF DeleteOrder
  <1>3. orders' \subseteq Requests /\ claims' \in [Requests -> [Products -> Nat]]
    BY <1>1, EmptyTables DEF TypeInv, TypeOK
  <1>4. /\ db' \in [Products -> Rows] /\ alerts' \subseteq Products
        /\ \A q \in Products : Holders(q) \ {r} # {} => db'[q] \in Row
    BY <1>2 DEF TypeInv, TypeOK, LockedRowsExist, Holders
  <1> QED  BY <1>2, <1>3, <1>4, CloseTyped

LEMMA CrashTyped ==
  ASSUME TypeInv, Crash
  PROVE  TypeInv'
  <1> USE DEF TypeInv
  <1>1. /\ UNCHANGED <<db, orders, claims, alerts>>
        /\ crashes < MaxCrashes /\ crashes' = crashes + 1
        /\ pc' = [r \in Requests |-> IF InFlight(r) THEN "done" ELSE pc[r]]
        /\ op' = [r \in Requests |-> "none"] /\ items' = [r \in Requests |-> <<>>]
        /\ at' = [r \in Requests |-> 1]
        /\ mem' = [r \in Requests |-> NoRows] /\ base' = [r \in Requests |-> NoRows]
        /\ written' = [r \in Requests |-> NoColumns] /\ grant' = [r \in Requests |-> Nothing]
    BY DEF Crash, shared
  <1>2. crashes' \in 0..MaxCrashes  BY <1>1, StockConstants DEF TypeOK
  <1>3. TypeOK'  BY <1>1, <1>2, EmptyTables DEF TypeOK, Steps
  <1>4. LockedRowsExist'  BY <1>1 DEF LockedRowsExist, NoColumns
  <1>5. CallsUnderWay'
    <2>1. \A r \in Requests : ~InFlight(r)'  BY <1>1 DEF InFlight
    <2> QED  BY <1>1, <2>1 DEF CallsUnderWay, InFlight
  <1> QED  BY <1>3, <1>4, <1>5

LEMMA InitTyped == Init => TypeInv
  <1> SUFFICES ASSUME Init PROVE TypeInv
    OBVIOUS
  <1>1. PICK stocked \in SUBSET Products :
          db = [p \in Products |-> IF p \in stocked THEN SeedRow ELSE Absent]
    BY DEF Init
  <1>2. SeedRow \in Rows /\ Absent \in Rows
    BY AbsentIsNoRow, StockConstants DEF SeedRow, Rows, Row
  <1>3. TypeOK  BY <1>1, <1>2, EmptyTables, StockConstants DEF Init, TypeOK, Steps
  <1>4. LockedRowsExist  BY DEF Init, LockedRowsExist, NoColumns
  <1>5. CallsUnderWay  BY DEF Init, CallsUnderWay, InFlight
  <1> QED  BY <1>3, <1>4, <1>5 DEF TypeInv

LEMMA BeginTyped ==
  ASSUME TypeInv, NEW r \in Requests, Begin(r)
  PROVE  TypeInv'
  <1>1. CASE OrderStart(r)  BY <1>1, StartTyped DEF OrderStart, Operations
  <1>2. CASE ReserveStart(r) \/ ConsumeStart(r)
    <2>1. PICK i \in Item : Start(r, "reserve", <<i>>) \/ Start(r, "consume", <<i>>)
      BY <1>2 DEF ReserveStart, ConsumeStart
    <2>2. <<i>> \in [1..1 -> Item] /\ 1 \in 1..MaxItems  BY StockConstants
    <2>3. <<i>> \in Carts  BY <2>2 DEF Carts
    <2> QED  BY <2>1, <2>3, StartTyped DEF Operations
  <1> QED
    BY <1>1, <1>2, PutStartTyped, PostStartTyped, DeleteStockTyped, DeleteOrderTyped DEF Begin

LEMMA ContinueTyped ==
  ASSUME TypeInv, NEW r \in Requests, Continue(r)
  PROVE  TypeInv'
  <1>1. CASE Refused(r) \/ FlushStale(r) \/ AlertCacheFails(r) \/ InsertFails(r)
    <2>1. alerts \subseteq Products  BY DEF TypeInv, TypeOK
    <2> QED
      BY <1>1, <2>1, AbortTyped DEF Refused, FlushStale, AlertCacheFails, InsertFails, shared
  <1>2. CASE AlertAfterCommit(r)
    <2>1. pc[r] = "alert" /\ alerts' \in {alerts, alerts \cup {Product(r)}}
      BY <1>2 DEF AlertAfterCommit
    <2>2. Product(r) \in Products  BY <2>1, WorksOn DEF InFlight
    <2>3. alerts' \subseteq Products  BY <2>1, <2>2 DEF TypeInv, TypeOK
    <2> QED  BY <1>2, <2>3, AbortTyped DEF AlertAfterCommit
  <1> QED
    BY <1>1, <1>2, ReserveReadTyped, SkippedTyped, ConsumeReadTyped, FlushTyped, CommitTyped,
       InsertTyped DEF Continue

LEMMA NextTyped == TypeInv /\ [Next]_vars => TypeInv'
  <1> SUFFICES ASSUME TypeInv, [Next]_vars PROVE TypeInv'
    OBVIOUS
  <1>1. CASE UNCHANGED vars
    BY <1>1 DEF vars, shared, session, TypeInv, TypeOK, LockedRowsExist, CallsUnderWay, InFlight,
                Product, Current
  <1>2. ASSUME NEW r \in Requests, DeadlockAbort(r)  PROVE TypeInv'
    <2>1. alerts' \subseteq Products  BY <1>2 DEF DeadlockAbort, shared, TypeInv, TypeOK
    <2> QED  BY <1>2, <2>1, AbortTyped DEF DeadlockAbort, shared
  <1> QED  BY <1>1, <1>2, BeginTyped, ContinueTyped, CrashTyped DEF Next, AllDone

(* Every committed column stays a natural number, whatever overlaps, crashes or  *)
(* is deleted: an UPDATE writes absolute values a check has let through, and    *)
(* the row it locked is still there when it commits.                         *)
THEOREM StockTypes == Spec => []TypeOK
  <1>1. TypeInv => TypeOK  BY DEF TypeInv
  <1> QED  BY <1>1, InitTyped, NextTyped, PTL DEF Spec

---------------------------------------------------------------------------
(***************************************************************************)
(* ReservedWithinQuantity: while every stock change goes through the checks of *)
(* reserve_stock and consume_stock, and either calls do not overlap or nothing *)
(* is consumed, no row has more reserved than there is.  What a commit writes  *)
(* is the entity in memory as a whole (WholeCopies): the columns it does not   *)
(* write have not changed since they were read.                             *)
(***************************************************************************)
Undisturbed ==
    /\ Ops \subseteq Unposted
    /\ MaxInFlight = 1 \/ "consume" \notin Ops

OneAtATime ==
    MaxInFlight = 1 => \A q, r \in Requests : InFlight(q) /\ InFlight(r) => q = r

CallsKnown ==
    \A r \in Requests :
       /\ pc[r] \in {"idle", "read", "flush", "commit", "done"}
       /\ InFlight(r) => /\ items[r] \in Carts
                         /\ op[r] \in Reserving \/ (op[r] = "consume" /\ "consume" \in Ops)
       /\ ~InFlight(r) => mem[r] = NoRows /\ base[r] = NoRows /\ written[r] = NoColumns

(* Only the entity a session is about to flush differs from what it loaded. *)
OneDirtyEntity ==
    \A r \in Requests, p \in Products :
       pc[r] # "flush" \/ p # Product(r) => base[r][p] = mem[r][p]

WholeCopies ==
    \A r \in Requests, p \in Products :
       mem[r][p] # Absent =>
          /\ mem[r][p].reserved <= mem[r][p].quantity
          /\ db[p] # Absent =>
                \A c \in Columns \ (written[r][p] \cup Dirty(r, p)) : mem[r][p][c] = db[p][c]
          /\ "consume" \notin Ops =>
                /\ mem[r][p].quantity = InitQuantity
                /\ "reserved" \in written[r][p] \cup Dirty(r, p)

QuantitiesKept ==
    "consume" \notin Ops => \A p \in Products : db[p] # Absent => db[p].quantity = InitQuantity

ReservedInv ==
    /\ TypeInv /\ OneAtATime /\ CallsKnown /\ OneDirtyEntity /\ WholeCopies /\ QuantitiesKept
    /\ ReservedWithinQuantity

(* Closed sessions differ from the others in nothing they remember. *)
LEMMA CloseReserved ==
  ASSUME ReservedInv, TypeInv', NEW r \in Requests, Close(r), ReservedWithinQuantity', QuantitiesKept',
         \A q \in Requests \ {r}, p \in Products :
            mem[q][p] # Absent /\ db'[p] # Absent =>
               \A c \in Columns \ (written[q][p] \cup Dirty(q, p)) : mem[q][p][c] = db'[p][c]
  PROVE  ReservedInv'
  <1> USE DEF ReservedInv
  <1>1. /\ pc' = [pc EXCEPT ![r] = "done"] /\ op' = [op EXCEPT ![r] = "none"]
        /\ items' = [items EXCEPT ![r] = <<>>] /\ at' = [at EXCEPT ![r] = 1]
        /\ mem' = [mem EXCEPT ![r] = NoRows] /\ base' = [base EXCEPT ![r] = NoRows]
        /\ written' = [written EXCEPT ![r] = NoColumns]
    BY DEF Close, Goto
  <1>2. /\ pc'[r] = "done" /\ mem'[r] = NoRows /\ base'[r] = NoRows /\ written'[r] = NoColumns
        /\ \A q \in Requests \ {r} :
              /\ pc'[q] = pc[q] /\ op'[q] = op[q] /\ items'[q] = items[q] /\ at'[q] = at[q]
              /\ mem'[q] = mem[q] /\ base'[q] = base[q] /\ written'[q] = written[q]
    BY <1>1 DEF TypeInv, TypeOK
  <1>3. OneAtATime'  BY <1>2 DEF OneAtATime, InFlight
  <1>4. CallsKnown'  BY <1>2 DEF CallsKnown, InFlight
  <1>5. OneDirtyEntity'  BY <1>2 DEF OneDirtyEntity, Product, Current, NoRows
  <1>6. WholeCopies'
    <2> SUFFICES ASSUME NEW q \in Requests, NEW p \in Products, mem'[q][p] # Absent
                 PROVE  /\ mem'[q][p].reserved <= mem'[q][p].quantity
                        /\ db'[p] # Absent =>
                              \A c \in Columns \ (written'[q][p] \cup Dirty(q, p)') :
                                 mem'[q][p][c] = db'[p][c]
                        /\ "consume" \notin Ops =>
                              /\ mem'[q][p].quantity = InitQuantity
                              /\ "reserved" \in written'[q][p] \cup Dirty(q, p)'
      BY DEF WholeCopies
    <2>1. q # r  BY <1>2 DEF NoRows
    <2>2. mem'[q] = mem[q] /\ written'[q] = written[q] /\ Dirty(q, p)' = Dirty(q, p)
      BY <1>2, <2>1 DEF Dirty
    <2> QED  BY <2>1, <2>2 DEF WholeCopies
  <1> QED  BY <1>3, <1>4, <1>5, <1>6

(* A call that ends without a commit. *)
LEMMA AbortReserved ==
  ASSUME ReservedInv, TypeInv', NEW r \in Requests, Close(r), UNCHANGED db
  PROVE  ReservedInv'
  <1>1. ReservedWithinQuantity' /\ QuantitiesKept'
    BY DEF ReservedInv, ReservedWithinQuantity, QuantitiesKept
  <1>2. \A q \in Requests \ {r}, p \in Products :
           mem[q][p] # Absent /\ db'[p] # Absent =>
              \A c \in Columns \ (written[q][p] \cup Dirty(q, p)) : mem[q][p][c] = db'[p][c]
    BY DEF ReservedInv, WholeCopies
  <1> QED  BY <1>1, <1>2, CloseReserved

LEMMA DeleteStockReserved ==
  ASSUME ReservedInv, TypeInv', NEW r \in Requests, DeleteStock(r)
  PROVE  ReservedInv'
  <1>1. PICK k \in Products : db' = [db EXCEPT ![k] = Absent]  BY DEF DeleteStock
  <1>2. Close(r)  BY DEF DeleteStock
  <1>3. db'[k] = Absent /\ \A p \in Products \ {k} : db'[p] = db[p]
    BY <1>1 DEF ReservedInv, TypeInv, TypeOK
  <1>4. ReservedWithinQuantity' /\ QuantitiesKept'
    BY <1>3 DEF ReservedInv, ReservedWithinQuantity, QuantitiesKept, Absent
  <1>5. \A q \in Requests \ {r}, p \in Products :
           mem[q][p] # Absent /\ db'[p] # Absent =>
              \A c \in Columns \ (written[q][p] \cup Dirty(q, p)) : mem[q][p][c] = db'[p][c]
    BY <1>3 DEF ReservedInv, WholeCopies
  <1> QED  BY <1>2, <1>4, <1>5, CloseReserved

(* With nothing dirty, what a session sees of a row it has read is its entity. *)
LEMMA SeenWhole ==
  ASSUME ReservedInv, NEW r \in Requests, NEW p \in Products, db[p] # Absent, base[r][p] = mem[r][p]
  PROVE  /\ Seen(r, p) \in Row /\ Seen(r, p).reserved <= Seen(r, p).quantity
         /\ "consume" \notin Ops => Seen(r, p).quantity = InitQuantity
         /\ \A c \in Columns \ written[r][p] : Seen(r, p)[c] = db[p][c]
  <1> USE DEF ReservedInv
  <1>1. db[p] \in Row /\ written[r][p] \in SUBSET Columns /\ (written[r][p] # {} => mem[r][p] \in Row)
    BY DEF TypeInv, TypeOK, LockedRowsExist, Rows
  <1>2. /\ Seen(r, p) \in Row
        /\ Seen(r, p).quantity = IF "quantity" \in written[r][p] THEN mem[r][p].quantity ELSE db[p].quantity
        /\ Seen(r, p).reserved = IF "reserved" \in written[r][p] THEN mem[r][p].reserved ELSE db[p].reserved
    BY <1>1, MergeRows DEF Seen
  <1>3. \A c \in Columns \ written[r][p] : Seen(r, p)[c] = db[p][c]
    BY <1>2 DEF Columns
  <1>4. CASE mem[r][p] = Absent
    <2>1. written[r][p] = {}  BY <1>1, <1>4, AbsentIsNoRow
    <2>2. Seen(r, p).quantity = db[p].quantity /\ Seen(r, p).reserved = db[p].reserved
      BY <1>2, <2>1
    <2> QED  BY <1>2, <1>3, <2>2 DEF QuantitiesKept, ReservedWithinQuantity
  <1>5. CASE mem[r][p] # Absent
    <2>1. Dirty(r, p) = {}  BY DEF Dirty
    <2>2. \A c \in Columns \ written[r][p] : mem[r][p][c] = db[p][c]
      BY <1>5, <2>1 DEF WholeCopies
    <2>3. Seen(r, p).quantity = mem[r][p].quantity /\ Seen(r, p).reserved = mem[r][p].reserved
      BY <1>2, <2>2 DEF Columns
    <2> QED  BY <1>2, <1>3, <1>5, <2>3 DEF WholeCopies
  <1> QED  BY <1>4, <1>5

LEMMA CommitReserved ==
  ASSUME Undisturbed, ReservedInv, TypeInv', NEW r \in Requests, Commit(r)
  PROVE  ReservedInv'
  <1> USE DEF ReservedInv
  <1>1. pc[r] = "commit" /\ InFlight(r) /\ db' = [p \in Products |-> Seen(r, p)]
    BY DEF Commit, InFlight
  <1>2. Close(r)
    <2>1. op[r] # "put"  BY <1>1 DEF CallsKnown, Reserving
    <2> QED  BY <2>1 DEF Commit
  <1>3. \A p \in Products : base[r][p] = mem[r][p]  BY <1>1 DEF OneDirtyEntity
  <1>4. \A p \in Products : db[p] = Absent => db'[p] = Absent
    <2> SUFFICES ASSUME NEW p \in Products, db[p] = Absent PROVE Seen(r, p) = Absent
      BY <1>1
    <2>1. written[r][p] = {}  BY AbsentIsNoRow DEF TypeInv, LockedRowsExist
    <2> QED  BY <2>1, SeenRow
  <1>5. ReservedWithinQuantity'
    <2> SUFFICES ASSUME NEW p \in Products PROVE db'[p].reserved <= db'[p].quantity
      BY DEF ReservedWithinQuantity
    <2>1. CASE db[p] = Absent  BY <1>4, <2>1 DEF Absent
    <2>2. CASE db[p] # Absent  BY <1>1, <1>3, <2>2, SeenWhole
    <2> QED  BY <2>1, <2>2
  <1>6. QuantitiesKept'  BY <1>1, <1>3, <1>4, SeenWhole DEF QuantitiesKept
  <1>7. ASSUME NEW q \in Requests \ {r}, NEW p \in Products, mem[q][p] # Absent, db'[p] # Absent
        PROVE  \A c \in Columns \ (written[q][p] \cup Dirty(q, p)) : mem[q][p][c] = db'[p][c]
    <2>1. db[p] # Absent  BY <1>4, <1>7
    <2>2. CASE MaxInFlight = 1
      <3>1. ~InFlight(q)  BY <1>1, <1>7, <2>2 DEF OneAtATime
      <3>2. mem[q][p] = Absent  BY <3>1 DEF CallsKnown, NoRows
      <3> QED  BY <1>7, <3>2
    <2>3. CASE "consume" \notin Ops
      <3>1. /\ mem[q][p].quantity = InitQuantity
            /\ "reserved" \in written[q][p] \cup Dirty(q, p)
        BY <1>7, <2>3 DEF WholeCopies
      <3>2. db'[p].quantity = InitQuantity  BY <1>6, <1>7, <2>3 DEF QuantitiesKept
      <3> QED  BY <3>1, <3>2 DEF Columns
    <2> QED  BY <2>2, <2>3 DEF Undisturbed
  <1> QED  BY <1>2, <1>5, <1>6, <1>7, CloseReserved

(* A call starts only when no other is under way, if calls come one at a time. *)
LEMMA StartAlone ==
  ASSUME ReservedInv, MaxInFlight = 1, Cardinality({q \in Requests : InFlight(q)}) < MaxInFlight
  PROVE  \A q \in Requests : ~InFlight(q)
  <1> DEFINE S == {q \in Requests : InFlight(q)}
  <1> SUFFICES ASSUME NEW x \in S PROVE FALSE
    OBVIOUS
  <1>1. S = {x}  BY DEF ReservedInv, OneAtATime
  <1>2. Cardinality({x}) = 1  BY FS_Singleton
  <1> HIDE DEF S
  <1>3. Cardinality(S) < 1  BY DEF S
  <1> QED  BY <1>1, <1>2, <1>3

LEMMA StartReserved ==
  ASSUME ReservedInv, TypeInv', NEW r \in Requests, NEW o \in Reserving \cup {"consume"},
         NEW cart \in Carts, Start(r, o, cart)
  PROVE  ReservedInv'
  <1> USE DEF ReservedInv
  <1>1. /\ pc[r] = "idle" /\ pc' = [pc EXCEPT ![r] = "read"] /\ op' = [op EXCEPT ![r] = o]
        /\ items' = [items EXCEPT ![r] = cart] /\ o \in Ops
        /\ Cardinality({q \in Requests : InFlight(q)}) < MaxInFlight
        /\ UNCHANGED <<db, at, mem, base, written>>
    BY DEF Start, CanStart, Goto, shared
  <1>2. /\ pc'[r] = "read" /\ op'[r] = o /\ items'[r] = cart
        /\ \A q \in Requests \ {r} : pc'[q] = pc[q] /\ op'[q] = op[q] /\ items'[q] = items[q]
    BY <1>1 DEF TypeInv, TypeOK
  <1>3. OneAtATime'
    BY <1>1, <1>2, StartAlone DEF OneAtATime, InFlight
  <1>4. CallsKnown'  BY <1>1, <1>2 DEF CallsKnown, InFlight
  <1>5. OneDirtyEntity'
    <2>1. \A p \in Products : base[r][p] = mem[r][p]  BY <1>1 DEF OneDirtyEntity
    <2> QED  BY <1>1, <1>2, <2>1 DEF OneDirtyEntity, Product, Current
  <1>6. WholeCopies'  BY <1>1 DEF WholeCopies, Dirty
  <1> QED  BY <1>1, <1>3, <1>4, <1>5, <1>6 DEF QuantitiesKept, ReservedWithinQuantity

(* A session that has changed one entity, in agreement with the row it read.   *)
LEMMA AssignReserved ==
  ASSUME ReservedInv, TypeInv', NEW r \in Requests, NEW p \in Products, p = Product(r),
         NEW e \in Row, NEW n \in Row, Assign(r, p, e, n), pc[r] = "read",
         pc' = [pc EXCEPT ![r] = "flush"], UNCHANGED <<db, op, items, at, written>>,
         n.reserved <= n.quantity,
         \A c \in Columns \ written[r][p] : e[c] = db[p][c],
         "consume" \notin Ops => n.quantity = InitQuantity /\ n.reserved # e.reserved
  PROVE  ReservedInv'
  <1> USE DEF ReservedInv
  <1>1. /\ mem' = [mem EXCEPT ![r][p] = n] /\ base' = [base EXCEPT ![r][p] = e]
    BY DEF Assign
  <1>2. /\ mem'[r][p] = n /\ base'[r][p] = e /\ pc'[r] = "flush"
        /\ \A q \in Requests, k \in Products : q # r \/ k # p =>
               mem'[q][k] = mem[q][k] /\ base'[q][k] = base[q][k]
        /\ \A q \in Requests \ {r} : mem'[q] = mem[q] /\ base'[q] = base[q] /\ pc'[q] = pc[q]
    BY <1>1 DEF TypeInv, TypeOK
  <1>3. OneAtATime'  BY <1>2 DEF OneAtATime, InFlight
  <1>4. CallsKnown'  BY <1>2 DEF CallsKnown, InFlight
  <1>5. OneDirtyEntity'
    <2>1. \A q \in Requests : Product(q)' = Product(q)  BY DEF Product, Current
    <2>2. \A k \in Products : base[r][k] = mem[r][k]  BY DEF OneDirtyEntity
    <2> QED  BY <1>2, <2>1, <2>2 DEF OneDirtyEntity
  <1>6. WholeCopies'
    <2> SUFFICES ASSUME NEW q \in Requests, NEW k \in Products, mem'[q][k] # Absent
                 PROVE  /\ mem'[q][k].reserved <= mem'[q][k].quantity
                        /\ db[k] # Absent =>
                              \A c \in Columns \ (written[q][k] \cup Dirty(q, k)') :
                                 mem'[q][k][c] = db[k][c]
                        /\ "consume" \notin Ops =>
                              /\ mem'[q][k].quantity = InitQuantity
                              /\ "reserved" \in written[q][k] \cup Dirty(q, k)'
      BY DEF WholeCopies
    <2>1. CASE q = r /\ k = p
      <3>1. Dirty(q, k)' = {c \in Columns : e[c] # n[c]}  BY <1>2, <2>1 DEF Dirty
      <3> QED  BY <1>2, <2>1, <3>1 DEF Columns
    <2>2. CASE q # r \/ k # p
      <3>1. mem'[q][k] = mem[q][k] /\ Dirty(q, k)' = Dirty(q, k)  BY <1>2, <2>2 DEF Dirty
      <3> QED  BY <3>1 DEF WholeCopies
    <2> QED  BY <2>1, <2>2
  <1> QED  BY <1>3, <1>4, <1>5, <1>6 DEF QuantitiesKept, ReservedWithinQuantity

(* The quantity of an item is at least one. *)
LEMMA WorksOnUnits ==
  ASSUME ReservedInv, NEW r \in Requests, InFlight(r)
  PROVE  Product(r) \in Products /\ Current(r).qty \in Nat \ {0}
  <1>1. items[r] \in Carts /\ at[r] \in 1..Len(items[r])
    BY DEF ReservedInv, CallsKnown, TypeInv, CallsUnderWay
  <1>2. items[r] \in Seq(Item)  BY <1>1, CartsOfItems
  <1>3. Current(r) \in Item  BY <1>1, <1>2 DEF Current
  <1> QED  BY <1>3, StockConstants DEF Product, Item

LEMMA ReserveReadReserved ==
  ASSUME ReservedInv, TypeInv', NEW r \in Requests, ReserveRead(r)
  PROVE  ReservedInv'
  <1> DEFINE p == Product(r)
             row == Seen(r, p)
             n == [row EXCEPT !.reserved = @ + Current(r).qty]
  <1>1. /\ pc[r] = "read" /\ InFlight(r) /\ db[p] # Absent /\ Available(row, Current(r).qty)
        /\ Assign(r, p, row, n) /\ pc' = [pc EXCEPT ![r] = "flush"]
        /\ UNCHANGED <<db, op, items, at, written>>
    BY DEF ReserveRead, InFlight, Goto, shared
  <1>2. p \in Products /\ Current(r).qty \in Nat \ {0}  BY <1>1, WorksOnUnits
  <1>3. base[r][p] = mem[r][p]  BY <1>1, <1>2 DEF ReservedInv, OneDirtyEntity
  <1>4. /\ row \in Row /\ row.reserved <= row.quantity
        /\ "consume" \notin Ops => row.quantity = InitQuantity
        /\ \A c \in Columns \ written[r][p] : row[c] = db[p][c]
    BY <1>1, <1>2, <1>3, SeenWhole
  <1> HIDE DEF row
  <1>5. n \in Row /\ n.quantity = row.quantity /\ n.reserved = row.reserved + Current(r).qty
    BY <1>2, <1>4 DEF Row
  <1>6. row.quantity \in Nat /\ row.reserved \in Nat  BY <1>4 DEF Row
  <1>7. n.reserved <= n.quantity /\ n.reserved # row.reserved
    BY <1>1, <1>2, <1>5, <1>6 DEF Available
  <1> HIDE DEF n, p
  <1> QED  BY <1>1, <1>2, <1>4, <1>5, <1>7, AssignReserved DEF p

LEMMA ConsumeReadReserved ==
  ASSUME ReservedInv, TypeInv', NEW r \in Requests, ConsumeRead(r)
  PROVE  ReservedInv'
  <1> DEFINE p == Product(r)
             row == db[p]
             qty == Current(r).qty
             n == [row EXCEPT !.quantity = @ - qty, !.reserved = AtLeastZero(@ - qty)]
  <1>1. /\ pc[r] = "read" /\ op[r] = "consume" /\ InFlight(r) /\ row.quantity >= qty
        /\ Assign(r, p, row, n) /\ pc' = [pc EXCEPT ![r] = "flush"]
        /\ UNCHANGED <<db, op, items, at, written>>
    BY DEF ConsumeRead, InFlight, Goto, shared
  <1>2. p \in Products /\ qty \in Nat \ {0}  BY <1>1, WorksOnUnits
  <1>3. row \in Row  BY <1>1, <1>2 DEF ReservedInv, TypeInv, TypeOK, Rows, Absent
  <1>4. row.reserved <= row.quantity  BY <1>2 DEF ReservedInv, ReservedWithinQuantity
  <1>5. "consume" \in Ops  BY <1>1 DEF ReservedInv, CallsKnown, Reserving
  <1> HIDE DEF qty
  <1>6. n \in Row /\ n.reserved <= n.quantity
    <2> DEFINE left == row.quantity - qty
               reserved == AtLeastZero(row.reserved - qty)
    <2>1. row.quantity \in Nat /\ row.reserved \in Nat  BY <1>3 DEF Row
    <2>2. left \in Nat /\ reserved \in Nat /\ reserved <= left
      BY <1>1, <1>2, <1>4, <2>1 DEF AtLeastZero
    <2>3. n = [row EXCEPT !.quantity = left, !.reserved = reserved]  OBVIOUS
    <2> HIDE DEF n, left, reserved, row
    <2>4. n.quantity = left /\ n.reserved = reserved  BY <1>3, <2>3 DEF Row
    <2> QED  BY <1>3, <2>2, <2>3, <2>4 DEF Row
  <1>7. \A c \in Columns \ written[r][p] : row[c] = db[p][c]  OBVIOUS
  <1>8. p = Product(r)  OBVIOUS
  <1> HIDE DEF n, row, p
  <1> QED  BY <1>1, <1>2, <1>3, <1>5, <1>6, <1>7, <1>8, AssignReserved

LEMMA FlushReserved ==
  ASSUME ReservedInv, TypeInv', NEW r \in Requests, Flush(r)
  PROVE  ReservedInv'
  <1> USE DEF ReservedInv
  <1> DEFINE p == Product(r)
             cols == Dirty(r, p)
  <1>1. /\ pc[r] = "flush" /\ InFlight(r)
        /\ UNCHANGED <<db, op, items, mem>>
        /\ written' = [written EXCEPT ![r][p] = @ \cup cols]
        /\ base' = [base EXCEPT ![r][p] = mem[r][p]]
        /\ \E step \in {"commit", "read"} : pc' = [pc EXCEPT ![r] = step]
    BY DEF Flush, Goto, InFlight
  <1>2. p \in Products  BY <1>1, WorksOn
  <1>3. /\ written'[r][p] = written[r][p] \cup cols /\ base'[r][p] = mem[r][p]
        /\ pc'[r] \in {"commit", "read"}
        /\ \A q \in Requests, k \in Products : q # r \/ k # p =>
               written'[q][k] = written[q][k] /\ base'[q][k] = base[q][k]
        /\ \A q \in Requests \ {r} :
               pc'[q] = pc[q] /\ written'[q] = written[q] /\ base'[q] = base[q]
    BY <1>1, <1>2 DEF TypeInv, TypeOK
  <1>4. OneAtATime'  BY <1>1, <1>3 DEF OneAtATime, InFlight
  <1>5. CallsKnown'  BY <1>1, <1>3 DEF CallsKnown, InFlight
  <1>6. OneDirtyEntity'
    <2> SUFFICES ASSUME NEW q \in Requests, NEW k \in Products,
                        pc'[q] # "flush" \/ k # Product(q)'
                 PROVE  base'[q][k] = mem[q][k]
      BY <1>1 DEF OneDirtyEntity
    <2>1. CASE q = r /\ k = p  BY <1>3, <2>1
    <2>2. CASE q = r /\ k # p  BY <1>3, <2>2 DEF OneDirtyEntity
    <2>3. CASE q # r
      <3>1. pc'[q] = pc[q] /\ at'[q] = at[q]  BY <1>3, <2>3, NextItem DEF Flush, InFlight
      <3>2. Product(q)' = Product(q)  BY <1>1, <3>1 DEF Product, Current
      <3> QED  BY <1>3, <2>3, <3>1, <3>2 DEF OneDirtyEntity
    <2> QED  BY <2>1, <2>2, <2>3
  <1>7. \A q \in Requests, k \in Products :
           (written[q][k] \cup Dirty(q, k))' = written[q][k] \cup Dirty(q, k)
    <2> SUFFICES ASSUME NEW q \in Requests, NEW k \in Products
                 PROVE  written'[q][k] \cup Dirty(q, k)' = written[q][k] \cup Dirty(q, k)
      OBVIOUS
    <2>1. CASE q = r /\ k = p
      <3>1. Dirty(q, k)' = {}  BY <1>1, <1>3, <2>1 DEF Dirty
      <3> QED  BY <1>3, <2>1, <3>1
    <2>2. CASE q # r \/ k # p  BY <1>1, <1>3, <2>2 DEF Dirty
    <2> QED  BY <2>1, <2>2
  <1>8. WholeCopies'  BY <1>1, <1>7 DEF WholeCopies
  <1> QED  BY <1>1, <1>4, <1>5, <1>6, <1>8 DEF QuantitiesKept, ReservedWithinQuantity

LEMMA SkippedReserved ==
  ASSUME ReservedInv, TypeInv', NEW r \in Requests, ReserveSkipped(r)
  PROVE  ReservedInv'
  <1> USE DEF ReservedInv
  <1>1. /\ pc[r] = "read" /\ InFlight(r) /\ UNCHANGED <<db, op, items, mem, base, written>>
        /\ \E step \in {"commit", "read"} : pc' = [pc EXCEPT ![r] = step]
        /\ \A q \in Requests \ {r} : at'[q] = at[q]
    BY NextItem DEF ReserveSkipped, Goto, shared, InFlight
  <1>2. pc'[r] \in {"commit", "read"} /\ \A q \in Requests \ {r} : pc'[q] = pc[q]
    BY <1>1 DEF TypeInv, TypeOK
  <1>3. OneAtATime'  BY <1>1, <1>2 DEF OneAtATime, InFlight
  <1>4. CallsKnown'  BY <1>1, <1>2 DEF CallsKnown, InFlight
  <1>5. OneDirtyEntity'  BY <1>1, <1>2 DEF OneDirtyEntity, Product, Current
  <1>6. WholeCopies'  BY <1>1 DEF WholeCopies, Dirty
  <1> QED  BY <1>1, <1>3, <1>4, <1>5, <1>6 DEF QuantitiesKept, ReservedWithinQuantity

LEMMA CrashReserved ==
  ASSUME ReservedInv, TypeInv', Crash
  PROVE  ReservedInv'
  <1> USE DEF ReservedInv
  <1>1. /\ UNCHANGED db
        /\ pc' = [r \in Requests |-> IF InFlight(r) THEN "done" ELSE pc[r]]
        /\ mem' = [r \in Requests |-> NoRows] /\ base' = [r \in Requests |-> NoRows]
        /\ written' = [r \in Requests |-> NoColumns]
    BY DEF Crash, shared
  <1>2. \A r \in Requests : ~InFlight(r)'  BY <1>1 DEF InFlight
  <1>3. OneAtATime'  BY <1>2 DEF OneAtATime
  <1>4. CallsKnown'  BY <1>1, <1>2 DEF CallsKnown, InFlight
  <1>5. OneDirtyEntity'  BY <1>1 DEF OneDirtyEntity
  <1>6. WholeCopies'  BY <1>1 DEF WholeCopies, NoRows
  <1> QED  BY <1>1, <1>3, <1>4, <1>5, <1>6 DEF QuantitiesKept, ReservedWithinQuantity

LEMMA InitReserved == Init => ReservedInv
  <1> SUFFICES ASSUME Init PROVE ReservedInv
    OBVIOUS
  <1>1. PICK stocked \in SUBSET Products :
          db = [p \in Products |-> IF p \in stocked THEN SeedRow ELSE Absent]
    BY DEF Init
  <1>2. \A r \in Requests : ~InFlight(r)  BY DEF Init, InFlight
  <1>3. OneAtATime /\ CallsKnown  BY <1>2 DEF Init, OneAtATime, CallsKnown, InFlight
  <1>4. OneDirtyEntity /\ WholeCopies  BY DEF Init, OneDirtyEntity, WholeCopies, NoRows
  <1>5. QuantitiesKept  BY <1>1 DEF QuantitiesKept, SeedRow
  <1>6. ReservedWithinQuantity
    BY <1>1, StockConstants DEF ReservedWithinQuantity, SeedRow, Absent
  <1> QED  BY <1>3, <1>4, <1>5, <1>6, InitTyped DEF ReservedInv

LEMMA NextReserved ==
  ASSUME Undisturbed, ReservedInv, [Next]_vars
  PROVE  ReservedInv'
  <1>1. TypeInv'  BY NextTyped DEF ReservedInv
  <1>2. CASE UNCHANGED vars
    BY <1>2 DEF vars, shared, session, ReservedInv, OneAtATime, CallsKnown, OneDirtyEntity,
                WholeCopies, QuantitiesKept, ReservedWithinQuantity, TypeInv, TypeOK, LockedRowsExist,
                CallsUnderWay, InFlight, Product, Current, Dirty
  <1>3. ASSUME NEW r \in Requests, Begin(r)  PROVE ReservedInv'
    <2>1. ~PutStart(r) /\ ~PostStart(r)
      BY DEF PutStart, PostStart, CanStart, Unposted, Undisturbed
    <2>2. CASE OrderStart(r)  BY <1>1, <2>2, StartReserved DEF OrderStart, Reserving
    <2>3. CASE ReserveStart(r) \/ ConsumeStart(r)
      <3>1. PICK i \in Item : Start(r, "reserve", <<i>>) \/ Start(r, "consume", <<i>>)
        BY <2>3 DEF ReserveStart, ConsumeStart
      <3>2. <<i>> \in [1..1 -> Item] /\ 1 \in 1..MaxItems  BY StockConstants
      <3>3. <<i>> \in Carts  BY <3>2 DEF Carts
      <3> QED  BY <1>1, <3>1, <3>3, StartReserved DEF Reserving
    <2>4. CASE DeleteOrder(r)  BY <1>1, <2>4, AbortReserved DEF DeleteOrder
    <2> QED  BY <1>1, <1>3, <2>1, <2>2, <2>3, <2>4, DeleteStockReserved DEF Begin
  <1>4. ASSUME NEW r \in Requests, Continue(r)  PROVE ReservedInv'
    <2>1. pc[r] \in {"idle", "read", "flush", "commit", "done"}  BY DEF ReservedInv, CallsKnown
    <2>2. ~AlertAfterCommit(r) /\ ~Insert(r) /\ ~InsertFails(r)
      BY <2>1 DEF AlertAfterCommit, Insert, InsertFails
    <2>3. CASE Refused(r) \/ FlushStale(r) \/ AlertCacheFails(r)
      BY <1>1, <2>3, AbortReserved DEF Refused, FlushStale, AlertCacheFails, shared
    <2> QED
      BY <1>1, <1>4, <2>2, <2>3, ReserveReadReserved, SkippedReserved, ConsumeReadReserved,
         FlushReserved, CommitReserved DEF Continue
  <1>5. ASSUME NEW r \in Requests, DeadlockAbort(r)  PROVE ReservedInv'
    BY <1>1, <1>5, AbortReserved DEF DeadlockAbort, shared
  <1> QED  BY <1>1, <1>2, <1>3, <1>4, <1>5, CrashReserved DEF Next, AllDone

(* No row has more units reserved than it has, as long as calls do not overlap   *)
(* or no call consumes: reserve_stock's test of what is available and          *)
(* consume_stock's max(0, ...) fit together, a session that reserves the same   *)
(* product twice sees its own UPDATE, and an order that fails, deadlocks or     *)
(* crashes half-way leaves nothing behind.                                   *)
THEOREM ReservedStaysWithinQuantity ==
  ASSUME Undisturbed
  PROVE  Spec => []ReservedWithinQuantity
  <1>1. Init => ReservedInv  BY InitReserved
  <1>2. ReservedInv /\ [Next]_vars => ReservedInv'  BY NextReserved
  <1>3. ReservedInv => ReservedWithinQuantity  BY DEF ReservedInv
  <1> QED  BY <1>1, <1>2, <1>3, PTL DEF Spec

---------------------------------------------------------------------------
(***************************************************************************)
(* Reserved units and promised units.  Promised(p) sums the claims of all    *)
(* calls; a commit adds the grant of its call to it.  Nothing is taken back   *)
(* as long as no order is deleted, and reserved_quantity is set by           *)
(* reservations and consumptions only.                                     *)
(***************************************************************************)
Promising == {"order", "reserve", "consume", "delete"}

ClaimsAtEnd ==
    \A r \in Requests :
       /\ pc[r] \in {"idle", "read", "flush", "commit", "done"} /\ op[r] # "put"
       /\ pc[r] # "done" => claims[r] = Nothing
       /\ ~InFlight(r) => grant[r] = Nothing /\ mem[r] = NoRows

(* What a session holds is covered by what has been promised so far.           *)
CopiesCovered ==
    \A r \in Requests, p \in Products : mem[r][p].reserved <= Promised(p) + grant[r][p]

CoveredInv == TypeInv /\ ClaimsAtEnd /\ CopiesCovered /\ NoPhantomReservation

(* What the only session there is holds is what has been promised exactly,      *)
(* as long as the product has not been consumed; consumption shows in the       *)
(* quantity.                                                               *)
CopiesExact ==
    \A r \in Requests, p \in Products :
       /\ mem[r][p] = Absent => grant[r][p] = 0
       /\ mem[r][p].quantity = InitQuantity => mem[r][p].reserved = Promised(p) + grant[r][p]

NeverRefilled ==
    \A p \in Products :
       /\ db[p].quantity <= InitQuantity
       /\ \A r \in Requests : mem[r][p].quantity <= InitQuantity

ExactInv == ReservedInv /\ ClaimsAtEnd /\ CopiesExact /\ NeverRefilled /\ ReservationsExact

LEMMA UnitsClaimed ==
  ASSUME IsFiniteSet(Requests), NEW c \in [Requests -> [Products -> Nat]], NEW p \in Products
  PROVE  SumFunction([r \in Requests |-> c[r][p]]) \in Nat
  <1> DEFINE units == [r \in Requests |-> c[r][p]]
  <1>1. units \in [Requests -> Int] /\ \A r \in Requests : units[r] >= 0 /\ DOMAIN units = Requests
    OBVIOUS
  <1> HIDE DEF units
  <1>2. SumFunctionOnSet(units, Requests) \in Nat  BY <1>1, SumNat
  <1> QED  BY <1>1, <1>2 DEF SumFunction, units

LEMMA PromisedUnits ==
  ASSUME TypeInv, IsFiniteSet(Requests), NEW p \in Products
  PROVE  Promised(p) \in Nat
  BY UnitsClaimed DEF Promised, TypeInv, TypeOK

(* A commit adds the grant of the call to what has been promised. *)
LEMMA PromisedMore ==
  ASSUME TypeInv, IsFiniteSet(Requests), NEW r \in Requests, NEW p \in Products,
         claims[r] = Nothing, claims' = [claims EXCEPT ![r] = grant[r]]
  PROVE  Promised(p)' = Promised(p) + grant[r][p]
  <1> DEFINE units == [q \in Requests |-> claims[q][p]]
             after == [q \in Requests |-> claims'[q][p]]
  <1>1. claims' \in [Requests -> [Products -> Nat]] /\ claims'[r] = grant[r]
        /\ \A q \in Requests \ {r} : claims'[q] = claims[q]
    BY DEF TypeInv, TypeOK
  <1>2. /\ units \in [Requests -> Int] /\ DOMAIN units = Requests /\ units[r] = 0
        /\ after \in [Requests -> Int] /\ DOMAIN after = Requests /\ after[r] = grant[r][p]
        /\ \A q \in Requests \ {r} : after[q] = units[q]
    BY <1>1 DEF TypeInv, TypeOK, Nothing
  <1>3. Promised(p) = SumFunctionOnSet(units, Requests)
        /\ Promised(p)' = SumFunctionOnSet(after, Requests)
    BY <1>2 DEF Promised, SumFunction
  <1> HIDE DEF units, after
  <1>4. SumFunctionOnSet(after, Requests) = SumFunctionOnSet(units, Requests) - units[r] + after[r]
    BY <1>2, SumChange
  <1>5. SumFunctionOnSet(units, Requests) \in Int  BY <1>2, SumInt
  <1>6. grant[r][p] \in Int  BY DEF TypeInv, TypeOK
  <1> QED  BY <1>2, <1>3, <1>4, <1>5, <1>6

LEMMA PromisedSame ==
  ASSUME UNCHANGED claims, NEW p \in Products
  PROVE  Promised(p)' = Promised(p)
  BY DEF Promised

(* A session that closes, and what it may do to the claims. *)
LEMMA CloseAtEnd ==
  ASSUME TypeInv, ClaimsAtEnd, NEW r \in Requests, Close(r),
         \A q \in Requests \ {r} : claims'[q] = claims[q]
  PROVE  ClaimsAtEnd'
  <1>1. /\ pc'[r] = "done" /\ op'[r] = "none" /\ mem'[r] = NoRows /\ grant'[r] = Nothing
        /\ \A q \in Requests \ {r} : /\ pc'[q] = pc[q] /\ op'[q] = op[q]
                                     /\ mem'[q] = mem[q] /\ grant'[q] = grant[q]
    BY DEF Close, Goto, TypeInv, TypeOK
  <1> QED  BY <1>1 DEF ClaimsAtEnd, InFlight

(* A session that goes on. *)
LEMMA GoOnAtEnd ==
  ASSUME TypeInv, ClaimsAtEnd, NEW r \in Requests, pc[r] # "done", UNCHANGED claims,
         NEW step \in {"read", "flush", "commit"}, pc' = [pc EXCEPT ![r] = step],
         op'[r] # "put", \A q \in Requests \ {r} : op'[q] = op[q] /\ mem'[q] = mem[q] /\ grant'[q] = grant[q]
  PROVE  ClaimsAtEnd'
  <1>1. pc'[r] = step /\ \A q \in Requests \ {r} : pc'[q] = pc[q]
    BY DEF TypeInv, TypeOK
  <1> QED  BY <1>1 DEF ClaimsAtEnd, InFlight

(* The handlers left by Promising, and what each step does to the claims. *)
LEMMA PromisingSteps ==
  ASSUME Ops \subseteq Promising, ClaimsAtEnd, NEW r \in Requests,
         Begin(r) \/ Continue(r) \/ DeadlockAbort(r)
  PROVE  \/ \E o \in {"order", "reserve", "consume"} : \E cart : Start(r, o, cart)
         \/ ReserveRead(r) \/ ReserveSkipped(r) \/ ConsumeRead(r) \/ Flush(r)
         \/ Commit(r) /\ Close(r)
         \/ Close(r) /\ UNCHANGED <<db, claims>>
         \/ DeleteStock(r)
  <1>1. pc[r] \in {"idle", "read", "flush", "commit", "done"} /\ op[r] # "put"
    BY DEF ClaimsAtEnd
  <1>2. CASE Begin(r)
    <2>1. ~PutStart(r) /\ ~PostStart(r) /\ ~DeleteOrder(r)
      BY DEF PutStart, PostStart, DeleteOrder, CanStart, Promising
    <2> QED  BY <1>2, <2>1 DEF Begin, OrderStart, ReserveStart, ConsumeStart
  <1>3. CASE Continue(r)
    <2>1. ~AlertAfterCommit(r) /\ ~Insert(r) /\ ~InsertFails(r)
      BY <1>1 DEF AlertAfterCommit, Insert, InsertFails
    <2>2. CASE Refused(r) \/ FlushStale(r) \/ AlertCacheFails(r)
      BY <2>2 DEF Refused, FlushStale, AlertCacheFails, shared
    <2>3. CASE Commit(r)  BY <1>1, <2>3 DEF Commit
    <2> QED  BY <1>3, <2>1, <2>2, <2>3 DEF Continue
  <1>4. CASE DeadlockAbort(r)  BY <1>4 DEF DeadlockAbort, shared
  <1> QED  BY <1>2, <1>3, <1>4

LEMMA NextAtEnd ==
  ASSUME Ops \subseteq Promising, TypeInv, ClaimsAtEnd, [Next]_vars
  PROVE  ClaimsAtEnd'
  <1>1. CASE UNCHANGED vars
    BY <1>1 DEF vars, shared, session, ClaimsAtEnd, InFlight
  <1>2. CASE Crash
    BY <1>2 DEF Crash, shared, ClaimsAtEnd, InFlight, TypeInv, TypeOK
  <1>3. ASSUME NEW r \in Requests, Begin(r) \/ Continue(r) \/ DeadlockAbort(r)
        PROVE  ClaimsAtEnd'
    <2>1. ASSUME NEW o \in {"order", "reserve", "consume"}, NEW cart, Start(r, o, cart)
          PROVE  ClaimsAtEnd'
      <3>1. pc[r] # "done" /\ pc' = [pc EXCEPT ![r] = "read"] /\ UNCHANGED <<claims, mem, grant>>
            /\ op'[r] # "put" /\ \A q \in Requests \ {r} : op'[q] = op[q]
        BY <2>1 DEF Start, CanStart, Goto, shared, TypeInv, TypeOK
      <3> QED  BY <3>1, GoOnAtEnd
    <2>2. CASE ReserveRead(r) \/ ConsumeRead(r)
      <3>1. /\ pc[r] = "read" /\ pc' = [pc EXCEPT ![r] = "flush"] /\ UNCHANGED <<claims, op>>
            /\ \A q \in Requests \ {r} : mem'[q] = mem[q] /\ grant'[q] = grant[q]
        BY <2>2 DEF ReserveRead, ConsumeRead, Goto, Assign, shared, TypeInv, TypeOK
      <3>2. op[r] # "put"  BY DEF ClaimsAtEnd
      <3> QED  BY <3>1, <3>2, GoOnAtEnd
    <2>3. CASE ReserveSkipped(r) \/ Flush(r)
      <3>1. /\ pc[r] \in {"read", "flush"} /\ UNCHANGED <<claims, op, mem, grant>>
            /\ \E step \in {"read", "commit"} : pc' = [pc EXCEPT ![r] = step]
        BY <2>3 DEF ReserveSkipped, Flush, Goto, shared
      <3>2. op[r] # "put"  BY DEF ClaimsAtEnd
      <3> QED  BY <3>1, <3>2, GoOnAtEnd
    <2>4. CASE Close(r) /\ (Commit(r) \/ UNCHANGED claims \/ DeleteStock(r))
      <3>1. \A q \in Requests \ {r} : claims'[q] = claims[q]
        BY <2>4 DEF Commit, DeleteStock, TypeInv, TypeOK
      <3> QED  BY <2>4, <3>1, CloseAtEnd
    <2> QED  BY <1>3, <2>1, <2>2, <2>3, <2>4, PromisingSteps DEF DeleteStock
  <1> QED  BY <1>1, <1>2, <1>3 DEF Next, AllDone

LEMMA InitAtEnd == Init => ClaimsAtEnd
  BY DEF Init, ClaimsAtEnd, InFlight

---------------------------------------------------------------------------
(* What a session reads of an existing row is covered. *)
LEMMA SeenCovered ==
  ASSUME CoveredInv, IsFiniteSet(Requests), NEW r \in Requests, NEW p \in Products
  PROVE  Seen(r, p).reserved <= Promised(p) + grant[r][p]
  <1>1. Promised(p) \in Nat /\ grant[r][p] \in Nat /\ db[p] \in Rows
    BY PromisedUnits DEF CoveredInv, TypeInv, TypeOK
  <1>2. db[p].reserved <= Promised(p) /\ mem[r][p].reserved <= Promised(p) + grant[r][p]
    BY DEF CoveredInv, CopiesCovered, NoPhantomReservation
  <1>3. CASE db[p] \in Row
    <2>1. written[r][p] # {} => mem[r][p] \in Row
      BY DEF CoveredInv, TypeInv, LockedRowsExist
    <2>2. Seen(r, p).reserved = IF "reserved" \in written[r][p] THEN mem[r][p].reserved ELSE db[p].reserved
      BY <1>3, <2>1, MergeRows DEF Seen
    <2>3. db[p].reserved \in Nat  BY <1>3 DEF Row
    <2> QED  BY <1>1, <1>2, <2>2, <2>3
  <1>4. CASE db[p] = Absent
    <2>1. written[r][p] = {}  BY <1>4, AbsentIsNoRow DEF CoveredInv, TypeInv, LockedRowsExist
    <2>2. Seen(r, p).reserved = -1  BY <1>4, <2>1, SeenRow DEF CoveredInv, Absent
    <2> QED  BY <1>1, <2>2
  <1> QED  BY <1>1, <1>3, <1>4 DEF Rows

LEMMA NextCovered ==
  ASSUME Ops \subseteq Promising, IsFiniteSet(Requests), CoveredInv, [Next]_vars
  PROVE  CoveredInv'
  <1> USE DEF CoveredInv
  <1>1. TypeInv' /\ ClaimsAtEnd'  BY NextTyped, NextAtEnd
  <1>2. \A p \in Products : Promised(p) \in Nat /\ Promised(p)' \in Nat
    <2>1. claims' \in [Requests -> [Products -> Nat]]  BY <1>1 DEF TypeInv, TypeOK
    <2> QED  BY <2>1, PromisedUnits, UnitsClaimed DEF Promised
  <1>3. ASSUME UNCHANGED claims PROVE \A p \in Products : Promised(p)' = Promised(p)
    BY <1>3, PromisedSame
  <1>4. \A p \in Products : NoRows[p].reserved = -1 /\ Nothing[p] = 0
    BY DEF NoRows, Absent, Nothing
  <1>5. SUFFICES CopiesCovered' /\ NoPhantomReservation'
    BY <1>1
  <1>6. CASE UNCHANGED vars
    BY <1>6, <1>3 DEF vars, shared, session, CopiesCovered, NoPhantomReservation
  <1>7. CASE Crash
    <2>1. UNCHANGED <<claims, db>> /\ \A r \in Requests : mem'[r] = NoRows /\ grant'[r] = Nothing
      BY <1>7 DEF Crash, shared
    <2> QED  BY <1>2, <1>3, <1>4, <2>1 DEF CopiesCovered, NoPhantomReservation
  <1>8. ASSUME NEW r \in Requests, Begin(r) \/ Continue(r) \/ DeadlockAbort(r)
        PROVE  CopiesCovered' /\ NoPhantomReservation'
    <2>1. ASSUME NEW o \in {"order", "reserve", "consume"}, NEW cart, Start(r, o, cart)
          PROVE  CopiesCovered' /\ NoPhantomReservation'
      BY <1>3, <2>1 DEF Start, shared, CopiesCovered, NoPhantomReservation
    <2>2. CASE ReserveRead(r) \/ ConsumeRead(r)
      <3> DEFINE k == Product(r)
                 qty == Current(r).qty
      <3>1. pc[r] = "read" /\ k \in Products /\ qty \in Nat
        BY <2>2, WorksOn DEF ReserveRead, ConsumeRead, InFlight
      <3>2. UNCHANGED <<claims, db>>  BY <2>2 DEF ReserveRead, ConsumeRead, shared
      <3>3. mem'[r][k].reserved <= Promised(k) + grant'[r][k]
        <4>1. CASE ReserveRead(r)
          <5> DEFINE row == Seen(r, k)
                     n == [row EXCEPT !.reserved = @ + qty]
          <5>1. /\ mem' = [mem EXCEPT ![r][k] = n] /\ db[k] # Absent
                /\ grant' = [grant EXCEPT ![r][k] = @ + qty]
            BY <4>1 DEF ReserveRead, Assign
          <5>2. row \in Row /\ row.reserved <= Promised(k) + grant[r][k]
            BY <3>1, <5>1, SeenRow, SeenCovered
          <5> HIDE DEF row, k, qty
          <5>3. n.reserved = row.reserved + qty /\ row.reserved \in Nat  BY <5>2 DEF Row
          <5> HIDE DEF n
          <5>4. mem'[r][k] = n /\ grant'[r][k] = grant[r][k] + qty /\ grant[r][k] \in Nat
            BY <3>1, <5>1 DEF TypeInv, TypeOK
          <5> QED  BY <1>2, <3>1, <5>2, <5>3, <5>4
        <4>2. CASE ConsumeRead(r)
          <5> DEFINE row == db[k]
                     n == [row EXCEPT !.quantity = @ - qty, !.reserved = AtLeastZero(@ - qty)]
          <5>1. mem' = [mem EXCEPT ![r][k] = n] /\ row.quantity >= qty /\ UNCHANGED grant
            BY <4>2 DEF ConsumeRead, Assign
          <5>2. row \in Row /\ row.reserved <= Promised(k) /\ grant[r][k] \in Nat
            BY <3>1, <5>1 DEF TypeInv, TypeOK, Rows, Absent, NoPhantomReservation
          <5> HIDE DEF row, k, qty
          <5>3. n.reserved = AtLeastZero(row.reserved - qty) /\ row.reserved \in Nat
            BY <5>2 DEF Row
          <5> HIDE DEF n
          <5>4. mem'[r][k] = n  BY <3>1, <5>1 DEF TypeInv, TypeOK
          <5>5. AtLeastZero(row.reserved - qty) <= row.reserved  BY <3>1, <5>3 DEF AtLeastZero
          <5>6. AtLeastZero(row.reserved - qty) \in Int  BY <3>1, <5>3 DEF AtLeastZero
          <5> QED  BY <1>2, <3>1, <5>1, <5>2, <5>3, <5>4, <5>5, <5>6
        <4> QED  BY <2>2, <4>1, <4>2
      <3>4. \A q \in Requests, p \in Products : q # r \/ p # k =>
               mem'[q][p] = mem[q][p] /\ grant'[q][p] = grant[q][p]
        BY <2>2, <3>1 DEF ReserveRead, ConsumeRead, Assign, TypeInv, TypeOK
      <3> HIDE DEF k, qty
      <3> QED  BY <1>3, <3>1, <3>2, <3>3, <3>4 DEF CopiesCovered, NoPhantomReservation
    <2>3. CASE ReserveSkipped(r) \/ Flush(r)
      BY <1>3, <2>3 DEF ReserveSkipped, Flush, shared, CopiesCovered, NoPhantomReservation
    <2>4. ASSUME Close(r), \A p \in Products : /\ Promised(p) <= Promised(p)'
                                               /\ db'[p].reserved <= Promised(p)'
          PROVE  CopiesCovered' /\ NoPhantomReservation'
      <3>1. /\ mem'[r] = NoRows /\ grant'[r] = Nothing
            /\ \A q \in Requests \ {r} : mem'[q] = mem[q] /\ grant'[q] = grant[q]
        BY <2>4 DEF Close, TypeInv, TypeOK
      <3> SUFFICES ASSUME NEW q \in Requests, NEW p \in Products
                   PROVE  mem'[q][p].reserved <= Promised(p)' + grant'[q][p]
        BY <2>4 DEF CopiesCovered, NoPhantomReservation
      <3>2. CASE q = r  BY <1>2, <1>4, <3>1, <3>2
      <3>3. CASE q # r
        <4>1. mem[q][p].reserved <= Promised(p) + grant[q][p]  BY DEF CopiesCovered
        <4>2. mem[q][p].reserved \in Int /\ grant[q][p] \in Nat
          BY DEF TypeInv, TypeOK, Rows, Row, Absent
        <4> QED  BY <1>2, <2>4, <3>1, <3>3, <4>1, <4>2
      <3> QED  BY <3>2, <3>3
    <2>5. CASE Commit(r) /\ Close(r)
      <3>1. /\ claims' = [claims EXCEPT ![r] = grant[r]] /\ pc[r] = "commit"
            /\ db' = [p \in Products |-> Seen(r, p)]
        BY <2>5 DEF Commit
      <3>2. claims[r] = Nothing  BY <3>1 DEF ClaimsAtEnd
      <3>3. ASSUME NEW p \in Products
            PROVE  Promised(p)' = Promised(p) + grant[r][p] /\ grant[r][p] \in Nat
        <4>1. Promised(p)' = Promised(p) + grant[r][p]  BY <3>1, <3>2, PromisedMore
        <4> QED  BY <4>1 DEF TypeInv, TypeOK
      <3>4. \A p \in Products : db'[p].reserved <= Promised(p)'
        BY <3>1, <3>3, SeenCovered
      <3> QED  BY <1>2, <2>4, <2>5, <3>3, <3>4
    <2>6. CASE Close(r) /\ UNCHANGED claims /\ (UNCHANGED db \/ DeleteStock(r))
      <3>1. \A p \in Products : db'[p] = db[p] \/ db'[p] = Absent
        BY <2>6 DEF DeleteStock, TypeInv, TypeOK
      <3>2. \A p \in Products : db[p].reserved <= Promised(p)  BY DEF NoPhantomReservation
      <3>3. Absent.reserved = -1  BY DEF Absent
      <3> QED  BY <1>2, <1>3, <2>4, <2>6, <3>1, <3>2, <3>3
    <2> QED
      BY <1>8, <2>1, <2>2, <2>3, <2>5, <2>6, PromisingSteps DEF DeleteStock
  <1> QED  BY <1>6, <1>7, <1>8 DEF Next, AllDone

(* Every reserved unit of a row was promised by a call that committed, however   *)
(* calls overlap, wait for each other's locks, abort or crash, as long as        *)
(* reservations, consumptions and deletions of rows are all there is.          *)
THEOREM NothingReservedUnpromised ==
  ASSUME IsFiniteSet(Requests), Ops \subseteq Promising
  PROVE  Spec => []NoPhantomReservation
  <1>1. Init => CoveredInv
    <2> SUFFICES ASSUME Init PROVE CoveredInv
      OBVIOUS
    <2>1. TypeInv /\ ClaimsAtEnd  BY InitTyped, InitAtEnd
    <2>2. \A p \in Products : Promised(p) \in Nat  BY <2>1, PromisedUnits
    <2>3. /\ \A p \in Products : db[p].reserved <= 0
          /\ \A r \in Requests, p \in Products : mem[r][p].reserved = -1 /\ grant[r][p] = 0
      BY DEF Init, NoRows, Absent, SeedRow, Nothing
    <2>4. \A p \in Products : db[p].reserved \in Int
      BY <2>1 DEF TypeInv, TypeOK, Rows, Row, Absent
    <2> QED  BY <2>1, <2>2, <2>3, <2>4 DEF CoveredInv, CopiesCovered, NoPhantomReservation
  <1>2. CoveredInv /\ [Next]_vars => CoveredInv'  BY NextCovered
  <1>3. CoveredInv => NoPhantomReservation  BY DEF CoveredInv
  <1> QED  BY <1>1, <1>2, <1>3, PTL DEF Spec

---------------------------------------------------------------------------
(* With nothing dirty, an existing row that the session has read is seen as the  *)
(* session's copy, and any other as committed.                               *)
LEMMA SeenExact ==
  ASSUME ExactInv, NEW r \in Requests, NEW p \in Products, base[r][p] = mem[r][p]
  PROVE  /\ Seen(r, p).quantity <= InitQuantity
         /\ Seen(r, p).quantity = InitQuantity => Seen(r, p).reserved = Promised(p) + grant[r][p]
  <1> USE DEF ExactInv, ReservedInv
  <1>1. CASE db[p] = Absent
    <2>1. written[r][p] = {}  BY <1>1, AbsentIsNoRow DEF TypeInv, LockedRowsExist
    <2>2. Seen(r, p).quantity = -1  BY <1>1, <2>1, SeenRow DEF Absent
    <2> QED  BY <2>2, StockConstants
  <1>2. CASE db[p] # Absent /\ mem[r][p] = Absent
    <2>1. written[r][p] = {}  BY <1>2, AbsentIsNoRow DEF TypeInv, LockedRowsExist
    <2>2. Seen(r, p) = db[p] /\ grant[r][p] = 0  BY <1>2, <2>1, SeenRow DEF CopiesExact
    <2>3. db[p].reserved \in Int  BY <1>2 DEF TypeInv, TypeOK, Rows, Row
    <2>4. db[p].quantity = InitQuantity => db[p].reserved = Promised(p)
      BY DEF ReservationsExact
    <2>5. db[p].quantity <= InitQuantity  BY DEF NeverRefilled
    <2> QED  BY <2>2, <2>3, <2>4, <2>5
  <1>3. CASE db[p] # Absent /\ mem[r][p] # Absent
    <2>1. db[p] \in Row /\ (written[r][p] # {} => mem[r][p] \in Row) /\ written[r][p] \in SUBSET Columns
      BY <1>3 DEF TypeInv, TypeOK, LockedRowsExist, Rows
    <2>2. /\ Seen(r, p).quantity = IF "quantity" \in written[r][p] THEN mem[r][p].quantity ELSE db[p].quantity
          /\ Seen(r, p).reserved = IF "reserved" \in written[r][p] THEN mem[r][p].reserved ELSE db[p].reserved
      BY <2>1, MergeRows DEF Seen
    <2>3. \A c \in Columns \ written[r][p] : mem[r][p][c] = db[p][c]
      BY <1>3 DEF WholeCopies, Dirty
    <2>4. Seen(r, p).quantity = mem[r][p].quantity /\ Seen(r, p).reserved = mem[r][p].reserved
      BY <2>2, <2>3 DEF Columns
    <2> QED  BY <2>4 DEF CopiesExact, NeverRefilled
  <1> QED  BY <1>1, <1>2, <1>3

LEMMA NextExact ==
  ASSUME MaxInFlight = 1, Ops \subseteq Promising, IsFiniteSet(Requests), ExactInv, [Next]_vars
  PROVE  ExactInv'
  <1> USE DEF ExactInv
  <1>1. ReservedInv' /\ ClaimsAtEnd'
    <2>1. Undisturbed  BY DEF Undisturbed, Promising, Unposted
    <2> QED  BY <2>1, NextReserved, NextAtEnd DEF ReservedInv
  <1>2. ASSUME UNCHANGED claims PROVE \A p \in Products : Promised(p)' = Promised(p)
    BY <1>2, PromisedSame
  <1>3. /\ InitQuantity \in Nat /\ Absent.quantity = -1
        /\ \A p \in Products : NoRows[p] = Absent /\ Nothing[p] = 0
    BY StockConstants DEF NoRows, Absent, Nothing
  <1>4. SUFFICES CopiesExact' /\ NeverRefilled' /\ ReservationsExact'
    BY <1>1
  <1>5. ASSUME UNCHANGED <<claims, mem, grant, db>>
        PROVE  CopiesExact' /\ NeverRefilled' /\ ReservationsExact'
    BY <1>2, <1>5 DEF CopiesExact, NeverRefilled, ReservationsExact
  <1>6. CASE UNCHANGED vars  BY <1>5, <1>6 DEF vars, shared, session
  <1>7. CASE Crash
    <2>1. UNCHANGED <<claims, db>> /\ \A r \in Requests : mem'[r] = NoRows /\ grant'[r] = Nothing
      BY <1>7 DEF Crash, shared
    <2> QED  BY <1>2, <1>3, <2>1 DEF CopiesExact, NeverRefilled, ReservationsExact
  <1>8. ASSUME NEW r \in Requests, Begin(r) \/ Continue(r) \/ DeadlockAbort(r)
        PROVE  CopiesExact' /\ NeverRefilled' /\ ReservationsExact'
    <2>1. ASSUME NEW o \in {"order", "reserve", "consume"}, NEW cart, Start(r, o, cart)
          PROVE  UNCHANGED <<claims, mem, grant, db>>
      BY <2>1 DEF Start, shared
    <2>2. CASE ReserveRead(r) \/ ConsumeRead(r)
      <3> DEFINE k == Product(r)
                 qty == Current(r).qty
      <3>1. pc[r] = "read" /\ k \in Products /\ qty \in Nat \ {0}
        BY <2>2, WorksOnUnits DEF ReserveRead, ConsumeRead, InFlight
      <3>2. UNCHANGED <<claims, db>>  BY <2>2 DEF ReserveRead, ConsumeRead, shared
      <3>3. /\ mem'[r][k].quantity <= InitQuantity /\ mem'[r][k] # Absent
            /\ mem'[r][k].quantity = InitQuantity =>
                  mem'[r][k].reserved = Promised(k) + grant'[r][k]
        <4>1. CASE ReserveRead(r)
          <5> DEFINE row == Seen(r, k)
                     n == [row EXCEPT !.reserved = @ + qty]
          <5>1. /\ mem' = [mem EXCEPT ![r][k] = n] /\ db[k] # Absent
                /\ grant' = [grant EXCEPT ![r][k] = @ + qty]
            BY <4>1 DEF ReserveRead, Assign
          <5>2. base[r][k] = mem[r][k]  BY <3>1 DEF ReservedInv, OneDirtyEntity
          <5>3. /\ row \in Row /\ row.quantity <= InitQuantity
                /\ row.quantity = InitQuantity => row.reserved = Promised(k) + grant[r][k]
            BY <3>1, <5>1, <5>2, SeenRow, SeenExact DEF ReservedInv
          <5> HIDE DEF row, k, qty
          <5>4. n \in Row /\ n.quantity = row.quantity /\ n.reserved = row.reserved + qty
            BY <3>1, <5>3 DEF Row
          <5> HIDE DEF n
          <5>5. mem'[r][k] = n /\ grant'[r][k] = grant[r][k] + qty /\ grant[r][k] \in Nat
            BY <3>1, <5>1 DEF ReservedInv, TypeInv, TypeOK
          <5>6. n # Absent  BY <5>4, AbsentIsNoRow
          <5>7. Promised(k) \in Nat  BY <3>1, PromisedUnits DEF ReservedInv
          <5> QED  BY <3>1, <5>3, <5>4, <5>5, <5>6, <5>7
        <4>2. CASE ConsumeRead(r)
          <5> DEFINE row == db[k]
                     n == [row EXCEPT !.quantity = @ - qty, !.reserved = AtLeastZero(@ - qty)]
          <5>1. mem' = [mem EXCEPT ![r][k] = n] /\ row.quantity >= qty
            BY <4>2 DEF ConsumeRead, Assign
          <5>2. row \in Row /\ row.quantity <= InitQuantity
            BY <3>1, <5>1 DEF ReservedInv, TypeInv, TypeOK, Rows, Absent, NeverRefilled
          <5> HIDE DEF row, k, qty
          <5>3. n.quantity = row.quantity - qty /\ row.quantity \in Nat  BY <5>2 DEF Row
          <5> HIDE DEF n
          <5>4. mem'[r][k] = n  BY <3>1, <5>1 DEF ReservedInv, TypeInv, TypeOK
          <5>5. n.quantity >= 0 /\ n.quantity < InitQuantity
            BY <1>3, <3>1, <5>1, <5>2, <5>3
          <5>6. n # Absent  BY <5>5 DEF Absent
          <5>7. mem'[r][k].quantity < InitQuantity /\ mem'[r][k].quantity \in Int
            BY <3>1, <5>3, <5>4, <5>5
          <5>8. InitQuantity \in Nat  BY StockConstants
          <5>9. /\ mem'[r][k].quantity <= InitQuantity
                /\ mem'[r][k].quantity # InitQuantity
            BY <5>7, <5>8
          <5> QED  BY <5>4, <5>6, <5>9
        <4> QED  BY <2>2, <4>1, <4>2
      <3>4. \A q \in Requests, p \in Products : q # r \/ p # k =>
               mem'[q][p] = mem[q][p] /\ grant'[q][p] = grant[q][p]
        BY <2>2, <3>1 DEF ReserveRead, ConsumeRead, Assign, ReservedInv, TypeInv, TypeOK
      <3> HIDE DEF k, qty
      <3> QED
        BY <1>2, <3>1, <3>2, <3>3, <3>4 DEF CopiesExact, NeverRefilled, ReservationsExact
    <2>3. CASE ReserveSkipped(r) \/ Flush(r)
      BY <1>5, <2>3 DEF ReserveSkipped, Flush, shared
    <2>4. ASSUME Close(r)
          PROVE  /\ mem'[r] = NoRows /\ grant'[r] = Nothing
                 /\ \A q \in Requests \ {r} : mem'[q] = mem[q] /\ grant'[q] = grant[q]
      BY <2>4 DEF Close, ReservedInv, TypeInv, TypeOK
    <2>5. CASE Commit(r) /\ Close(r)
      <3>1. /\ claims' = [claims EXCEPT ![r] = grant[r]] /\ pc[r] = "commit" /\ InFlight(r)
            /\ db' = [p \in Products |-> Seen(r, p)]
        BY <2>5 DEF Commit, InFlight
      <3>2. claims[r] = Nothing  BY <3>1 DEF ClaimsAtEnd
      <3>3. ASSUME NEW p \in Products
            PROVE  Promised(p)' = Promised(p) + grant[r][p]
        BY <3>1, <3>2, PromisedMore DEF ReservedInv
      <3>4. \A p \in Products : base[r][p] = mem[r][p]
        BY <3>1 DEF ReservedInv, OneDirtyEntity
      <3>5. \A q \in Requests : mem'[q] = NoRows /\ grant'[q] = Nothing
        <4>1. \A q \in Requests \ {r} : ~InFlight(q)
          BY <3>1 DEF ReservedInv, OneAtATime
        <4> QED  BY <2>4, <2>5, <4>1 DEF ClaimsAtEnd
      <3>6. CopiesExact' /\ NeverRefilled'
        <4>1. \A p \in Products : db'[p].quantity <= InitQuantity
          BY <3>1, <3>4, SeenExact
        <4> QED  BY <1>3, <3>5, <4>1 DEF CopiesExact, NeverRefilled
      <3>7. ReservationsExact'
        BY <3>1, <3>3, <3>4, SeenExact DEF ReservationsExact
      <3> QED  BY <3>6, <3>7
    <2>6. CASE Close(r) /\ UNCHANGED claims /\ (UNCHANGED db \/ DeleteStock(r))
      <3>1. \A p \in Products : db'[p] = db[p] \/ db'[p] = Absent
        BY <2>6 DEF DeleteStock, ReservedInv, TypeInv, TypeOK
      <3> QED
        BY <1>2, <1>3, <2>4, <2>6, <3>1 DEF CopiesExact, NeverRefilled, ReservationsExact
    <2> QED
      BY <1>5, <1>8, <2>1, <2>2, <2>3, <2>5, <2>6, PromisingSteps DEF DeleteStock
  <1> QED  BY <1>6, <1>7, <1>8 DEF Next, AllDone

(* Calls that do not overlap keep reserved_quantity equal to what was promised:   *)
(* an order with the same product twice, one with items it skips, refused,       *)
(* failed and crashed calls included.                                         *)
THEOREM SerialReservationsExact ==
  ASSUME IsFiniteSet(Requests), Ops \subseteq Promising, MaxInFlight = 1
  PROVE  Spec => []ReservationsExact
  <1>1. Init => ExactInv
    <2> SUFFICES ASSUME Init PROVE ExactInv
      OBVIOUS
    <2>1. ReservedInv /\ ClaimsAtEnd  BY InitReserved, InitAtEnd
    <2> DEFINE none == [r \in Requests |-> 0]
    <2>2. none \in [Requests -> Int] /\ DOMAIN none = Requests /\ \A r \in Requests : none[r] = 0
      OBVIOUS
    <2>3. \A p \in Products : Promised(p) = SumFunctionOnSet(none, Requests)
      BY DEF Init, Promised, Nothing, SumFunction
    <2> HIDE DEF none
    <2>4. SumFunctionOnSet(none, Requests) = 0  BY <2>2, SumZero
    <2>5. /\ \A p \in Products : db[p] = SeedRow \/ db[p] = Absent
          /\ \A r \in Requests, p \in Products : mem[r][p] = Absent /\ grant[r][p] = 0
      BY DEF Init, NoRows, Nothing
    <2>6. /\ InitQuantity \in Nat /\ Absent.quantity = -1
          /\ SeedRow.quantity = InitQuantity /\ SeedRow.reserved = 0
      BY StockConstants DEF SeedRow, Absent
    <2> QED
      BY <2>1, <2>3, <2>4, <2>5, <2>6 DEF ExactInv, CopiesExact, NeverRefilled, ReservationsExact
  <1>2. ExactInv /\ [Next]_vars => ExactInv'  BY NextExact
  <1>3. ExactInv => ReservationsExact  BY DEF ExactInv
  <1> QED  BY <1>1, <1>2, <1>3, PTL DEF Spec

=============================================================================
