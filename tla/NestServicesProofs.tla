------------------------- MODULE NestServicesProofs -------------------------
(***************************************************************************)
(* Theorems about four services of the Nest application: warehouses           *)
(* (WarehouseStorage), accounts (Accounts), the response cache (IgniteCache)   *)
(* and order events (OrderEvents), for any warehouses, users, companies,       *)
(* bodies, calls, URLs, events, partitions, sockets and faults.                *)
(***************************************************************************)
EXTENDS WarehouseStorage, Accounts, IgniteCache, OrderEvents, SumTheorems, SequenceTheorems

---------------------------------------------------------------------------
(***************************************************************************)
(* Proofs about WarehouseStorage, for any calls, warehouses, codes,          *)
(* capacities and quantities.                                              *)
(*                                                                         *)
(* OccupancyInBounds is not inductive: a call about to write must be known   *)
(* to carry an occupancy that fits the row's capacity as it is by then, and   *)
(* an insertion must be known to find no row.  StorageInv adds both.          *)
(***************************************************************************)
RowChanges == {"update", "remove", "allocate", "release"}
Holding(c) == storage[c].step \in {"code", "select", "write"}

(* A call that has read a row works on an existing one with a typed copy, and *)
(* one about to insert finds none.                                          *)
CopiesPlaced ==
    \A c \in StorageCalls :
       /\ Holding(c) => /\ storage[c].wh \in Warehouses /\ storage[c].op \in RowChanges
                        /\ storage[c].copy \in Warehouse
                        /\ warehouses[storage[c].wh] \in Warehouse
                        /\ storage[c].step = "code" => storage[c].op = "update"
       /\ storage[c].step = "insert" => /\ storage[c].wh \in Warehouses
                                        /\ warehouses[storage[c].wh] = NoWarehouse

(* Two insertions under way are for different rows. *)
InsertsApart ==
    \A c, d \in StorageCalls :
       storage[c].step = "insert" /\ storage[d].step = "insert" /\ storage[c].wh = storage[d].wh
          => c = d

(* A row that exists exists in the atomic history too. *)
HistoryKept == \A w \in Warehouses : warehouses[w] \in Warehouse => atomic[w] \in Warehouse

(* What has been written may have overfilled warehouse w, or emptied it below  *)
(* zero.                                                                    *)
Overfilled(w) == w \in shrunk \/ <<w, "release">> \in negated
Overdrawn(w) == <<w, "allocate">> \in negated

(* What call s will write as the occupancy fits row, unless something like it  *)
(* has been written before or its own quantity is negative.                  *)
Fits(s, row) ==
    /\ ~Overfilled(s.wh) /\ ~(s.op = "release" /\ s.qty < 0) => s.copy.used <= row.total
    /\ ~Overdrawn(s.wh) /\ ~(s.op = "allocate" /\ s.qty < 0) => 0 <= s.copy.used

CopyFits == \A c \in StorageCalls : Holding(c) => Fits(storage[c], warehouses[storage[c].wh])

StorageInv ==
    /\ StorageTypeOK /\ CopiesPlaced /\ InsertsApart /\ HistoryKept /\ CopyFits
    /\ OccupancyInBounds

---------------------------------------------------------------------------
(* The missing row is not a row. *)
LEMMA NoWarehouseIsNone == NoWarehouse \notin Warehouse
  BY StorageConstants DEF NoWarehouse, Warehouse

(* The change a handler makes keeps the copy a row. *)
LEMMA ChangedTyped ==
  ASSUME NEW op \in RowChanges, NEW row \in Warehouse, NEW dto \in WarehouseDto, NEW qty \in Int
  PROVE  /\ Changed(op, row, dto, qty) \in Warehouse
         /\ Atomically(op, row, dto, qty) \in Warehouse
  <1>1. Totals \subseteq Nat  BY StorageConstants
  <1>2. CASE op = "update"  BY <1>1, <1>2 DEF Changed, Atomically, Warehouse, WarehouseDto
  <1>3. CASE op = "remove"  BY <1>3 DEF Changed, Atomically, Warehouse
  <1>4. CASE op = "allocate"  BY <1>4 DEF Changed, Atomically, Released, Warehouse
  <1>5. CASE op = "release"  BY <1>5 DEF Changed, Atomically, Released, Warehouse
  <1> QED  BY <1>2, <1>3, <1>4, <1>5 DEF RowChanges

(* An allocation has checked that its copy fits; a release of zero or more     *)
(* lowers it, and never below zero.                                         *)
LEMMA ChangedFits ==
  ASSUME NEW op \in RowChanges, NEW row \in Warehouse, NEW dto \in WarehouseDto, NEW qty \in Int
  PROVE  LET used == Changed(op, row, dto, qty).used IN
         /\ \A room \in Nat :
               /\ row.used <= room
               /\ op = "allocate" => row.used + qty <= room
               /\ ~(op = "release" /\ qty < 0)
               => used <= room
         /\ 0 <= row.used /\ ~(op = "allocate" /\ qty < 0) => 0 <= used
  <1>1. CASE op = "update"  BY <1>1 DEF Changed, Warehouse
  <1>2. CASE op = "remove"  BY <1>2 DEF Changed, Warehouse
  <1>3. CASE op = "allocate"  BY <1>3 DEF Changed, Warehouse
  <1>4. CASE op = "release"  BY <1>4 DEF Changed, Released, Warehouse
  <1> QED  BY <1>1, <1>2, <1>3, <1>4 DEF RowChanges

(* What a call is before it starts and after it has ended. *)
LEMMA QuietCallsTyped ==
  ASSUME NEW c \in StorageCalls
  PROVE  IdleCall(c) \in StorageCall /\ EndedCall(c) \in StorageCall
  <1>1. PICK code \in Codes, total \in Totals : TRUE  BY StorageConstants
  <1>2. [code |-> code, total |-> total] \in WarehouseDto  BY DEF WarehouseDto
  <1>3. SomeDto \in WarehouseDto  BY <1>2 DEF SomeDto
  <1> QED  BY <1>3 DEF IdleCall, EndedCall, StorageCall

(* The table as it starts. *)
LEMMA StorageInitInv == StorageInit => StorageInv
  <1> SUFFICES ASSUME StorageInit PROVE StorageInv
    OBVIOUS
  <1> USE StorageConstants DEF StorageInit
  <1>2. StorageTypeOK
    BY QuietCallsTyped DEF StorageTypeOK
  <1>3. CopiesPlaced /\ InsertsApart /\ CopyFits
    BY DEF CopiesPlaced, InsertsApart, CopyFits, Holding, IdleCall
  <1>4. HistoryKept
    BY DEF HistoryKept
  <1>5. OccupancyInBounds
    <2> SUFFICES ASSUME NEW w \in Warehouses, Exists(w)
                 PROVE  warehouses[w].used <= warehouses[w].total /\ 0 <= warehouses[w].used
      <3>1. \A w \in Warehouses :
               Exists(w) => warehouses[w].used \in Int /\ warehouses[w].total \in Int
        BY DEF Exists, Warehouse
      <3> QED  BY <3>1 DEF OccupancyInBounds
    <2>1. FirstWarehouses[w].used \in 0..FirstWarehouses[w].total  BY DEF Exists
    <2>2. FirstWarehouses[w].total \in Nat  BY DEF Exists, Warehouse
    <2> QED  BY <2>1, <2>2
  <1> QED  BY <1>2, <1>3, <1>4, <1>5 DEF StorageInv

---------------------------------------------------------------------------
(* A call that ends only forgets. *)
LEMMA EndCallInv ==
  ASSUME StorageInv, NEW c \in StorageCalls, EndCall(c),
         UNCHANGED <<warehouses, shrunk, negated, overlapped, atomic>>
  PROVE  StorageInv'
  <1> USE DEF StorageInv, EndCall
  <1>2. EndedCall(c) \in StorageCall  BY QuietCallsTyped
  <1>3. StorageTypeOK'  BY <1>2 DEF StorageTypeOK
  <1>4. \A d \in StorageCalls \ {c} : storage'[d] = storage[d]  BY DEF StorageTypeOK
  <1>5. storage'[c].step = "done"  BY DEF StorageTypeOK, StorageCall, EndedCall, IdleCall
  <1>6. CopiesPlaced'  BY <1>4, <1>5 DEF CopiesPlaced, Holding
  <1>7. InsertsApart'  BY <1>4, <1>5 DEF InsertsApart
  <1>8. CopyFits'  BY <1>4, <1>5 DEF CopyFits, Fits, Overfilled, Overdrawn, Holding
  <1> QED  BY <1>3, <1>6, <1>7, <1>8 DEF HistoryKept, OccupancyInBounds, Exists

(* A call that goes on works on a row that is there, with a copy that fits. *)
LEMMA HoldingCallInv ==
  ASSUME StorageInv, NEW c \in StorageCalls, NEW w \in Warehouses, NEW call,
         call \in [step : {"code", "select", "write"}, op : RowChanges, wh : {w}, dto : WarehouseDto,
                   qty : Int, copy : Warehouse, cols : SUBSET WarehouseColumns],
         call.step = "code" => call.op = "update",
         storage' = [storage EXCEPT ![c] = call],
         warehouses[w] \in Warehouse,
         Fits(call, warehouses[w]),
         overlapped' \subseteq Warehouses,
         UNCHANGED <<warehouses, shrunk, negated, atomic>>
  PROVE  StorageInv'
  <1> USE DEF StorageInv
  <1>1. call \in StorageCall
    BY DEF RowChanges, StorageOps, StorageCall
  <1>2. StorageTypeOK'  BY <1>1 DEF StorageTypeOK
  <1>3. \A d \in StorageCalls \ {c} : storage'[d] = storage[d]  BY DEF StorageTypeOK
  <1>4. storage'[c] = call  BY DEF StorageTypeOK
  <1>5. call.step # "insert" /\ call.wh = w /\ call.op \in RowChanges /\ call.copy \in Warehouse
    OBVIOUS
  <1>6. CopiesPlaced'  BY <1>3, <1>4, <1>5 DEF CopiesPlaced, Holding
  <1>7. InsertsApart'  BY <1>3, <1>4, <1>5 DEF InsertsApart
  <1>8. CopyFits'  BY <1>3, <1>4, <1>5 DEF CopyFits, Fits, Overfilled, Overdrawn, Holding
  <1> QED  BY <1>2, <1>6, <1>7, <1>8 DEF HistoryKept, OccupancyInBounds, Exists

(* create finds the row absent, and no other insertion aimed at it. *)
LEMMA CreateInv ==
  ASSUME StorageInv, NEW c \in StorageCalls, CreateWarehouse(c)
  PROVE  StorageInv'
  <1> USE DEF StorageInv
  <1>1. PICK w \in Warehouses, dto \in WarehouseDto :
          /\ storage[c].step = "idle" /\ ~Exists(w)
          /\ \A d \in StorageCalls : storage[d].step = "insert" => storage[d].wh # w
          /\ storage' = [storage EXCEPT ![c] =
                          [@ EXCEPT !.step = "insert", !.op = "create", !.wh = w, !.dto = dto]]
          /\ UNCHANGED <<warehouses, shrunk, negated, overlapped, atomic>>
    BY DEF CreateWarehouse, MayCall
  <1> DEFINE call == [storage[c] EXCEPT !.step = "insert", !.op = "create", !.wh = w, !.dto = dto]
  <1>2. StorageTypeOK'
    <2>1. storage[c] \in StorageCall  BY DEF StorageTypeOK
    <2>2. call \in StorageCall  BY <2>1 DEF StorageCall, StorageOps
    <2>3. storage' = [storage EXCEPT ![c] = call]  BY <1>1
    <2> HIDE DEF call
    <2> QED  BY <1>1, <2>2, <2>3 DEF StorageTypeOK
  <1>3. \A d \in StorageCalls \ {c} : storage'[d] = storage[d]  BY <1>1 DEF StorageTypeOK
  <1>4. storage'[c].step = "insert" /\ storage'[c].wh = w  BY <1>1 DEF StorageTypeOK, StorageCall
  <1>5. CopiesPlaced'  BY <1>1, <1>3, <1>4 DEF CopiesPlaced, Holding, Exists
  <1>6. InsertsApart'  BY <1>1, <1>3, <1>4 DEF InsertsApart
  <1>7. CopyFits'  BY <1>1, <1>3, <1>4 DEF CopyFits, Fits, Overfilled, Overdrawn, Holding
  <1> QED  BY <1>1, <1>2, <1>5, <1>6, <1>7 DEF HistoryKept, OccupancyInBounds, Exists

(* The row an INSERT adds is empty; no call held one under its identifier. *)
LEMMA InsertInv ==
  ASSUME StorageInv, NEW c \in StorageCalls, InsertWarehouse(c)
  PROVE  StorageInv'
  <1> USE DEF StorageInv
  <1> DEFINE w == storage[c].wh
             dto == storage[c].dto
             row == [code |-> dto.code, total |-> dto.total, used |-> 0, active |-> TRUE]
  <1>1. w \in Warehouses /\ warehouses[w] = NoWarehouse /\ storage[c].step = "insert"
    BY DEF InsertWarehouse, CopiesPlaced
  <1>2. CASE CodeTaken(dto.code, w)
    BY <1>2, EndCallInv DEF InsertWarehouse
  <1>3. CASE ~CodeTaken(dto.code, w)
    <2>1. /\ warehouses' = [warehouses EXCEPT ![w] = row]
          /\ atomic' = [atomic EXCEPT ![w] = row]
          /\ storage' = [storage EXCEPT ![c] = EndedCall(c)]
          /\ UNCHANGED <<shrunk, negated, overlapped>>
      BY <1>3 DEF InsertWarehouse, EndCall
    <2>2. row \in Warehouse /\ row.used <= row.total
      <3>1. dto \in WarehouseDto  BY DEF StorageTypeOK, StorageCall
      <3>2. dto.code \in Codes /\ dto.total \in Nat  BY <3>1, StorageConstants DEF WarehouseDto
      <3> QED  BY <3>2 DEF Warehouse
    <2>4. EndedCall(c) \in StorageCall  BY QuietCallsTyped
    <2>5. StorageTypeOK'
      <3>1. warehouses' \in [Warehouses -> Warehouse \cup {NoWarehouse}]  BY <2>1, <2>2 DEF StorageTypeOK
      <3>2. atomic' \in [Warehouses -> Warehouse \cup {NoWarehouse}]  BY <2>1, <2>2 DEF StorageTypeOK
      <3> QED  BY <2>1, <2>4, <3>1, <3>2 DEF StorageTypeOK
    <2>6. \A d \in StorageCalls \ {c} : storage'[d] = storage[d]  BY <2>1 DEF StorageTypeOK
    <2>7. storage'[c].step = "done"  BY <2>1 DEF StorageTypeOK, StorageCall, EndedCall, IdleCall
    <2>8. \A v \in Warehouses \ {w} : warehouses'[v] = warehouses[v] /\ atomic'[v] = atomic[v]
      BY <2>1 DEF StorageTypeOK
    <2>9. warehouses'[w] = row /\ atomic'[w] = row  BY <1>1, <2>1 DEF StorageTypeOK
    <2>10. \A d \in StorageCalls : Holding(d) => storage[d].wh # w
      BY <1>1, NoWarehouseIsNone DEF CopiesPlaced
    <2>11. CopiesPlaced'
      <3>1. \A d \in StorageCalls \ {c} : storage[d].step = "insert" => storage[d].wh # w
        BY <1>1 DEF InsertsApart
      <3> QED  BY <2>6, <2>7, <2>8, <2>10, <3>1 DEF CopiesPlaced, Holding
    <2>12. InsertsApart'  BY <2>6, <2>7 DEF InsertsApart
    <2>13. HistoryKept'  BY <2>2, <2>8, <2>9 DEF HistoryKept
    <2>14. CopyFits'  BY <2>1, <2>6, <2>7, <2>8, <2>10 DEF CopyFits, Fits, Overfilled, Overdrawn, CopiesPlaced, Holding
    <2>15. OccupancyInBounds'
      <3>1. row.used \in Int /\ row.total \in Int /\ 0 <= row.used /\ row.used <= row.total
        BY <2>2 DEF Warehouse
      <3>2. ASSUME NEW v \in Warehouses, Exists(v)'
            PROVE  /\ warehouses'[v].used > warehouses'[v].total => Overfilled(v)
                   /\ warehouses'[v].used < 0 => Overdrawn(v)
        <4>1. CASE v = w  BY <2>9, <3>1, <4>1
        <4>2. CASE v # w
          BY <2>8, <3>2, <4>2 DEF OccupancyInBounds, Exists, Overfilled, Overdrawn
        <4> QED  BY <4>1, <4>2
      <3> QED  BY <2>1, <3>2 DEF OccupancyInBounds, Overfilled, Overdrawn
    <2> QED  BY <2>5, <2>11, <2>12, <2>13, <2>14, <2>15
  <1> QED  BY <1>2, <1>3

(* findOne: the copy is the row, changed for the operations other than an      *)
(* update of the code; an allocation has been checked against the row.         *)
LEMMA ReadInv ==
  ASSUME StorageInv, NEW c \in StorageCalls, ReadWarehouse(c)
  PROVE  StorageInv'
  <1> USE DEF StorageInv
  <1>1. PICK w \in Warehouses, op \in StorageOps \ {"create"}, dto \in WarehouseDto,
             qty \in StorageQuantities :
          /\ MayCall(c) /\ Exists(w)
          /\ op = "allocate" => HasRoom(warehouses[w], qty)
          /\ op # "update" => dto = SomeDto
          /\ op \in {"update", "remove"} => qty = SomeQty
          /\ storage' = [storage EXCEPT ![c] = ReadCall(w, op, dto, qty)]
          /\ overlapped' = IF \E d \in StorageCalls \ {c} : Working(d) /\ storage[d].wh = w
                             THEN overlapped \cup {w} ELSE overlapped
          /\ UNCHANGED <<warehouses, shrunk, negated, atomic>>
    BY DEF ReadWarehouse
  <1> DEFINE row == warehouses[w]
             copy == IF op = "update" /\ dto.code # row.code THEN row
                                                            ELSE Changed(op, row, dto, qty)
             call == ReadCall(w, op, dto, qty)
  <1>2. op \in RowChanges /\ qty \in Int  BY StorageConstants DEF StorageOps, RowChanges
  <1>3. row \in Warehouse  BY <1>1 DEF StorageTypeOK, Exists
  <1>4. copy \in Warehouse  BY <1>2, <1>3, ChangedTyped
  <1>5. /\ ~Overfilled(w) /\ ~(op = "release" /\ qty < 0) => copy.used <= row.total
        /\ ~Overdrawn(w) /\ ~(op = "allocate" /\ qty < 0) => 0 <= copy.used
    <2>1. row.used \in Int /\ row.total \in Nat  BY <1>3 DEF Warehouse
    <2>a. /\ row.used > row.total => Overfilled(w)
          /\ row.used < 0 => Overdrawn(w)
      <3> HIDE DEF StorageInv
      <3>1. OccupancyInBounds  BY DEF StorageInv
      <3> QED  BY ONLY <1>1, <3>1 DEF OccupancyInBounds, Overfilled, Overdrawn
    <2> HIDE DEF StorageInv, row, copy
    <2>2. ~Overfilled(w) => row.used <= row.total  BY <2>1, <2>a
    <2>3. ~Overdrawn(w) => 0 <= row.used  BY <2>1, <2>a
    <2> USE DEF row, copy
    <2>4. op = "allocate" => row.used + qty <= row.total  BY <1>1 DEF HasRoom
    <2>5. /\ ~Overfilled(w) /\ ~(op = "release" /\ qty < 0)
                => Changed(op, row, dto, qty).used <= row.total
          /\ ~Overdrawn(w) /\ ~(op = "allocate" /\ qty < 0)
                => 0 <= Changed(op, row, dto, qty).used
      BY <1>2, <1>3, <2>1, <2>2, <2>3, <2>4, ChangedFits
    <2> QED  BY <2>2, <2>3, <2>5
  <1>6. storage' = [storage EXCEPT ![c] = call]  BY <1>1
  <1>7. call \in [step : {"code", "select", "write"}, op : RowChanges, wh : {w}, dto : WarehouseDto,
                  qty : Int, copy : Warehouse, cols : SUBSET WarehouseColumns]
    <2> HIDE DEF row
    <2>1. call = [step |-> IF op = "update" /\ dto.code # row.code THEN "code" ELSE "select",
                  op |-> op, wh |-> w, dto |-> dto, qty |-> qty, copy |-> copy, cols |-> {}]
      BY DEF ReadCall, row
    <2> HIDE DEF copy, call
    <2> QED  BY <2>1, <1>2, <1>4
  <1>8. call.copy = copy /\ call.op = op /\ call.wh = w /\ call.qty = qty  BY DEF ReadCall
  <1>9. overlapped' \subseteq Warehouses  BY <1>1 DEF StorageTypeOK
  <1>10. call.step = "code" => call.op = "update"  BY DEF ReadCall
  <1> HIDE DEF call, copy, row, StorageInv
  <1>11. Fits(call, warehouses[w])  BY <1>5, <1>8 DEF row, Fits
  <1>12. warehouses[w] \in Warehouse  BY <1>3 DEF row
  <1> QED  BY <1>1, <1>6, <1>7, <1>9, <1>10, <1>11, <1>12, HoldingCallInv

(* What a call that goes on has in its hands. *)
LEMMA HeldCall ==
  ASSUME StorageInv, NEW c \in StorageCalls, Holding(c)
  PROVE  /\ storage[c] \in [step : {"code", "select", "write"}, op : RowChanges,
                             wh : {storage[c].wh}, dto : WarehouseDto,
                             qty : Int, copy : Warehouse, cols : SUBSET WarehouseColumns]
         /\ storage[c].wh \in Warehouses
         /\ warehouses[storage[c].wh] \in Warehouse
         /\ Fits(storage[c], warehouses[storage[c].wh])
  <1>1. storage[c] \in StorageCall  BY DEF StorageInv, StorageTypeOK
  <1>2. /\ storage[c].wh \in Warehouses /\ storage[c].op \in RowChanges
        /\ storage[c].copy \in Warehouse /\ warehouses[storage[c].wh] \in Warehouse
    BY DEF StorageInv, CopiesPlaced
  <1>3. Fits(storage[c], warehouses[storage[c].wh])
    BY DEF StorageInv, CopyFits
  <1> QED  BY <1>1, <1>2, <1>3 DEF StorageCall, Holding

(* The SELECT by the new code: the update changes the copy and no occupancy.  *)
LEMMA CheckCodeInv ==
  ASSUME StorageInv, NEW c \in StorageCalls, CheckCode(c)
  PROVE  StorageInv'
  <1> DEFINE s == storage[c]
             call == [s EXCEPT !.step = "select", !.copy = Changed(s.op, s.copy, s.dto, s.qty)]
  <1>1. s.step = "code" /\ Holding(c)  BY DEF CheckCode, Holding
  <1>2. CASE CodeTaken(s.dto.code, s.wh)
    BY <1>2, EndCallInv DEF CheckCode
  <1>3. CASE ~CodeTaken(s.dto.code, s.wh)
    <2>1. /\ s \in [step : {"code", "select", "write"}, op : RowChanges, wh : {s.wh},
                     dto : WarehouseDto, qty : Int, copy : Warehouse, cols : SUBSET WarehouseColumns]
          /\ s.wh \in Warehouses /\ warehouses[s.wh] \in Warehouse
          /\ Fits(s, warehouses[s.wh])
      BY <1>1, HeldCall
    <2>2. Changed(s.op, s.copy, s.dto, s.qty) \in Warehouse  BY <2>1, ChangedTyped
    <2>3. s.op = "update"
      BY <1>1 DEF StorageInv, CopiesPlaced
    <2>4. Changed(s.op, s.copy, s.dto, s.qty).used = s.copy.used
      BY <2>1, <2>3 DEF Changed, Warehouse
    <2>5. call \in [step : {"code", "select", "write"}, op : RowChanges, wh : {s.wh},
                    dto : WarehouseDto, qty : Int, copy : Warehouse, cols : SUBSET WarehouseColumns]
      BY <2>1, <2>2
    <2>6. storage' = [storage EXCEPT ![c] = call]
      BY <1>3 DEF CheckCode, StorageInv, StorageTypeOK
    <2>7. Fits(call, warehouses[s.wh])
      BY <2>1, <2>3, <2>4 DEF Fits
    <2>8. UNCHANGED <<warehouses, shrunk, negated, overlapped, atomic>> /\ overlapped \subseteq Warehouses
      BY DEF CheckCode, StorageInv, StorageTypeOK
    <2>9. call.step = "select"  BY <2>1
    <2> HIDE DEF call
    <2> QED  BY <2>1, <2>5, <2>6, <2>7, <2>8, <2>9, HoldingCallInv
  <1> QED  BY <1>2, <1>3

(* The comparison of save() notes columns and changes neither row nor copy. *)
LEMMA CompareInv ==
  ASSUME StorageInv, NEW c \in StorageCalls, CompareWarehouse(c)
  PROVE  StorageInv'
  <1> DEFINE s == storage[c]
             cols == {k \in WarehouseColumns : s.copy[k] # warehouses[s.wh][k]}
             call == [s EXCEPT !.step = "write", !.cols = cols]
  <1>1. s.step = "select" /\ Holding(c)  BY DEF CompareWarehouse, Holding
  <1>2. CASE cols = {}
    BY <1>2, EndCallInv DEF CompareWarehouse
  <1>3. CASE cols # {}
    <2>1. /\ s \in [step : {"code", "select", "write"}, op : RowChanges, wh : {s.wh},
                     dto : WarehouseDto, qty : Int, copy : Warehouse, cols : SUBSET WarehouseColumns]
          /\ s.wh \in Warehouses /\ warehouses[s.wh] \in Warehouse
          /\ Fits(s, warehouses[s.wh])
      BY <1>1, HeldCall
    <2>2. storage' = [storage EXCEPT ![c] = call]
      BY <1>3 DEF CompareWarehouse, StorageInv, StorageTypeOK
    <2>3. UNCHANGED <<warehouses, shrunk, negated, overlapped, atomic>> /\ overlapped \subseteq Warehouses
      BY DEF CompareWarehouse, StorageInv, StorageTypeOK
    <2>4. cols \subseteq WarehouseColumns  OBVIOUS
    <2> HIDE DEF cols
    <2>5. call \in [step : {"code", "select", "write"}, op : RowChanges, wh : {s.wh},
                    dto : WarehouseDto, qty : Int, copy : Warehouse, cols : SUBSET WarehouseColumns]
      BY <2>1, <2>4
    <2>6. call.step = "write" /\ call.copy = s.copy  BY <2>1
    <2>7. Fits(call, warehouses[s.wh])  BY <2>1 DEF Fits
    <2> HIDE DEF call
    <2> QED  BY <2>1, <2>2, <2>3, <2>5, <2>6, <2>7, HoldingCallInv
  <1> QED  BY <1>2, <1>3

(* The UPDATE: either it lowers the capacity or carries a negative quantity,   *)
(* or the capacity it leaves is at least the one before, which the occupancy   *)
(* of the row and of every copy fitted.                                      *)
LEMMA SaveInv ==
  ASSUME StorageInv, NEW c \in StorageCalls, SaveWarehouse(c)
  PROVE  StorageInv'
  <1> DEFINE s == storage[c]
  <1>0. PICK w : w = s.wh  OBVIOUS
  <1> DEFINE old == warehouses[w]
             new == [code |-> IF "code" \in s.cols THEN s.copy.code ELSE old.code,
                     total |-> IF "total" \in s.cols THEN s.copy.total ELSE old.total,
                     used |-> IF "used" \in s.cols THEN s.copy.used ELSE old.used,
                     active |-> IF "active" \in s.cols THEN s.copy.active ELSE old.active]
             then == Atomically(s.op, atomic[w], s.dto, s.qty)
  <1>1. s.step = "write" /\ Holding(c)  BY DEF SaveWarehouse, Holding
  <1>2. CASE "code" \in s.cols /\ CodeTaken(s.copy.code, s.wh)
    BY <1>2, EndCallInv DEF SaveWarehouse
  <1>3. CASE ~("code" \in s.cols /\ CodeTaken(s.copy.code, s.wh))
    <2>1. /\ w \in Warehouses /\ old \in Warehouse /\ s.copy \in Warehouse
          /\ s.op \in RowChanges /\ s.dto \in WarehouseDto /\ s.qty \in Int
          /\ Fits(s, old)
      BY <1>0, <1>1, HeldCall
    <2>2. /\ warehouses' = [warehouses EXCEPT ![w] = new]
          /\ shrunk' = IF new.total < old.total THEN shrunk \cup {w} ELSE shrunk
          /\ negated' = IF s.op \in {"allocate", "release"} /\ s.qty < 0
                          THEN negated \cup {<<w, s.op>>} ELSE negated
          /\ atomic' = [atomic EXCEPT ![w] = then]
          /\ storage' = [storage EXCEPT ![c] = EndedCall(c)]
          /\ overlapped' = overlapped
      BY <1>0, <1>3 DEF SaveWarehouse, EndCall
    <2>3. /\ new \in Warehouse
          /\ new.total \in Nat /\ old.total \in Nat /\ new.used \in Int /\ old.used \in Int
          /\ s.copy.used \in Int
          /\ new.used = s.copy.used \/ new.used = old.used
      BY <2>1 DEF Warehouse
    <2>4. then \in Warehouse
      BY <2>1, ChangedTyped DEF StorageInv, HistoryKept
    <2> HIDE DEF new, then
    <2>5. StorageTypeOK'
      <3>1. warehouses' \in [Warehouses -> Warehouse \cup {NoWarehouse}]
        BY <2>2, <2>3 DEF StorageInv, StorageTypeOK
      <3>2. atomic' \in [Warehouses -> Warehouse \cup {NoWarehouse}]
        BY <2>2, <2>4 DEF StorageInv, StorageTypeOK
      <3>3. EndedCall(c) \in StorageCall  BY QuietCallsTyped
      <3>4. shrunk' \subseteq Warehouses  BY <2>1, <2>2 DEF StorageInv, StorageTypeOK
      <3>5. negated' \subseteq Warehouses \X {"allocate", "release"}
        BY <2>1, <2>2 DEF StorageInv, StorageTypeOK
      <3> QED  BY <2>2, <3>1, <3>2, <3>3, <3>4, <3>5 DEF StorageInv, StorageTypeOK
    <2>6. \A d \in StorageCalls \ {c} : storage'[d] = storage[d]
      BY <2>2 DEF StorageInv, StorageTypeOK
    <2>7. storage'[c].step = "done"
      BY <2>2 DEF StorageInv, StorageTypeOK, EndedCall, IdleCall
    <2>8. \A v \in Warehouses \ {w} : warehouses'[v] = warehouses[v] /\ atomic'[v] = atomic[v]
      BY <2>2 DEF StorageInv, StorageTypeOK
    <2>9. warehouses'[w] = new /\ atomic'[w] = then
      BY <2>1, <2>2 DEF StorageInv, StorageTypeOK
    <2>10. CopiesPlaced'
      <3>1. \A d \in StorageCalls : storage[d].step = "insert" => storage[d].wh # w
        BY <2>1, NoWarehouseIsNone DEF StorageInv, CopiesPlaced
      <3> QED  BY <2>3, <2>6, <2>7, <2>8, <2>9, <3>1 DEF StorageInv, CopiesPlaced, Holding
    <2>11. InsertsApart'  BY <2>6, <2>7 DEF StorageInv, InsertsApart
    <2>12. HistoryKept'  BY <2>4, <2>8, <2>9 DEF StorageInv, HistoryKept
    <2>13. /\ ~Overfilled(w)' => /\ new.total >= old.total /\ ~Overfilled(w)
                                 /\ ~(s.op = "release" /\ s.qty < 0)
           /\ ~Overdrawn(w)' => ~Overdrawn(w) /\ ~(s.op = "allocate" /\ s.qty < 0)
      <3>1. shrunk \subseteq shrunk' /\ (new.total < old.total => w \in shrunk')  BY <2>2
      <3>2. negated \subseteq negated' /\ (s.op = "release" /\ s.qty < 0 => <<w, "release">> \in negated')
            /\ (s.op = "allocate" /\ s.qty < 0 => <<w, "allocate">> \in negated')
        BY <2>2
      <3> QED  BY <2>3, <3>1, <3>2 DEF Overfilled, Overdrawn
    <2>14. CopyFits'
      <3> SUFFICES ASSUME NEW d \in StorageCalls, Holding(d)'
                   PROVE  Fits(storage[d], warehouses[storage[d].wh])'
        BY DEF CopyFits
      <3>1. d # c /\ storage'[d] = storage[d] /\ Holding(d)
        BY <2>6, <2>7 DEF Holding
      <3>2. /\ storage[d].wh \in Warehouses /\ storage[d].copy \in Warehouse
            /\ Fits(storage[d], warehouses[storage[d].wh])
        BY <3>1, HeldCall
      <3>3. storage[d].copy.used \in Int  BY <3>2 DEF Warehouse
      <3>4. CASE storage[d].wh = w
        <4>1. Fits(storage[d], old)  BY <3>2, <3>4
        <4>2. ~Overfilled(w)' /\ ~(storage[d].op = "release" /\ storage[d].qty < 0)
                 => storage[d].copy.used <= new.total
          BY <2>3, <2>13, <3>3, <3>4, <4>1 DEF Fits
        <4>3. ~Overdrawn(w)' /\ ~(storage[d].op = "allocate" /\ storage[d].qty < 0)
                 => 0 <= storage[d].copy.used
          BY <2>13, <3>4, <4>1 DEF Fits
        <4>4. warehouses'[storage'[d].wh] = new /\ storage'[d].wh = w  BY <2>9, <3>1, <3>4
        <4> HIDE DEF s
        <4> QED  BY <3>1, <4>2, <4>3, <4>4 DEF Fits
      <3>5. CASE storage[d].wh # w
        <4>1. warehouses'[storage'[d].wh] = warehouses[storage[d].wh]  BY <2>8, <3>1, <3>2, <3>5
        <4>2. PICK u \in Warehouses : u = storage[d].wh  BY <3>2
        <4>3. shrunk \subseteq shrunk' /\ negated \subseteq negated'  BY <2>2
        <4>4. /\ Overfilled(u) => u \in shrunk' \/ <<u, "release">> \in negated'
              /\ Overdrawn(u) => <<u, "allocate">> \in negated'
          BY <4>3 DEF Overfilled, Overdrawn
        <4> HIDE DEF s
        <4> QED  BY <3>1, <3>2, <4>1, <4>2, <4>4 DEF Fits, Overfilled, Overdrawn
      <3> QED  BY <3>4, <3>5
    <2>15. OccupancyInBounds'
      <3>1. ASSUME NEW v \in Warehouses, Exists(v)'
            PROVE  /\ warehouses'[v].used > warehouses'[v].total => Overfilled(v)'
                   /\ warehouses'[v].used < 0 => Overdrawn(v)'
        <4>1. CASE v = w
          <5>1. Exists(w)  BY <2>1, NoWarehouseIsNone DEF Exists
          <5>2. /\ old.used > old.total => Overfilled(w)
                /\ old.used < 0 => Overdrawn(w)
            BY <2>1, <5>1 DEF StorageInv, OccupancyInBounds, Overfilled, Overdrawn
          <5>3. ~Overfilled(w)' => new.used <= new.total
            BY <1>0, <2>1, <2>3, <2>13, <5>2 DEF Fits
          <5>4. ~Overdrawn(w)' => 0 <= new.used
            BY <1>0, <2>1, <2>3, <2>13, <5>2 DEF Fits
          <5> QED  BY <2>3, <2>9, <4>1, <5>3, <5>4
        <4>2. CASE v # w
          <5>1. warehouses'[v] = warehouses[v] /\ Exists(v)  BY <2>8, <3>1, <4>2 DEF Exists
          <5>2. /\ warehouses[v].used > warehouses[v].total => Overfilled(v)
                /\ warehouses[v].used < 0 => Overdrawn(v)
            BY <5>1 DEF StorageInv, OccupancyInBounds, Overfilled, Overdrawn
          <5>3. /\ Overfilled(v) => Overfilled(v)'
                /\ Overdrawn(v) => Overdrawn(v)'
            BY <2>2 DEF Overfilled, Overdrawn
          <5> QED  BY <5>1, <5>2, <5>3
        <4> QED  BY <4>1, <4>2
      <3> QED  BY <3>1 DEF OccupancyInBounds, Overfilled, Overdrawn
    <2> QED  BY <2>5, <2>10, <2>11, <2>12, <2>14, <2>15 DEF StorageInv
  <1> QED  BY <1>2, <1>3

---------------------------------------------------------------------------
LEMMA StorageNextInv == StorageInv /\ [StorageNext]_storageVars => StorageInv'
  <1> SUFFICES ASSUME StorageInv, [StorageNext]_storageVars PROVE StorageInv'
    OBVIOUS
  <1>1. ASSUME NEW c \in StorageCalls, StorageStep(c) PROVE StorageInv'
    BY <1>1, CreateInv, InsertInv, ReadInv, CheckCodeInv, CompareInv, SaveInv DEF StorageStep
  <1>2. CASE UNCHANGED storageVars
    BY <1>2 DEF storageVars, StorageInv, StorageTypeOK, CopiesPlaced, InsertsApart, HistoryKept,
                CopyFits, Fits, Overfilled, Overdrawn, OccupancyInBounds, Exists, Holding
  <1> QED  BY <1>1, <1>2 DEF StorageNext

(* Rows, calls and histories stay typed, whatever calls overlap. *)
THEOREM StorageTypes == StorageSpec => []StorageTypeOK
  <1>1. StorageInv => StorageTypeOK  BY DEF StorageInv
  <1> QED  BY <1>1, StorageInitInv, StorageNextInv, PTL DEF StorageSpec

(* Whatever calls overlap, a warehouse holds more than its capacity only after  *)
(* an UPDATE lowered it or a release of a negative quantity, and less than      *)
(* nothing only after an allocation of a negative quantity: the check of        *)
(* allocateStorage, made on a copy another call may overtake, never lets an      *)
(* allocation overfill a warehouse.                                          *)
THEOREM OccupancyStaysInBounds == StorageSpec => []OccupancyInBounds
  <1>1. StorageInv => OccupancyInBounds  BY DEF StorageInv
  <1> QED  BY <1>1, StorageInitInv, StorageNextInv, PTL DEF StorageSpec

---------------------------------------------------------------------------
(***************************************************************************)
(* RowIsSequentialUnlessOverlap says nothing of the calls under way.  What     *)
(* makes it true is that a call alone on its warehouse holds the row as it is, *)
(* changed by its own operation, and will write every column that differs.   *)
(***************************************************************************)
AloneAt(c) == \A d \in StorageCalls : Holding(d) /\ storage[d].wh = storage[c].wh => d = c

ExactCall(s, row) ==
    /\ s.copy = IF s.step = "code" THEN row ELSE Changed(s.op, row, s.dto, s.qty)
    /\ s.op = "allocate" => HasRoom(row, s.qty)
    /\ s.step = "write" => s.cols = {k \in WarehouseColumns : s.copy[k] # row[k]}

AloneExact ==
    \A c \in StorageCalls :
       Holding(c) /\ storage[c].wh \notin overlapped
          => AloneAt(c) /\ ExactCall(storage[c], warehouses[storage[c].wh])

SequentialInv == StorageInv /\ AloneExact /\ RowIsSequentialUnlessOverlap

LEMMA SequentialInit == StorageInit => SequentialInv
  <1> SUFFICES ASSUME StorageInit PROVE AloneExact /\ RowIsSequentialUnlessOverlap
    BY StorageInitInv DEF SequentialInv
  <1>1. AloneExact  BY DEF StorageInit, AloneExact, Holding, IdleCall
  <1>2. RowIsSequentialUnlessOverlap  BY DEF StorageInit, RowIsSequentialUnlessOverlap
  <1> QED  BY <1>1, <1>2

(* A call that ends, or does not hold a row yet, leaves the others exact if     *)
(* the rows they are alone on do not change.                                *)
LEMMA OthersStayExact ==
  ASSUME AloneExact, NEW c \in StorageCalls, ~Holding(c)', UNCHANGED overlapped,
         \A d \in StorageCalls \ {c} : storage'[d] = storage[d],
         \A d \in StorageCalls \ {c} :
            Holding(d) /\ storage[d].wh \notin overlapped
               => warehouses'[storage[d].wh] = warehouses[storage[d].wh]
  PROVE  AloneExact'
  <1> SUFFICES ASSUME NEW d \in StorageCalls, Holding(d)', storage'[d].wh \notin overlapped'
               PROVE  (AloneAt(d) /\ ExactCall(storage[d], warehouses[storage[d].wh]))'
    BY DEF AloneExact
  <1>1. d # c  OBVIOUS
  <1>2. storage'[d] = storage[d] /\ Holding(d) /\ storage[d].wh \notin overlapped
    BY <1>1 DEF Holding
  <1>3. AloneAt(d) /\ ExactCall(storage[d], warehouses[storage[d].wh])
    BY <1>2 DEF AloneExact
  <1>4. warehouses'[storage'[d].wh] = warehouses[storage[d].wh]
    BY <1>1, <1>2
  <1>5. ExactCall(storage[d], warehouses[storage[d].wh])'
    BY <1>2, <1>3, <1>4
  <1>6. AloneAt(d)'
    <2> SUFFICES ASSUME NEW e \in StorageCalls, Holding(e)', storage'[e].wh = storage'[d].wh
                 PROVE  e = d
      BY DEF AloneAt
    <2>1. e # c /\ storage'[e] = storage[e]  OBVIOUS
    <2>2. Holding(e) /\ storage[e].wh = storage[d].wh  BY <1>2, <2>1 DEF Holding
    <2> QED  BY <1>3, <2>2 DEF AloneAt
  <1> QED  BY <1>5, <1>6

(* A call that goes on with an exact copy of a row that does not change. *)
LEMMA HolderStaysExact ==
  ASSUME StorageInv, AloneExact, NEW c \in StorageCalls, NEW call,
         storage' = [storage EXCEPT ![c] = call],
         overlapped \subseteq overlapped', UNCHANGED warehouses,
         call.wh \notin overlapped' =>
            /\ \A d \in StorageCalls \ {c} : Holding(d) => storage[d].wh # call.wh
            /\ ExactCall(call, warehouses[call.wh])
  PROVE  AloneExact'
  <1>1. storage'[c] = call /\ \A d \in StorageCalls \ {c} : storage'[d] = storage[d]
    BY DEF StorageInv, StorageTypeOK
  <1> SUFFICES ASSUME NEW d \in StorageCalls, Holding(d)', storage'[d].wh \notin overlapped'
               PROVE  (AloneAt(d) /\ ExactCall(storage[d], warehouses[storage[d].wh]))'
    BY DEF AloneExact
  <1>2. CASE d = c
    <2>1. ExactCall(storage[d], warehouses[storage[d].wh])'
      BY <1>1, <1>2
    <2>2. AloneAt(d)'  BY <1>1, <1>2 DEF AloneAt, Holding
    <2> QED  BY <2>1, <2>2
  <1>3. CASE d # c
    <2>1. storage'[d] = storage[d] /\ Holding(d) /\ storage[d].wh \notin overlapped
      BY <1>1, <1>3 DEF Holding
    <2>2. AloneAt(d) /\ ExactCall(storage[d], warehouses[storage[d].wh])
      BY <2>1 DEF AloneExact
    <2>3. ExactCall(storage[d], warehouses[storage[d].wh])'
      BY <2>1, <2>2
    <2>4. call.wh # storage[d].wh  BY <1>3, <2>1
    <2>5. AloneAt(d)'  BY <1>1, <2>1, <2>2, <2>4 DEF AloneAt, Holding
    <2> QED  BY <2>3, <2>5
  <1> QED  BY <1>2, <1>3

(* What a call about to go on knows, when it is alone. *)
LEMMA GoingOn ==
  ASSUME SequentialInv, NEW c \in StorageCalls, Holding(c), storage[c].wh \notin overlapped
  PROVE  /\ AloneAt(c) /\ ExactCall(storage[c], warehouses[storage[c].wh])
         /\ storage[c] \in [step : {"code", "select", "write"}, op : RowChanges,
                             wh : {storage[c].wh}, dto : WarehouseDto,
                             qty : Int, copy : Warehouse, cols : SUBSET WarehouseColumns]
         /\ storage[c].wh \in Warehouses /\ warehouses[storage[c].wh] \in Warehouse
         /\ warehouses[storage[c].wh] = atomic[storage[c].wh]
  BY HeldCall DEF SequentialInv, AloneExact, RowIsSequentialUnlessOverlap

(* A step that writes no row leaves the two histories equal. *)
LEMMA RowsUntouched ==
  ASSUME RowIsSequentialUnlessOverlap, UNCHANGED <<warehouses, atomic>>, overlapped \subseteq overlapped'
  PROVE  RowIsSequentialUnlessOverlap'
  BY DEF RowIsSequentialUnlessOverlap

(* create holds no row yet. *)
LEMMA CreateSequential ==
  ASSUME SequentialInv, NEW c \in StorageCalls, CreateWarehouse(c)
  PROVE  AloneExact' /\ RowIsSequentialUnlessOverlap'
  <1> USE DEF SequentialInv
  <1>1. PICK w \in Warehouses, dto \in WarehouseDto :
           storage' = [storage EXCEPT ![c] =
                        [@ EXCEPT !.step = "insert", !.op = "create", !.wh = w, !.dto = dto]]
    BY DEF CreateWarehouse
  <1>2. UNCHANGED <<warehouses, overlapped, atomic>>  BY DEF CreateWarehouse
  <1>3. storage[c] \in StorageCall  BY DEF StorageInv, StorageTypeOK
  <1>4. \A d \in StorageCalls \ {c} : storage'[d] = storage[d]
    BY <1>1 DEF StorageInv, StorageTypeOK
  <1>5. storage'[c].step = "insert"
    BY <1>1, <1>3 DEF StorageInv, StorageTypeOK, StorageCall
  <1>6. ~Holding(c)'  BY <1>5 DEF Holding
  <1> QED  BY <1>2, <1>4, <1>6, OthersStayExact, RowsUntouched

(* The end of a call that wrote nothing. *)
LEMMA EndSequential ==
  ASSUME SequentialInv, NEW c \in StorageCalls, EndCall(c),
         UNCHANGED <<warehouses, overlapped, atomic>>
  PROVE  AloneExact' /\ RowIsSequentialUnlessOverlap'
  <1> USE DEF SequentialInv
  <1>1. \A d \in StorageCalls \ {c} : storage'[d] = storage[d]
    BY DEF EndCall, StorageInv, StorageTypeOK
  <1>2. storage'[c].step = "done"
    BY DEF EndCall, EndedCall, IdleCall, StorageInv, StorageTypeOK
  <1>3. ~Holding(c)'  BY <1>2 DEF Holding
  <1> QED  BY <1>1, <1>3, OthersStayExact, RowsUntouched

(* The row an INSERT adds is held by nobody, and is the same in both histories. *)
LEMMA InsertSequential ==
  ASSUME SequentialInv, NEW c \in StorageCalls, InsertWarehouse(c)
  PROVE  AloneExact' /\ RowIsSequentialUnlessOverlap'
  <1> USE DEF SequentialInv
  <1> DEFINE w == storage[c].wh
             dto == storage[c].dto
             row == [code |-> dto.code, total |-> dto.total, used |-> 0, active |-> TRUE]
  <1>1. w \in Warehouses /\ warehouses[w] = NoWarehouse
    BY DEF InsertWarehouse, StorageInv, CopiesPlaced
  <1>2. CASE CodeTaken(dto.code, w)
    BY <1>2, EndSequential DEF InsertWarehouse
  <1>3. CASE ~CodeTaken(dto.code, w)
    <2> HIDE DEF row
    <2>1. /\ warehouses' = [warehouses EXCEPT ![w] = row]
          /\ atomic' = [atomic EXCEPT ![w] = row]
          /\ storage' = [storage EXCEPT ![c] = EndedCall(c)]
          /\ UNCHANGED overlapped
      BY <1>3 DEF InsertWarehouse, EndCall, row
    <2>2. \A d \in StorageCalls \ {c} : storage'[d] = storage[d]
      BY <2>1 DEF StorageInv, StorageTypeOK
    <2>3. ~Holding(c)'
      BY <2>1 DEF Holding, EndedCall, IdleCall, StorageInv, StorageTypeOK
    <2>4. \A d \in StorageCalls : Holding(d) => storage[d].wh # w
      BY <1>1, NoWarehouseIsNone DEF StorageInv, CopiesPlaced
    <2>5. \A d \in StorageCalls \ {c} :
             Holding(d) => warehouses'[storage[d].wh] = warehouses[storage[d].wh]
      BY <2>1, <2>4 DEF StorageInv, StorageTypeOK, CopiesPlaced
    <2>6. AloneExact'  BY <2>1, <2>2, <2>3, <2>5, OthersStayExact
    <2>7. RowIsSequentialUnlessOverlap'
      BY <2>1 DEF RowIsSequentialUnlessOverlap, StorageInv, StorageTypeOK
    <2> QED  BY <2>6, <2>7
  <1> QED  BY <1>2, <1>3

(* findOne copies the row; if another call works on it, the warehouse is noted. *)
LEMMA ReadSequential ==
  ASSUME SequentialInv, NEW c \in StorageCalls, ReadWarehouse(c)
  PROVE  AloneExact' /\ RowIsSequentialUnlessOverlap'
  <1> USE DEF SequentialInv
  <1>1. PICK w \in Warehouses, op \in StorageOps \ {"create"}, dto \in WarehouseDto,
             qty \in StorageQuantities :
          /\ op = "allocate" => HasRoom(warehouses[w], qty)
          /\ storage' = [storage EXCEPT ![c] = ReadCall(w, op, dto, qty)]
          /\ overlapped' = IF \E d \in StorageCalls \ {c} : Working(d) /\ storage[d].wh = w
                             THEN overlapped \cup {w} ELSE overlapped
          /\ UNCHANGED <<warehouses, shrunk, negated, atomic>>
    BY DEF ReadWarehouse
  <1> DEFINE call == ReadCall(w, op, dto, qty)
  <1>2. call.wh = w  BY DEF ReadCall
  <1>3. ExactCall(call, warehouses[w])
    BY <1>1 DEF ReadCall, ExactCall
  <1>4. w \notin overlapped' =>
           \A d \in StorageCalls \ {c} : Holding(d) => storage[d].wh # w
    BY <1>1 DEF Working, Holding
  <1>5. overlapped \subseteq overlapped'  BY <1>1
  <1>6. storage' = [storage EXCEPT ![c] = call]  BY <1>1
  <1> HIDE DEF call
  <1>7. AloneExact'
    BY <1>1, <1>2, <1>3, <1>4, <1>5, <1>6, HolderStaysExact
  <1> QED  BY <1>1, <1>5, <1>7, RowsUntouched

LEMMA CheckCodeSequential ==
  ASSUME SequentialInv, NEW c \in StorageCalls, CheckCode(c)
  PROVE  AloneExact' /\ RowIsSequentialUnlessOverlap'
  <1> DEFINE s == storage[c]
             call == [s EXCEPT !.step = "select", !.copy = Changed(s.op, s.copy, s.dto, s.qty)]
  <1>1. s.step = "code" /\ Holding(c) /\ UNCHANGED <<warehouses, overlapped, atomic>>
    BY DEF CheckCode, Holding
  <1>2. CASE CodeTaken(s.dto.code, s.wh)
    BY <1>1, <1>2, EndSequential DEF CheckCode
  <1>3. CASE ~CodeTaken(s.dto.code, s.wh)
    <2>1. s \in StorageCall  BY DEF SequentialInv, StorageInv, StorageTypeOK
    <2>2. storage' = [storage EXCEPT ![c] = call]
      BY <1>3 DEF CheckCode, SequentialInv, StorageInv, StorageTypeOK
    <2>3. /\ call.wh = s.wh /\ call.step = "select" /\ call.op = s.op
          /\ call.dto = s.dto /\ call.qty = s.qty
          /\ call.copy = Changed(s.op, s.copy, s.dto, s.qty)
      BY <2>1 DEF StorageCall
    <2> HIDE DEF call
    <2>4. s.wh \notin overlapped =>
             /\ \A d \in StorageCalls \ {c} : Holding(d) => storage[d].wh # s.wh
             /\ ExactCall(call, warehouses[s.wh])
      <3> SUFFICES ASSUME s.wh \notin overlapped
                   PROVE  /\ \A d \in StorageCalls \ {c} : Holding(d) => storage[d].wh # s.wh
                          /\ ExactCall(call, warehouses[s.wh])
        OBVIOUS
      <3>1. AloneAt(c) /\ ExactCall(s, warehouses[s.wh])  BY <1>1, GoingOn
      <3>2. s.copy = warehouses[s.wh] /\ (s.op = "allocate" => HasRoom(warehouses[s.wh], s.qty))
        BY <1>1, <3>1 DEF ExactCall
      <3>3. ExactCall(call, warehouses[s.wh])  BY <2>3, <3>2 DEF ExactCall
      <3> QED  BY <3>1, <3>3 DEF AloneAt
    <2>5. AloneExact'
      BY <1>1, <2>2, <2>3, <2>4, HolderStaysExact DEF SequentialInv
    <2> QED  BY <1>1, <2>5, RowsUntouched DEF SequentialInv
  <1> QED  BY <1>2, <1>3

LEMMA CompareSequential ==
  ASSUME SequentialInv, NEW c \in StorageCalls, CompareWarehouse(c)
  PROVE  AloneExact' /\ RowIsSequentialUnlessOverlap'
  <1> DEFINE s == storage[c]
             cols == {k \in WarehouseColumns : s.copy[k] # warehouses[s.wh][k]}
             call == [s EXCEPT !.step = "write", !.cols = cols]
  <1>1. s.step = "select" /\ Holding(c) /\ UNCHANGED <<warehouses, overlapped, atomic>>
    BY DEF CompareWarehouse, Holding
  <1>2. CASE cols = {}
    BY <1>1, <1>2, EndSequential DEF CompareWarehouse
  <1>3. CASE cols # {}
    <2>1. s \in StorageCall  BY DEF SequentialInv, StorageInv, StorageTypeOK
    <2>2. storage' = [storage EXCEPT ![c] = call]
      BY <1>3 DEF CompareWarehouse, SequentialInv, StorageInv, StorageTypeOK
    <2>3. /\ call.wh = s.wh /\ call.step = "write" /\ call.op = s.op
          /\ call.dto = s.dto /\ call.qty = s.qty /\ call.copy = s.copy /\ call.cols = cols
      BY <2>1 DEF StorageCall
    <2>4. s.wh \notin overlapped =>
             /\ \A d \in StorageCalls \ {c} : Holding(d) => storage[d].wh # s.wh
             /\ ExactCall(call, warehouses[s.wh])
      <3> SUFFICES ASSUME s.wh \notin overlapped
                   PROVE  /\ \A d \in StorageCalls \ {c} : Holding(d) => storage[d].wh # s.wh
                          /\ ExactCall(call, warehouses[s.wh])
        OBVIOUS
      <3>1. AloneAt(c) /\ ExactCall(s, warehouses[s.wh])  BY <1>1, GoingOn
      <3> HIDE DEF call
      <3>2. ExactCall(call, warehouses[s.wh])  BY <1>1, <2>3, <3>1 DEF ExactCall
      <3> QED  BY <3>1, <3>2 DEF AloneAt
    <2> HIDE DEF call
    <2>5. AloneExact'
      BY <1>1, <2>2, <2>3, <2>4, HolderStaysExact DEF SequentialInv
    <2> QED  BY <1>1, <2>5, RowsUntouched DEF SequentialInv
  <1> QED  BY <1>2, <1>3

(* The UPDATE of a call that is alone writes the row an atomic call leaves. *)
LEMMA AloneWritesAtomically ==
  ASSUME SequentialInv, NEW c \in StorageCalls,
         storage[c].step = "write", storage[c].wh \notin overlapped
  PROVE  LET s == storage[c]
             old == warehouses[s.wh] IN
         [code |-> IF "code" \in s.cols THEN s.copy.code ELSE old.code,
          total |-> IF "total" \in s.cols THEN s.copy.total ELSE old.total,
          used |-> IF "used" \in s.cols THEN s.copy.used ELSE old.used,
          active |-> IF "active" \in s.cols THEN s.copy.active ELSE old.active]
            = Atomically(s.op, atomic[s.wh], s.dto, s.qty)
  <1> DEFINE s == storage[c]
             old == warehouses[s.wh]
             new == [code |-> IF "code" \in s.cols THEN s.copy.code ELSE old.code,
                     total |-> IF "total" \in s.cols THEN s.copy.total ELSE old.total,
                     used |-> IF "used" \in s.cols THEN s.copy.used ELSE old.used,
                     active |-> IF "active" \in s.cols THEN s.copy.active ELSE old.active]
  <1>1. Holding(c)  BY DEF Holding
  <1>2. /\ ExactCall(s, old) /\ old = atomic[s.wh] /\ old \in Warehouse
        /\ s.op \in RowChanges /\ s.copy \in Warehouse /\ s.dto \in WarehouseDto /\ s.qty \in Int
    BY <1>1, GoingOn
  <1>3. s.cols = {k \in WarehouseColumns : s.copy[k] # old[k]}
    BY <1>2 DEF ExactCall
  <1>4. new = s.copy
    <2>1. /\ "code" \notin s.cols => s.copy.code = old.code
          /\ "total" \notin s.cols => s.copy.total = old.total
          /\ "used" \notin s.cols => s.copy.used = old.used
          /\ "active" \notin s.cols => s.copy.active = old.active
      BY <1>3 DEF WarehouseColumns
    <2>2. new = [code |-> s.copy.code, total |-> s.copy.total, used |-> s.copy.used,
                 active |-> s.copy.active]
      BY <2>1
    <2> QED  BY <1>2, <2>2 DEF Warehouse
  <1>5. s.copy = Changed(s.op, old, s.dto, s.qty)  BY <1>2 DEF ExactCall
  <1>6. Changed(s.op, old, s.dto, s.qty) = Atomically(s.op, old, s.dto, s.qty)
    <2>1. s.op = "allocate" => ~(old.used + s.qty > old.total)
      BY <1>2 DEF ExactCall, HasRoom, Warehouse
    <2> HIDE DEF s, old
    <2>2. CASE s.op = "update"  BY <2>2 DEF Changed, Atomically
    <2>3. CASE s.op = "remove"  BY <2>3 DEF Changed, Atomically
    <2>4. CASE s.op = "allocate"  BY <2>1, <2>4 DEF Changed, Atomically
    <2>5. CASE s.op = "release"  BY <2>5 DEF Changed, Atomically
    <2> QED  BY <1>2, <2>2, <2>3, <2>4, <2>5 DEF RowChanges
  <1> QED  BY <1>2, <1>4, <1>5, <1>6

LEMMA SaveSequential ==
  ASSUME SequentialInv, NEW c \in StorageCalls, SaveWarehouse(c)
  PROVE  AloneExact' /\ RowIsSequentialUnlessOverlap'
  <1> DEFINE s == storage[c]
             w == s.wh
             old == warehouses[w]
             new == [code |-> IF "code" \in s.cols THEN s.copy.code ELSE old.code,
                     total |-> IF "total" \in s.cols THEN s.copy.total ELSE old.total,
                     used |-> IF "used" \in s.cols THEN s.copy.used ELSE old.used,
                     active |-> IF "active" \in s.cols THEN s.copy.active ELSE old.active]
             then == Atomically(s.op, atomic[w], s.dto, s.qty)
  <1>1. s.step = "write" /\ Holding(c) /\ UNCHANGED overlapped
    BY DEF SaveWarehouse, Holding
  <1>2. CASE "code" \in s.cols /\ CodeTaken(s.copy.code, s.wh)
    BY <1>1, <1>2, EndSequential DEF SaveWarehouse
  <1>3. CASE ~("code" \in s.cols /\ CodeTaken(s.copy.code, s.wh))
    <2>1. w \notin overlapped => new = then  BY <1>1, AloneWritesAtomically
    <2> HIDE DEF new, then
    <2>2. /\ warehouses' = [warehouses EXCEPT ![w] = new]
          /\ atomic' = [atomic EXCEPT ![w] = then]
          /\ storage' = [storage EXCEPT ![c] = EndedCall(c)]
      BY <1>3 DEF SaveWarehouse, EndCall, new, then
    <2>3. \A d \in StorageCalls \ {c} : storage'[d] = storage[d]
      BY <2>2 DEF SequentialInv, StorageInv, StorageTypeOK
    <2>4. ~Holding(c)'
      BY <2>2 DEF Holding, EndedCall, IdleCall, SequentialInv, StorageInv, StorageTypeOK
    <2>5. \A d \in StorageCalls \ {c} :
             Holding(d) /\ storage[d].wh \notin overlapped
                => warehouses'[storage[d].wh] = warehouses[storage[d].wh]
      <3> SUFFICES ASSUME NEW d \in StorageCalls \ {c}, Holding(d), storage[d].wh \notin overlapped
                   PROVE  warehouses'[storage[d].wh] = warehouses[storage[d].wh]
        OBVIOUS
      <3>1. storage[d].wh # w  BY <1>1 DEF SequentialInv, AloneExact, AloneAt
      <3> QED  BY <2>2, <3>1 DEF SequentialInv, StorageInv, StorageTypeOK, CopiesPlaced
    <2>6. AloneExact'
      BY <1>1, <2>3, <2>4, <2>5, OthersStayExact DEF SequentialInv
    <2>7. RowIsSequentialUnlessOverlap'
      BY <1>1, <2>1, <2>2
      DEF RowIsSequentialUnlessOverlap, SequentialInv, StorageInv, StorageTypeOK
    <2> QED  BY <2>6, <2>7
  <1> QED  BY <1>2, <1>3

LEMMA SequentialNext == SequentialInv /\ [StorageNext]_storageVars => SequentialInv'
  <1> SUFFICES ASSUME SequentialInv, [StorageNext]_storageVars
               PROVE  AloneExact' /\ RowIsSequentialUnlessOverlap'
    BY StorageNextInv DEF SequentialInv
  <1>1. ASSUME NEW c \in StorageCalls, StorageStep(c)
        PROVE  AloneExact' /\ RowIsSequentialUnlessOverlap'
    BY <1>1, CreateSequential, InsertSequential, ReadSequential, CheckCodeSequential,
       CompareSequential, SaveSequential DEF StorageStep
  <1>2. CASE UNCHANGED storageVars
    BY <1>2 DEF storageVars, SequentialInv, AloneExact, AloneAt, ExactCall, Holding,
                RowIsSequentialUnlessOverlap
  <1> QED  BY <1>1, <1>2 DEF StorageNext

(* While no two calls have worked on a warehouse at the same time, its row is   *)
(* what calls of one step each would have left: save()'s second SELECT, its    *)
(* comparison and its UPDATE of some columns lose nothing of one call alone.   *)
THEOREM SequentialUnlessOverlap == StorageSpec => []RowIsSequentialUnlessOverlap
  <1>1. SequentialInv => RowIsSequentialUnlessOverlap  BY DEF SequentialInv
  <1> QED  BY <1>1, SequentialInit, SequentialNext, PTL DEF StorageSpec

---------------------------------------------------------------------------
(***************************************************************************)
(* Proofs about Accounts, for any users, companies, bodies and calls.        *)
(*                                                                         *)
(* The three properties are proved from one invariant, AccountInv.  It adds   *)
(* that a call still before the guards is noted once its caller is an         *)
(* administrator, that an identifier generated for an insertion is nobody     *)
(* else's, and that a removed row a PATCH can insert again is noted.          *)
(***************************************************************************)

Creating(call) == call.step = "insert" /\ call.op \in {"create", "register"}
Handling(call) ==
    \/ call.step \in {"save", "write", "delete"}
    \/ call.step = "insert" /\ call.op \notin {"create", "register"}
Reviving(call) ==
    /\ call.op = "update" /\ call.step \in {"save", "insert"}
    /\ call.id \in Users => "password" \in DOMAIN call.patch

(* What a call at each of its steps knows of its row. *)
Placed(call, rows, ids, gone) ==
    /\ call.step \notin {"idle", "done"} => call.id \in Ids
    /\ call.step = "guard" => call.by \in Token
    /\ Creating(call) \/ Handling(call) => call.id \in ids
    /\ call.step \in {"insert", "save", "write"} => call.copy \in AccountRow
    /\ Creating(call) => rows[call.id] = NoRow /\ call.id \notin gone
    /\ Handling(call) /\ call.step # "delete" => call.op = "update"

CallsPlaced == \A c \in AdminCalls : Placed(admin[c], accounts, born, removed)

(* A call at the guard whose caller is an administrator now has been noted. *)
GuardsNoted ==
    \A c \in AdminCalls :
       admin[c].step = "guard" /\ IsAdmin(accounts, admin[c].by.user) => c \in rightful

RowsBorn == \A id \in Ids : Registered(id) \/ id \in removed => id \in born

(* register inserts users. *)
RegisteredAreUsers == \A c \in AdminCalls : admin[c].op = "register" => admin[c].id \in Users

(* Nobody else works on the row a call is about to insert as a new one. *)
CreatorsAlone ==
    \A c, d \in AdminCalls :
       Creating(admin[c]) /\ (Creating(admin[d]) \/ Handling(admin[d]))
         /\ admin[c].id = admin[d].id => c = d

RevivalsNoted ==
    \A c \in AdminCalls :
       Reviving(admin[c]) /\ admin[c].id \in removed => admin[c].id \in contested

AccountInv ==
    /\ AccountTypeOK /\ PowerIsCurrent /\ CompanyReferences /\ RemovedStaysRemoved
    /\ CallsPlaced /\ GuardsNoted /\ RowsBorn /\ CreatorsAlone /\ RevivalsNoted
    /\ RegisteredAreUsers

DoneCall == [QuietCall EXCEPT !.step = "done"]

---------------------------------------------------------------------------
(* The missing row is not a row. *)
LEMMA NoRowIsNone == NoRow \notin AccountRow
  BY AccountConstants DEF NoRow, AccountRow

(* What a call is before it starts and after it has ended. *)
LEMMA QuietTyped == QuietCall \in AdminCall /\ DoneCall \in AdminCall
  BY DEF QuietCall, DoneCall, AdminCall

(* The tables as they start. *)
LEMMA AccountsAtStart == AccountInit => AccountInv
  <1> SUFFICES ASSUME AccountInit PROVE AccountInv
    OBVIOUS
  <1> USE AccountConstants DEF AccountInit
  <1>1. AccountTypeOK
    <2>1. admin \in [AdminCalls -> AdminCall]  BY QuietTyped
    <2>2. tokens \subseteq Token
      <3> SUFFICES ASSUME NEW u \in Users \cap born
                   PROVE  [user |-> u, role |-> accounts[u].role] \in Token
        OBVIOUS
      <3>1. accounts[u] \in AccountRow  BY DEF Ids, Registered
      <3> QED  BY <3>1 DEF Token, AccountRow
    <2> QED  BY <2>1, <2>2 DEF AccountTypeOK
  <1>2. \A c \in AdminCalls : admin[c].step = "idle" /\ admin[c].op = "none"
    BY DEF QuietCall
  <1>3. PowerIsCurrent  BY <1>2 DEF PowerIsCurrent, AdminOps
  <1>4. CallsPlaced  BY <1>2 DEF CallsPlaced, Placed, Creating, Handling
  <1>5. GuardsNoted /\ CreatorsAlone /\ RevivalsNoted
    BY <1>2 DEF GuardsNoted, CreatorsAlone, RevivalsNoted, Creating, Handling
  <1>8. RegisteredAreUsers  BY <1>2 DEF RegisteredAreUsers
  <1>6. RowsBorn /\ RemovedStaysRemoved  BY DEF RowsBorn, RemovedStaysRemoved
  <1>7. CompanyReferences  BY DEF CompanyReferences, Registered
  <1> QED  BY <1>1, <1>3, <1>4, <1>5, <1>6, <1>7, <1>8 DEF AccountInv

---------------------------------------------------------------------------
(* One call moves on, the rows stay: what the call must know for it. *)
LEMMA CallMoves ==
  ASSUME AccountInv, NEW c \in AdminCalls, NEW call \in AdminCall,
         admin' = [admin EXCEPT ![c] = call],
         UNCHANGED <<accounts, removed, contested>>,
         born \subseteq born', born' \subseteq Ids,
         rightful \subseteq rightful', rightful' \subseteq AdminCalls,
         tokens' \subseteq Token, signedIn' \in {"never", "error", "tokens"},
         call.op \in AdminOps /\ call.step # "guard" => c \in rightful',
         call.step = "guard" /\ IsAdmin(accounts, call.by.user) => c \in rightful',
         Placed(call, accounts, born', removed),
         \A d \in AdminCalls \ {c} : admin[d].id = call.id =>
            /\ Creating(call) => ~Creating(admin[d]) /\ ~Handling(admin[d])
            /\ Handling(call) => ~Creating(admin[d]),
         Reviving(call) /\ call.id \in removed => call.id \in contested,
         call.op = "register" => call.id \in Users
  PROVE  AccountInv'
  <1> USE DEF AccountInv
  <1>1. AccountTypeOK'  BY DEF AccountTypeOK
  <1>2. admin'[c] = call /\ \A d \in AdminCalls \ {c} : admin'[d] = admin[d]
    BY DEF AccountTypeOK
  <1>3. PowerIsCurrent'  BY <1>2 DEF PowerIsCurrent
  <1>4. CompanyReferences' /\ RemovedStaysRemoved'
    BY DEF CompanyReferences, RemovedStaysRemoved, Registered
  <1>5. CallsPlaced'
    <2> SUFFICES ASSUME NEW d \in AdminCalls
                 PROVE  Placed(admin'[d], accounts, born', removed)
      BY DEF CallsPlaced, Placed, Creating, Handling
    <2>1. CASE d = c  BY <2>1, <1>2
    <2>2. CASE d # c
      <3>1. Placed(admin[d], accounts, born, removed)  BY DEF CallsPlaced
      <3> QED  BY <2>2, <3>1, <1>2 DEF Placed
    <2> QED  BY <2>1, <2>2
  <1>6. GuardsNoted'  BY <1>2 DEF GuardsNoted, IsAdmin
  <1>7. RowsBorn'  BY DEF RowsBorn, Registered
  <1>8. CreatorsAlone'
    <2> SUFFICES ASSUME NEW d \in AdminCalls, NEW e \in AdminCalls,
                        Creating(admin'[d]), Creating(admin'[e]) \/ Handling(admin'[e]),
                        admin'[d].id = admin'[e].id
                 PROVE  d = e
      BY DEF CreatorsAlone, Creating, Handling
    <2>1. CASE d = c  BY <2>1, <1>2
    <2>2. CASE d # c /\ e = c  BY <2>2, <1>2
    <2>3. CASE d # c /\ e # c  BY <2>3, <1>2 DEF CreatorsAlone
    <2> QED  BY <2>1, <2>2, <2>3
  <1>9. RevivalsNoted'
    <2> SUFFICES ASSUME NEW d \in AdminCalls, Reviving(admin'[d]), admin'[d].id \in removed
                 PROVE  admin'[d].id \in contested
      BY DEF RevivalsNoted, Reviving
    <2> QED  BY <1>2 DEF RevivalsNoted
  <1>10. RegisteredAreUsers'  BY <1>2 DEF RegisteredAreUsers
  <1> QED  BY <1>1, <1>3, <1>4, <1>5, <1>6, <1>7, <1>8, <1>9, <1>10

(* A call that ends. *)
LEMMA CallEnds ==
  ASSUME AccountInv, NEW c \in AdminCalls, CloseCall(c),
         UNCHANGED <<accounts, born, tokens, signedIn, rightful, removed, contested>>
  PROVE  AccountInv'
  <1>1. DoneCall \in AdminCall  BY QuietTyped
  <1>2. admin' = [admin EXCEPT ![c] = DoneCall]  BY DEF CloseCall, DoneCall
  <1>3. DoneCall.step = "done" /\ DoneCall.op = "none"  BY DEF DoneCall, QuietCall
  <1>4. ~Creating(DoneCall) /\ ~Handling(DoneCall) /\ ~Reviving(DoneCall)
    BY <1>3 DEF Creating, Handling, Reviving
  <1>5. Placed(DoneCall, accounts, born, removed)  BY <1>3, <1>4 DEF Placed
  <1> HIDE DEF DoneCall
  <1> QED  BY <1>1, <1>2, <1>3, <1>4, <1>5, CallMoves DEF AccountInv, AccountTypeOK, AdminOps

(* A call arrives before the guard; whoever is an administrator is noted. *)
LEMMA ArriveInv ==
  ASSUME AccountInv, NEW c \in AdminCalls, Arrive(c)
  PROVE  AccountInv'
  <1>1. PICK op \in AdminOps, t \in tokens, id \in Ids, p \in Patches :
          /\ admin[c].step = "idle"
          /\ Cardinality({d \in AdminCalls : InProgress(d)}) < MaxAccountCalls
          /\ (op = "create") = (id \notin born)
          /\ op # "update" => p = CHOOSE q \in Patches : TRUE
          /\ admin' = [admin EXCEPT ![c] =
               [QuietCall EXCEPT !.step = "guard", !.op = op, !.by = t, !.id = id, !.patch = p]]
          /\ rightful' = IF IsAdmin(accounts, t.user) THEN rightful \cup {c} ELSE rightful
          /\ UNCHANGED <<accounts, born, tokens, signedIn, removed, contested>>
    BY DEF Arrive
  <1> DEFINE call == [QuietCall EXCEPT !.step = "guard", !.op = op, !.by = t, !.id = id, !.patch = p]
  <1>2. t \in Token  BY DEF AccountInv, AccountTypeOK
  <1>3. call \in AdminCall  BY <1>2 DEF QuietCall, AdminCall
  <1>4. call.step = "guard" /\ call.by = t /\ call.id = id /\ call.op # "register"
    BY DEF QuietCall, AdminOps
  <1>5. ~Creating(call) /\ ~Handling(call) /\ ~Reviving(call)
    BY <1>4 DEF Creating, Handling, Reviving
  <1>6. Placed(call, accounts, born, removed)  BY <1>2, <1>4, <1>5 DEF Placed
  <1>7. admin' = [admin EXCEPT ![c] = call]  BY <1>1
  <1> HIDE DEF call
  <1> QED
    BY <1>1, <1>3, <1>4, <1>5, <1>6, <1>7, CallMoves DEF AccountInv, AccountTypeOK

(* Only an administrator's call gets past the guards, and is noted by then. *)
LEMMA GuardInv ==
  ASSUME AccountInv, NEW c \in AdminCalls, Guard(c)
  PROVE  AccountInv'
  <1>1. CASE ~Allowed(admin[c].by)  BY <1>1, CallEnds DEF Guard
  <1>2. CASE Allowed(admin[c].by)
    <2> DEFINE call == [admin[c] EXCEPT !.step = "read"]
    <2>1. admin[c] \in AdminCall  BY DEF AccountInv, AccountTypeOK
    <2>2. /\ call \in AdminCall /\ call.step = "read" /\ call.id = admin[c].id
          /\ call.op = "register" => call.id \in Users
      BY <2>1 DEF AdminCall, AccountInv, RegisteredAreUsers
    <2>3. Placed(admin[c], accounts, born, removed) /\ admin[c].step = "guard"
      BY DEF Guard, AccountInv, CallsPlaced
    <2>4. admin[c].by.user \in Users /\ "none" \notin Users
      BY <2>3, AccountConstants DEF UpdateDto, Placed, Token, Ids
    <2>5. c \in rightful
      BY <1>2, <2>3, <2>4 DEF AccountInv, GuardsNoted, IsAdmin, Allowed
    <2>6. ~Creating(call) /\ ~Handling(call) /\ ~Reviving(call)
      BY <2>2 DEF Creating, Handling, Reviving
    <2>7. Placed(call, accounts, born, removed)  BY <2>2, <2>3, <2>6 DEF Placed
    <2>8. /\ admin' = [admin EXCEPT ![c] = call]
          /\ UNCHANGED <<accounts, born, tokens, signedIn, rightful, removed, contested>>
      BY <1>2 DEF Guard, Step
    <2> HIDE DEF call
    <2> QED  BY <2>2, <2>5, <2>6, <2>7, <2>8, CallMoves DEF AccountInv, AccountTypeOK
  <1> QED  BY <1>1, <1>2

(* A new identifier is no row's, no removed row's and no other call's. *)
LEMMA NewCallMoves ==
  ASSUME AccountInv, NEW c \in AdminCalls, NEW call \in AdminCall,
         call.step = "insert", call.op \in {"create", "register"},
         call.id \in Ids \ born, call.copy \in AccountRow,
         call.op = "create" => c \in rightful,
         call.op = "register" => call.id \in Users,
         admin' = [admin EXCEPT ![c] = call], born' = born \cup {call.id},
         UNCHANGED <<accounts, tokens, signedIn, rightful, removed, contested>>
  PROVE  AccountInv'
  <1>1. accounts[call.id] = NoRow /\ call.id \notin removed
    BY DEF AccountInv, RowsBorn, Registered
  <1>2. \A d \in AdminCalls : Creating(admin[d]) \/ Handling(admin[d]) => admin[d].id \in born
    BY DEF AccountInv, CallsPlaced, Placed
  <1>3. Creating(call) /\ ~Handling(call) /\ ~Reviving(call)
    BY DEF Creating, Handling, Reviving
  <1>4. Placed(call, accounts, born', removed)  BY <1>1, <1>3 DEF Placed
  <1> QED
    BY <1>1, <1>2, <1>3, <1>4, CallMoves DEF AccountInv, AccountTypeOK, AdminOps

LEMMA CheckMarkInv ==
  ASSUME AccountInv, NEW c \in AdminCalls, CheckMark(c)
  PROVE  AccountInv'
  <1>1. PICK mark \in Marks, role \in Roles, company \in Companies \cup {"none"} :
          /\ admin[c].step = "read" /\ admin[c].op = "create"
          /\ IF admin[c].id \in born \/ MarkTaken(admin[c].id, mark)
               THEN CloseCall(c) /\ UNCHANGED born
               ELSE /\ born' = born \cup {admin[c].id}
                    /\ admin' = [admin EXCEPT ![c].step = "insert",
                          ![c].copy = [mark |-> mark, role |-> role, company |-> company]]
          /\ UNCHANGED <<accounts, tokens, signedIn, rightful, removed, contested>>
    BY DEF CheckMark
  <1>2. CASE admin[c].id \in born \/ MarkTaken(admin[c].id, mark)  BY <1>1, <1>2, CallEnds
  <1>3. CASE ~(admin[c].id \in born \/ MarkTaken(admin[c].id, mark))
    <2> DEFINE row == [mark |-> mark, role |-> role, company |-> company]
               call == [admin[c] EXCEPT !.step = "insert", !.copy = row]
    <2>1. admin[c] \in AdminCall /\ row \in AccountRow
      BY DEF AccountInv, AccountTypeOK, AccountRow
    <2> HIDE DEF row
    <2>2. call \in AdminCall /\ call.step = "insert" /\ call.op = "create"
          /\ call.id = admin[c].id /\ call.copy = row
      BY <1>1, <2>1 DEF AdminCall
    <2>3. admin[c].id \in Ids /\ c \in rightful
      BY <1>1 DEF AccountInv, CallsPlaced, Placed, PowerIsCurrent, AdminOps
    <2>4. admin' = [admin EXCEPT ![c] = call]
      BY <1>1, <1>3 DEF row, AccountInv, AccountTypeOK
    <2> HIDE DEF call
    <2> QED  BY <1>1, <1>3, <2>1, <2>2, <2>3, <2>4, NewCallMoves
  <1> QED  BY <1>2, <1>3

LEMMA RegisterInv ==
  ASSUME AccountInv, NEW c \in AdminCalls, Register(c)
  PROVE  AccountInv'
  <1>1. PICK u \in Users \ born, mark \in Marks, role \in Roles, company \in Companies \cup {"none"} :
          /\ born' = born \cup {u}
          /\ admin' = [admin EXCEPT ![c] = [QuietCall EXCEPT !.step = "insert", !.op = "register",
                         !.id = u, !.copy = [mark |-> mark, role |-> role, company |-> company]]]
          /\ UNCHANGED <<accounts, tokens, signedIn, rightful, removed, contested>>
    BY DEF Register
  <1> DEFINE row == [mark |-> mark, role |-> role, company |-> company]
             call == [QuietCall EXCEPT !.step = "insert", !.op = "register", !.id = u, !.copy = row]
  <1>2. row \in AccountRow  BY DEF AccountRow
  <1>3. admin' = [admin EXCEPT ![c] = call]  BY <1>1
  <1> HIDE DEF row
  <1>4. call \in AdminCall /\ call.step = "insert" /\ call.op = "register" /\ call.id = u
        /\ call.copy = row
    BY <1>2 DEF QuietCall, AdminCall, Ids
  <1>5. u \in Ids  BY DEF Ids
  <1> HIDE DEF call
  <1> QED  BY <1>1, <1>2, <1>3, <1>4, <1>5, NewCallMoves

(* findOne finds a row that may be removed only where that is noted. *)
LEMMA ReadAccountInv ==
  ASSUME AccountInv, NEW c \in AdminCalls, ReadAccount(c)
  PROVE  AccountInv'
  <1> DEFINE id == admin[c].id
             p == admin[c].patch
             copy == [accounts[id] EXCEPT
                        !.mark = IF "mark" \in DOMAIN p THEN p["mark"] ELSE @,
                        !.role = IF "role" \in DOMAIN p /\ id \in Users THEN p["role"] ELSE @,
                        !.company = IF "company" \in DOMAIN p /\ id \in Users /\ @ = "none"
                                      THEN p["company"] ELSE @]
             call == [admin[c] EXCEPT
                        !.step = IF admin[c].op = "update" THEN "save" ELSE "delete",
                        !.copy = copy]
  <1>1. admin[c].step = "read" /\ admin[c].op \in {"update", "remove"}  BY DEF ReadAccount
  <1>2. CASE ~Registered(id)  BY <1>2, CallEnds DEF ReadAccount
  <1>3. CASE Registered(id)
    <2>1. /\ admin' = [admin EXCEPT ![c].step = IF admin[c].op = "update" THEN "save" ELSE "delete",
                                    ![c].copy = copy]
          /\ UNCHANGED <<accounts, born, tokens, signedIn, rightful, removed, contested>>
      BY <1>3 DEF ReadAccount
    <2>2. admin[c] \in AdminCall  BY DEF AccountInv, AccountTypeOK
    <2>3. id \in Ids /\ c \in rightful
      BY <1>1 DEF AccountInv, CallsPlaced, Placed, PowerIsCurrent, AdminOps
    <2>4. copy \in AccountRow
      <3>1. accounts[id] \in AccountRow
        BY <1>3, <2>3 DEF AccountInv, AccountTypeOK, Registered
      <3>2. p \in Patches \cup {NoPatch}  BY <2>2 DEF AdminCall
      <3>3. "mark" \in DOMAIN p => p["mark"] \in Marks
        BY <3>2, AccountConstants DEF UpdateDto, NoPatch
      <3>4. "role" \in DOMAIN p => p["role"] \in Roles
        BY <3>2, AccountConstants DEF UpdateDto, NoPatch
      <3>5. "company" \in DOMAIN p => p["company"] \in Companies
        BY <3>2, AccountConstants DEF UpdateDto, NoPatch
      <3> HIDE DEF p, id
      <3> QED  BY <3>1, <3>3, <3>4, <3>5 DEF AccountRow
    <2> HIDE DEF copy
    <2>5. call \in AdminCall /\ call.op = admin[c].op /\ call.id = id /\ call.copy = copy
          /\ call.patch = p
          /\ call.step = IF admin[c].op = "update" THEN "save" ELSE "delete"
      BY <2>2, <2>4 DEF AdminCall
    <2>6. admin' = [admin EXCEPT ![c] = call]
      BY <2>1 DEF AccountInv, AccountTypeOK
    <2>7. id \in born  BY <1>3, <2>3 DEF AccountInv, RowsBorn
    <2> HIDE DEF call
    <2>8. ~Creating(call)  BY <2>5 DEF Creating
    <2>9. \A d \in AdminCalls : Creating(admin[d]) => admin[d].id # id
      BY <1>3 DEF AccountInv, CallsPlaced, Placed, Registered
    <2>10. Placed(call, accounts, born, removed)
      BY <1>1, <2>3, <2>4, <2>5, <2>7, <2>8 DEF Placed, Handling
    <2>11. id \in removed => id \in contested
      BY <1>3 DEF AccountInv, RemovedStaysRemoved
    <2>12. call.op # "register" /\ call.step # "guard"  BY <1>1, <2>5
    <2>13. \A d \in AdminCalls \ {c} : admin[d].id = call.id =>
             /\ Creating(call) => ~Creating(admin[d]) /\ ~Handling(admin[d])
             /\ Handling(call) => ~Creating(admin[d])
      BY <2>5, <2>8, <2>9
    <2>14. Reviving(call) /\ call.id \in removed => call.id \in contested
      BY <2>5, <2>11
    <2>15. /\ tokens \subseteq Token /\ signedIn \in {"never", "error", "tokens"}
           /\ born \subseteq Ids /\ rightful \subseteq AdminCalls
      BY DEF AccountInv, AccountTypeOK
    <2> HIDE DEF id
    <2> QED
      BY <2>1, <2>3, <2>5, <2>6, <2>10, <2>12, <2>13, <2>14, <2>15, CallMoves
  <1> QED  BY <1>2, <1>3

LEMMA CompareAccountInv ==
  ASSUME AccountInv, NEW c \in AdminCalls, CompareAccount(c)
  PROVE  AccountInv'
  <1>1. admin[c].step = "save" /\ admin[c] \in AdminCall
    BY DEF CompareAccount, AccountInv, AccountTypeOK
  <1>2. Placed(admin[c], accounts, born, removed) /\ Handling(admin[c])
    BY <1>1 DEF AccountInv, CallsPlaced, Handling
  <1>3. admin[c].op = "update" /\ c \in rightful
    BY <1>1, <1>2 DEF AccountInv, Placed, PowerIsCurrent, AdminOps
  <1>4. \A d \in AdminCalls \ {c} : Creating(admin[d]) => admin[d].id # admin[c].id
    BY <1>2 DEF AccountInv, CreatorsAlone
  <1>5. CASE ~Registered(admin[c].id)
    <2> DEFINE call == [admin[c] EXCEPT !.step = "insert"]
    <2>1. /\ call \in AdminCall /\ call.step = "insert" /\ call.op = "update"
          /\ call.id = admin[c].id /\ call.patch = admin[c].patch /\ call.copy = admin[c].copy
      BY <1>1, <1>3 DEF AdminCall
    <2>2. /\ admin' = [admin EXCEPT ![c] = call]
          /\ UNCHANGED <<accounts, born, tokens, signedIn, rightful, removed, contested>>
      BY <1>5 DEF CompareAccount, Step
    <2> HIDE DEF call
    <2>3. ~Creating(call) /\ (Reviving(call) => Reviving(admin[c]))
      BY <1>1, <1>3, <2>1 DEF Creating, Reviving
    <2>4. Placed(call, accounts, born, removed)
      BY <1>1, <1>2, <2>1, <2>3 DEF Placed, Handling
    <2>5. Reviving(call) /\ call.id \in removed => call.id \in contested
      BY <2>1, <2>3 DEF AccountInv, RevivalsNoted
    <2>6. /\ born \subseteq born' /\ born' \subseteq Ids /\ tokens' \subseteq Token
          /\ rightful \subseteq rightful' /\ rightful' \subseteq AdminCalls
          /\ signedIn' \in {"never", "error", "tokens"}
      BY <2>2 DEF AccountInv, AccountTypeOK
    <2>7. Placed(call, accounts, born', removed) /\ c \in rightful'
      BY <1>3, <2>2, <2>4
    <2>8. ASSUME NEW d \in AdminCalls \ {c}, admin[d].id = call.id
          PROVE  /\ Creating(call) => ~Creating(admin[d]) /\ ~Handling(admin[d])
                 /\ Handling(call) => ~Creating(admin[d])
      BY <1>4, <2>1, <2>3, <2>8
    <2>9. call.step # "guard" /\ call.op # "register"
      BY <2>1
    <2> QED
      BY <2>1, <2>2, <2>5, <2>6, <2>7, <2>8, <2>9, CallMoves
  <1>6. CASE Registered(admin[c].id) /\ accounts[admin[c].id] = admin[c].copy
    BY <1>6, CallEnds DEF CompareAccount
  <1>7. CASE Registered(admin[c].id) /\ accounts[admin[c].id] # admin[c].copy
    <2> DEFINE cols == {k \in AccountColumns : accounts[admin[c].id][k] # admin[c].copy[k]}
               call == [admin[c] EXCEPT !.step = "write", !.cols = cols]
    <2>1. /\ admin' = [admin EXCEPT ![c].step = "write", ![c].cols = cols]
          /\ UNCHANGED <<accounts, born, tokens, signedIn, rightful, removed, contested>>
      BY <1>7 DEF CompareAccount
    <2>2. cols \subseteq AccountColumns  OBVIOUS
    <2> HIDE DEF cols
    <2>3. /\ call \in AdminCall /\ call.step = "write" /\ call.op = "update"
          /\ call.id = admin[c].id /\ call.copy = admin[c].copy
      BY <1>1, <1>3, <2>2 DEF AdminCall
    <2>4. admin' = [admin EXCEPT ![c] = call]  BY <2>1 DEF AccountInv, AccountTypeOK
    <2> HIDE DEF call
    <2>5. ~Creating(call) /\ ~Reviving(call)  BY <2>3 DEF Creating, Reviving
    <2>6. Placed(call, accounts, born, removed)
      BY <1>1, <1>2, <2>3, <2>5 DEF Placed, Handling
    <2>7. \A d \in AdminCalls \ {c} : admin[d].id = call.id =>
             /\ Creating(call) => ~Creating(admin[d]) /\ ~Handling(admin[d])
             /\ Handling(call) => ~Creating(admin[d])
      BY <1>4, <2>3, <2>5
    <2>8. /\ born \subseteq Ids /\ rightful \subseteq AdminCalls /\ tokens \subseteq Token
          /\ signedIn \in {"never", "error", "tokens"}
      BY DEF AccountInv, AccountTypeOK
    <2> QED
      BY <1>3, <2>1, <2>3, <2>4, <2>5, <2>6, <2>7, <2>8, CallMoves
  <1> QED  BY <1>5, <1>6, <1>7

(* A call stores a row and ends.  The row is nobody's to create, its company  *)
(* exists, and it is a removed one only where that is noted.                 *)
LEMMA RowStored ==
  ASSUME AccountInv, NEW c \in AdminCalls, NEW id \in Ids, NEW row \in AccountRow,
         accounts' = [accounts EXCEPT ![id] = row],
         row.company = "none" \/ Registered(row.company),
         id \in born, id \in removed => id \in contested,
         \A d \in AdminCalls \ {c} : Creating(admin[d]) => admin[d].id # id,
         rightful' = rightful \cup
           {d \in AdminCalls : admin[d].step = "guard" /\ IsAdmin(accounts', admin[d].by.user)},
         CloseCall(c), tokens' \subseteq Token,
         UNCHANGED <<born, signedIn, removed, contested>>
  PROVE  AccountInv'
  <1> USE DEF AccountInv
  <1>1. accounts \in [Ids -> AccountRow \cup {NoRow}]  BY DEF AccountTypeOK
  <1>2. accounts'[id] = row /\ \A j \in Ids \ {id} : accounts'[j] = accounts[j]  BY <1>1
  <1>3. admin' = [admin EXCEPT ![c] = DoneCall] /\ DoneCall \in AdminCall
    BY QuietTyped DEF CloseCall, DoneCall
  <1>4. AccountTypeOK'  BY <1>1, <1>3 DEF AccountTypeOK
  <1>5. /\ admin'[c].step = "done" /\ admin'[c].op = "none"
        /\ \A d \in AdminCalls \ {c} : admin'[d] = admin[d]
    BY <1>3 DEF AccountTypeOK, DoneCall, QuietCall
  <1>6. row # NoRow  BY NoRowIsNone
  <1>7. \A j \in Ids : Registered(j) => accounts'[j] # NoRow  BY <1>2, <1>6 DEF Registered
  <1>8. PowerIsCurrent'  BY <1>5 DEF PowerIsCurrent, AdminOps
  <1>9. CompanyReferences'
    <2> SUFFICES ASSUME NEW u \in Users, accounts'[u].company # "none"
                 PROVE  accounts'[accounts'[u].company] # NoRow
      BY DEF CompanyReferences, Registered
    <2>1. Registered(accounts'[u].company)
      BY <1>2 DEF CompanyReferences, Ids
    <2>2. accounts'[u].company \in Companies
      BY <1>1, <1>2 DEF AccountRow, NoRow, Ids
    <2> QED  BY <1>7, <2>1, <2>2 DEF Ids
  <1>10. RemovedStaysRemoved'
    BY <1>2 DEF RemovedStaysRemoved, Registered, AccountTypeOK
  <1>11. CallsPlaced'
    <2> SUFFICES ASSUME NEW d \in AdminCalls PROVE Placed(admin'[d], accounts', born, removed)
      BY DEF CallsPlaced, Placed, Creating, Handling
    <2>1. CASE d = c  BY <2>1, <1>5 DEF Placed, Creating, Handling
    <2>2. CASE d # c
      <3>1. Placed(admin[d], accounts, born, removed) /\ admin'[d] = admin[d]
        BY <2>2, <1>5 DEF CallsPlaced
      <3>2. Creating(admin[d]) => accounts'[admin[d].id] = NoRow
        BY <2>2, <3>1, <1>2 DEF Placed, Creating
      <3> QED  BY <3>1, <3>2 DEF Placed
    <2> QED  BY <2>1, <2>2
  <1>12. GuardsNoted'
    BY <1>5 DEF GuardsNoted, IsAdmin
  <1>13. RowsBorn'  BY <1>2 DEF RowsBorn, Registered
  <1>14. CreatorsAlone'  BY <1>5 DEF CreatorsAlone, Creating, Handling
  <1>15. RevivalsNoted'  BY <1>5 DEF RevivalsNoted, Reviving
  <1>16. RegisteredAreUsers'  BY <1>5 DEF RegisteredAreUsers
  <1> QED  BY <1>4, <1>8, <1>9, <1>10, <1>11, <1>12, <1>13, <1>14, <1>15, <1>16

(* The row is absent: a new one, or one a PATCH with a password brings back. *)
LEMMA InsertRowInv ==
  ASSUME AccountInv, NEW c \in AdminCalls, InsertRow(c)
  PROVE  AccountInv'
  <1> DEFINE id == admin[c].id
  <1>1. CASE ~(~Registered(id) /\ Insertable(c))
    BY <1>1, CallEnds DEF InsertRow
  <1>2. CASE ~Registered(id) /\ Insertable(c)
    <2>1. admin[c].step = "insert" /\ admin[c] \in AdminCall
      BY DEF InsertRow, AccountInv, AccountTypeOK
    <2>2. Placed(admin[c], accounts, born, removed)  BY DEF AccountInv, CallsPlaced
    <2>3. Creating(admin[c]) \/ Handling(admin[c])  BY <2>1 DEF Creating, Handling
    <2>4. id \in Ids /\ id \in born /\ admin[c].copy \in AccountRow
      BY <2>1, <2>2, <2>3 DEF Placed
    <2>5. /\ SetAccounts([accounts EXCEPT ![id] = admin[c].copy])
          /\ tokens' = IF admin[c].op = "register"
                         THEN tokens \cup {[user |-> id, role |-> admin[c].copy.role]} ELSE tokens
          /\ CloseCall(c)
          /\ UNCHANGED <<born, signedIn, removed, contested>>
      BY <1>2 DEF InsertRow
    <2>6. \A d \in AdminCalls \ {c} : Creating(admin[d]) => admin[d].id # id
      BY <2>3 DEF AccountInv, CreatorsAlone
    <2>7. id \in removed => id \in contested
      <3>1. CASE Creating(admin[c])  BY <3>1, <2>2 DEF Placed
      <3>2. CASE ~Creating(admin[c])
        <4>1. admin[c].op = "update"  BY <3>2, <2>1, <2>2, <2>3 DEF Placed
        <4>2. Reviving(admin[c])  BY <1>2, <2>1, <4>1 DEF Insertable, Reviving
        <4> QED  BY <4>2 DEF AccountInv, RevivalsNoted
      <3> QED  BY <3>1, <3>2
    <2>8. admin[c].copy.company = "none" \/ Registered(admin[c].copy.company)
      BY <1>2 DEF Insertable, Storable
    <2>9. tokens' \subseteq Token
      <3>1. CASE admin[c].op = "register"
        <4>1. admin[c].copy.role \in Roles  BY <2>4 DEF AccountRow
        <4>2. id \in Users  BY <2>1, <3>1 DEF AccountInv, RegisteredAreUsers
        <4> QED  BY <2>5, <3>1, <4>1, <4>2 DEF Token, AccountInv, AccountTypeOK
      <3>2. CASE admin[c].op # "register"
        BY <2>5, <3>2 DEF AccountInv, AccountTypeOK
      <3> QED  BY <3>1, <3>2
    <2>10. /\ accounts' = [accounts EXCEPT ![id] = admin[c].copy]
           /\ rightful' = rightful \cup
                {d \in AdminCalls : admin[d].step = "guard" /\ IsAdmin(accounts', admin[d].by.user)}
      BY <2>5 DEF SetAccounts
    <2> HIDE DEF id
    <2> QED  BY <2>4, <2>5, <2>6, <2>7, <2>8, <2>9, <2>10, RowStored
  <1> QED  BY <1>1, <1>2

(* The row is there and stays there. *)
LEMMA WriteAccountInv ==
  ASSUME AccountInv, NEW c \in AdminCalls, WriteAccount(c)
  PROVE  AccountInv'
  <1> DEFINE id == admin[c].id
             old == accounts[id]
             row == [mark |-> IF "mark" \in admin[c].cols THEN admin[c].copy.mark ELSE old.mark,
                     role |-> IF "role" \in admin[c].cols THEN admin[c].copy.role ELSE old.role,
                     company |-> IF "company" \in admin[c].cols THEN admin[c].copy.company
                                                                ELSE old.company]
  <1>1. CASE ~(Registered(id) /\ Storable(id, row))
    BY <1>1, CallEnds DEF WriteAccount
  <1>2. CASE Registered(id) /\ Storable(id, row)
    <2>1. admin[c].step = "write"  BY DEF WriteAccount
    <2>2. Placed(admin[c], accounts, born, removed)  BY DEF AccountInv, CallsPlaced
    <2>3. id \in Ids /\ id \in born /\ admin[c].copy \in AccountRow
      BY <2>1, <2>2 DEF Placed, Handling
    <2>4. old \in AccountRow
      BY <1>2, <2>3 DEF AccountInv, AccountTypeOK, Registered
    <2>5. row \in AccountRow
      <3> HIDE DEF old
      <3> QED  BY <2>3, <2>4 DEF AccountRow
    <2>6. /\ SetAccounts([accounts EXCEPT ![id] = row]) /\ CloseCall(c)
          /\ UNCHANGED <<born, tokens, signedIn, removed, contested>>
      BY <1>2 DEF WriteAccount
    <2>7. row.company = "none" \/ Registered(row.company)  BY <1>2 DEF Storable
    <2> HIDE DEF row
    <2>8. \A d \in AdminCalls \ {c} : Creating(admin[d]) => admin[d].id # id
      BY <1>2 DEF AccountInv, CallsPlaced, Placed, Registered
    <2>9. id \in removed => id \in contested
      BY <1>2 DEF AccountInv, RemovedStaysRemoved
    <2>10. /\ accounts' = [accounts EXCEPT ![id] = row]
           /\ rightful' = rightful \cup
                {d \in AdminCalls : admin[d].step = "guard" /\ IsAdmin(accounts', admin[d].by.user)}
           /\ tokens' \subseteq Token
      BY <2>6 DEF SetAccounts, AccountInv, AccountTypeOK
    <2> HIDE DEF id, old
    <2> QED  BY <2>3, <2>5, <2>6, <2>7, <2>8, <2>9, <2>10, RowStored
  <1> QED  BY <1>1, <1>2

(* The row goes, and with it every reference to it; whoever can bring it back *)
(* is noted.                                                                *)
LEMMA DeleteAccountInv ==
  ASSUME AccountInv, NEW c \in AdminCalls, DeleteAccount(c)
  PROVE  AccountInv'
  <1> USE DEF AccountInv
  <1> DEFINE id == admin[c].id
  <1>1. admin[c].step = "delete" /\ Handling(admin[c])  BY DEF DeleteAccount, Handling
  <1>2. id \in Ids /\ id \in born  BY <1>1 DEF CallsPlaced, Placed
  <1>3. /\ accounts' = Unlinked([accounts EXCEPT ![id] = NoRow], id)
        /\ rightful' = rightful \cup
             {d \in AdminCalls : admin[d].step = "guard" /\ IsAdmin(accounts', admin[d].by.user)}
        /\ removed' = removed \cup {id}
        /\ contested' = IF \E d \in AdminCalls : Revives(d, id) THEN contested \cup {id} ELSE contested
        /\ admin' = [admin EXCEPT ![c] = DoneCall]
        /\ UNCHANGED <<born, tokens, signedIn>>
    BY DEF DeleteAccount, SetAccounts, CloseCall, DoneCall
  <1> HIDE DEF id
  <1>4. accounts \in [Ids -> AccountRow \cup {NoRow}]  BY DEF AccountTypeOK
  <1>5. \A j \in Ids \ {id} :
           accounts'[j] = [accounts[j] EXCEPT !.company = IF @ = id THEN "none" ELSE @]
    BY <1>2, <1>3, <1>4 DEF Unlinked
  <1>6. accounts'[id] = NoRow
    BY <1>2, <1>3, <1>4, AccountConstants DEF Unlinked, NoRow
  <1>7. \A j \in Ids \ {id} :
           /\ accounts'[j] \in AccountRow \cup {NoRow}
           /\ accounts'[j] = NoRow <=> accounts[j] = NoRow
           /\ accounts'[j].company = IF accounts[j].company = id THEN "none" ELSE accounts[j].company
    <2> SUFFICES ASSUME NEW j \in Ids \ {id}
                 PROVE  /\ accounts'[j] \in AccountRow \cup {NoRow}
                        /\ accounts'[j] = NoRow <=> accounts[j] = NoRow
                        /\ accounts'[j].company =
                             IF accounts[j].company = id THEN "none" ELSE accounts[j].company
      OBVIOUS
    <2>1. CASE accounts[j] = NoRow  BY <2>1, <1>2, <1>5, AccountConstants DEF NoRow
    <2>2. CASE accounts[j] \in AccountRow
      <3>1. accounts'[j] \in AccountRow /\ accounts'[j].company =
               IF accounts[j].company = id THEN "none" ELSE accounts[j].company
        BY <2>2, <1>5 DEF AccountRow
      <3> QED  BY <2>2, <3>1, NoRowIsNone
    <2> QED  BY <2>1, <2>2, <1>4
  <1>8. /\ admin'[c].step = "done" /\ admin'[c].op = "none"
        /\ \A d \in AdminCalls \ {c} : admin'[d] = admin[d]
    BY <1>3 DEF AccountTypeOK, DoneCall, QuietCall
  <1>9. AccountTypeOK'
    <2>1. accounts' \in [Ids -> AccountRow \cup {NoRow}]
      <3>1. accounts' = [j \in Ids |-> accounts'[j]]  BY <1>3 DEF Unlinked
      <3> QED  BY <3>1, <1>6, <1>7
    <2>2. admin' \in [AdminCalls -> AdminCall]  BY <1>3, QuietTyped DEF AccountTypeOK
    <2> QED  BY <2>1, <2>2, <1>2, <1>3 DEF AccountTypeOK
  <1>10. PowerIsCurrent'  BY <1>3, <1>8 DEF PowerIsCurrent, AdminOps
  <1>11. CompanyReferences'
    <2> SUFFICES ASSUME NEW u \in Users, accounts'[u].company # "none"
                 PROVE  accounts'[accounts'[u].company] # NoRow
      BY DEF CompanyReferences, Registered
    <2>1. u # id /\ u \in Ids  BY <1>6 DEF NoRow, Ids
    <2>2. accounts'[u].company = accounts[u].company /\ accounts[u].company # id
      BY <2>1, <1>7
    <2>3. accounts[u].company \in Ids /\ Registered(accounts[u].company)
      BY <2>1, <2>2, <1>4 DEF CompanyReferences, AccountRow, NoRow, Ids
    <2> QED  BY <2>2, <2>3, <1>7 DEF Registered
  <1>12. RemovedStaysRemoved'
    <2> SUFFICES ASSUME NEW j \in removed \cup {id}, accounts'[j] # NoRow PROVE j \in contested'
      BY <1>3 DEF RemovedStaysRemoved, Registered
    <2>1. j # id /\ j \in removed /\ j \in Ids  BY <1>6 DEF AccountTypeOK
    <2> QED  BY <2>1, <1>3, <1>7 DEF RemovedStaysRemoved, Registered
  <1>13. CallsPlaced'
    <2> SUFFICES ASSUME NEW d \in AdminCalls PROVE Placed(admin'[d], accounts', born, removed')
      BY <1>3 DEF CallsPlaced, Placed, Creating, Handling
    <2>1. CASE d = c  BY <2>1, <1>8 DEF Placed, Creating, Handling
    <2>2. CASE d # c
      <3>1. Placed(admin[d], accounts, born, removed) /\ admin'[d] = admin[d]
        BY <2>2, <1>8 DEF CallsPlaced
      <3>2. Creating(admin[d]) => admin[d].id # id
        BY <2>2, <1>1 DEF CreatorsAlone, id
      <3>3. Creating(admin[d]) => accounts'[admin[d].id] = NoRow /\ admin[d].id \notin removed'
        BY <3>1, <3>2, <1>3, <1>7 DEF Placed, Creating
      <3> QED  BY <3>1, <3>3 DEF Placed
    <2> QED  BY <2>1, <2>2
  <1>14. GuardsNoted'  BY <1>3, <1>8 DEF GuardsNoted, IsAdmin
  <1>15. RowsBorn'  BY <1>2, <1>3, <1>6, <1>7 DEF RowsBorn, Registered
  <1>16. CreatorsAlone'  BY <1>8 DEF CreatorsAlone, Creating, Handling
  <1>17. RevivalsNoted'
    <2> SUFFICES ASSUME NEW d \in AdminCalls, Reviving(admin'[d]), admin'[d].id \in removed'
                 PROVE  admin'[d].id \in contested'
      BY DEF RevivalsNoted, Reviving
    <2>1. d # c /\ admin'[d] = admin[d] /\ Reviving(admin[d])  BY <1>8 DEF Reviving
    <2>2. CASE admin[d].id = id
      <3>1. Revives(d, id)  BY <2>1, <2>2 DEF Revives, Reviving
      <3> QED  BY <2>1, <2>2, <3>1, <1>3
    <2>3. CASE admin[d].id # id  BY <2>1, <2>3, <1>3 DEF RevivalsNoted
    <2> QED  BY <2>2, <2>3
  <1>18. RegisteredAreUsers'  BY <1>8 DEF RegisteredAreUsers
  <1> QED  BY <1>9, <1>10, <1>11, <1>12, <1>13, <1>14, <1>15, <1>16, <1>17, <1>18

(* login and refresh change no row and no call. *)
LEMMA TokensInv ==
  ASSUME AccountInv, tokens' \subseteq Token, signedIn' \in {"never", "error", "tokens"},
         UNCHANGED <<accounts, born, admin, rightful, removed, contested>>
  PROVE  AccountInv'
  <1> USE DEF AccountInv
  <1>1. AccountTypeOK'  BY DEF AccountTypeOK
  <1>2. PowerIsCurrent' /\ CompanyReferences' /\ RemovedStaysRemoved'
    BY DEF PowerIsCurrent, CompanyReferences, RemovedStaysRemoved, Registered
  <1>3. CallsPlaced' /\ CreatorsAlone' /\ RevivalsNoted' /\ RegisteredAreUsers'
    BY DEF CallsPlaced, Placed, CreatorsAlone, RevivalsNoted, Creating, Handling, Reviving,
           RegisteredAreUsers
  <1>4. GuardsNoted' /\ RowsBorn'  BY DEF GuardsNoted, IsAdmin, RowsBorn, Registered
  <1> QED  BY <1>1, <1>2, <1>3, <1>4

LEMMA AccountStepInv == AccountInv /\ [AccountNext]_accountVars => AccountInv'
  <1> SUFFICES ASSUME AccountInv, [AccountNext]_accountVars PROVE AccountInv'
    OBVIOUS
  <1>1. ASSUME NEW c \in AdminCalls, AccountStep(c) PROVE AccountInv'
    BY <1>1, ArriveInv, RegisterInv, GuardInv, CheckMarkInv, InsertRowInv, ReadAccountInv,
       CompareAccountInv, WriteAccountInv, DeleteAccountInv DEF AccountStep
  <1>2. ASSUME NEW u \in Users, Login(u) PROVE AccountInv'
    <2>1. signedIn' = "error" /\ tokens' = tokens  BY <1>2 DEF Login, LoadedColumns
    <2> QED  BY <1>2, <2>1, TokensInv DEF Login, AccountInv, AccountTypeOK
  <1>3. ASSUME NEW t \in tokens, Refresh(t) PROVE AccountInv'
    <2>1. t \in Token  BY DEF AccountInv, AccountTypeOK
    <2>2. t.user \in Users /\ accounts[t.user] \in AccountRow
      BY <1>3, <2>1 DEF Refresh, Registered, Token, Ids, AccountInv, AccountTypeOK
    <2>3. [user |-> t.user, role |-> accounts[t.user].role] \in Token
      BY <2>2 DEF Token, AccountRow
    <2> QED  BY <1>3, <2>3, TokensInv DEF Refresh, AccountInv, AccountTypeOK
  <1>4. CASE UNCHANGED accountVars
    BY <1>4, TokensInv DEF accountVars, AccountInv, AccountTypeOK
  <1> QED  BY <1>1, <1>2, <1>3, <1>4 DEF AccountNext

(* AccountInv holds in every reachable state. *)
LEMMA AccountsInvariant == AccountSpec => []AccountInv
  BY AccountsAtStart, AccountStepInv, PTL DEF AccountSpec

---------------------------------------------------------------------------
(* However demotions, removals and calls interleave, nothing is done under    *)
(* the guards for a caller who has not been an administrator since the call   *)
(* arrived, whatever its token says.                                        *)
THEOREM PowerAlwaysCurrent == AccountSpec => []PowerIsCurrent
  BY AccountsInvariant, PTL DEF AccountInv

(* A user or company that was removed comes back only through a PATCH that    *)
(* held a copy of it at the time.                                           *)
THEOREM RemovedForGood == AccountSpec => []RemovedStaysRemoved
  BY AccountsInvariant, PTL DEF AccountInv

(* The copies users are saved from never bring back a reference to a company  *)
(* that was removed meanwhile.                                              *)
THEOREM ReferencesHold == AccountSpec => []CompanyReferences
  BY AccountsInvariant, PTL DEF AccountInv

(* For any users, companies, bodies and calls: rows, tokens and calls are typed.  *)
THEOREM AccountTypes == AccountSpec => []AccountTypeOK
  <1>1. AccountInv => AccountTypeOK  BY DEF AccountInv
  <1> QED  BY <1>1, AccountsInvariant, PTL

---------------------------------------------------------------------------
(***************************************************************************)
(* IgniteCache: what the caches, the maps and the requests hold is typed.     *)
(* The answer a request stores is a version: it has been through its handler.  *)
(***************************************************************************)
ReaderState == [step : {"idle", "asked", "missed", "store", "failed"}, url : Urls,
                scope : Scopes, value : Versions \cup {Missing}]
Storing(r) == reader[r].step = "store" => reader[r].value \in Versions

ResponsesTyped == CacheTypeOK /\ \A r \in Readers : Storing(r)

\* A request that moves on, to any step with a version in hand or before one with none.
LEMMA ReaderMoves ==
  ASSUME ResponsesTyped, NEW r \in Readers,
         NEW state \in ReaderState, state.step = "store" => state.value \in Versions,
         reader' = [reader EXCEPT ![r] = state],
         UNCHANGED <<mode, origin, restarts>>,
         ignite' \in [Scopes -> [Urls -> Versions \cup {Missing}]],
         maps' \in [Scopes -> [Urls -> MapEntry \cup {NoMapEntry}]]
  PROVE  ResponsesTyped'
  <1>1. reader' \in [Readers -> ReaderState]
    BY DEF ResponsesTyped, CacheTypeOK, ReaderState
  <1>2. \A q \in Readers : Storing(q)'
    BY DEF ResponsesTyped, CacheTypeOK, Storing, ReaderState
  <1> QED  BY <1>1, <1>2 DEF ResponsesTyped, CacheTypeOK, ReaderState

LEMMA IdleReaderTyped == IdleReader \in ReaderState /\ IdleReader.step = "idle"
  <1>1. (CHOOSE u \in Urls : TRUE) \in Urls  BY CacheConstants
  <1> QED  BY <1>1 DEF IdleReader, ReaderState, Scopes

\* An entry of a store is one of its values.
LEMMA PutTyped ==
  ASSUME NEW Values, NEW store \in [Scopes -> [Urls -> Values]],
         NEW s \in Scopes, NEW u \in Urls, NEW v \in Values
  PROVE  Put(store, s, u, v) \in [Scopes -> [Urls -> Values]]
  BY DEF Put

LEMMA CacheStart == CacheInit => ResponsesTyped
  <1> SUFFICES ASSUME CacheInit PROVE ResponsesTyped  OBVIOUS
  <1>1. 0 \in Versions /\ restarts \in 0..MaxRestarts  BY CacheConstants DEF CacheInit, Versions
  <1>2. reader \in [Readers -> ReaderState]  BY IdleReaderTyped DEF CacheInit
  <1>3. \A r \in Readers : Storing(r)  BY IdleReaderTyped DEF CacheInit, Storing
  <1> QED  BY <1>1, <1>2, <1>3 DEF CacheInit, ResponsesTyped, CacheTypeOK, ReaderState

LEMMA ReaderKeeps ==
  ASSUME ResponsesTyped, NEW r \in Readers, AskCached(r) \/ ServeReader(r)
  PROVE  ResponsesTyped'
  <1>1. /\ reader \in [Readers -> ReaderState] /\ reader[r] \in ReaderState /\ Storing(r)
        /\ ignite \in [Scopes -> [Urls -> Versions \cup {Missing}]]
        /\ maps \in [Scopes -> [Urls -> MapEntry \cup {NoMapEntry}]]
        /\ origin \in [Urls -> Versions]
    BY DEF ResponsesTyped, CacheTypeOK, ReaderState
  <1>2. reader[r].url \in Urls /\ reader[r].scope \in Scopes  BY <1>1 DEF ReaderState
  <1>3. UNCHANGED <<mode, origin, restarts>>
    BY DEF AskCached, ServeReader, LookUpIgnite, LookUpFails, LookUpMap, Handle, Store
  <1>4. ASSUME Answered(r), UNCHANGED <<ignite, maps>> PROVE ResponsesTyped'
    BY <1>1, <1>3, <1>4, IdleReaderTyped, ReaderMoves DEF Answered
  <1>5. ASSUME NEW step \in {"missed", "store"}, NEW v \in Versions \cup {Missing},
               step = "store" => v \in Versions, ReaderAt(r, step, v), UNCHANGED ignite,
               maps' \in [Scopes -> [Urls -> MapEntry \cup {NoMapEntry}]]
        PROVE  ResponsesTyped'
    <2>1. PICK state : state = [reader[r] EXCEPT !.step = step, !.value = v]  OBVIOUS
    <2>2. state \in ReaderState /\ (state.step = "store" => state.value \in Versions)
      BY <1>1, <1>5, <2>1 DEF ReaderState
    <2>3. reader' = [reader EXCEPT ![r] = state]  BY <1>1, <1>5, <2>1 DEF ReaderAt
    <2> QED  BY <1>1, <1>3, <1>5, <2>2, <2>3, ReaderMoves
  <1>6. CASE AskCached(r)
    <2>1. PICK u \in Urls, s \in Scopes :
             reader' = [reader EXCEPT ![r] = [step |-> "asked", url |-> u, scope |-> s,
                                              value |-> Missing]]
      BY <1>6 DEF AskCached
    <2>2. UNCHANGED <<ignite, maps>>  BY <1>6 DEF AskCached
    <2> QED  BY <1>1, <1>3, <2>1, <2>2, ReaderMoves DEF ReaderState
  <1>7. CASE LookUpIgnite(r) \/ LookUpFails(r)
    <2>1. UNCHANGED <<ignite, maps>> /\ (Answered(r) \/ ReaderAt(r, "missed", Missing))
      BY <1>7 DEF LookUpIgnite, LookUpFails
    <2> QED  BY <1>1, <1>4, <1>5, <2>1
  <1>8. CASE LookUpMap(r)
    <2>1. CASE Answered(r) /\ UNCHANGED <<ignite, maps>>  BY <1>4, <2>1
    <2>2. CASE /\ maps' = Put(maps, reader[r].scope, reader[r].url, NoMapEntry)
               /\ ReaderAt(r, "missed", Missing) /\ UNCHANGED ignite
      <3>1. maps' \in [Scopes -> [Urls -> MapEntry \cup {NoMapEntry}]]
        BY <1>1, <1>2, <2>2, PutTyped
      <3> QED  BY <1>5, <2>2, <3>1
    <2> QED  BY <1>8, <2>1, <2>2 DEF LookUpMap
  <1>9. CASE Handle(r)
    <2>1. origin[reader[r].url] \in Versions  BY <1>1, <1>2
    <2> QED  BY <1>1, <1>5, <1>9, <2>1 DEF Handle
  <1>10. CASE Store(r)
    <2>1. reader[r].value \in Versions  BY <1>1, <1>10 DEF Store, Storing
    <2>2. [value |-> reader[r].value, left |-> Ttl] \in MapEntry
      BY <2>1, CacheConstants DEF MapEntry
    <2>3. /\ ignite' \in [Scopes -> [Urls -> Versions \cup {Missing}]]
          /\ maps' \in [Scopes -> [Urls -> MapEntry \cup {NoMapEntry}]]
      <3>1. Put(ignite, reader[r].scope, reader[r].url, reader[r].value)
               \in [Scopes -> [Urls -> Versions \cup {Missing}]]
        BY <1>1, <1>2, <2>1, PutTyped
      <3>2. Put(maps, reader[r].scope, reader[r].url, [value |-> reader[r].value, left |-> Ttl])
               \in [Scopes -> [Urls -> MapEntry \cup {NoMapEntry}]]
        BY <1>1, <1>2, <2>2, PutTyped
      <3> QED  BY <1>1, <1>10, <3>1, <3>2 DEF Store, StoreInMap
    <2>4. Answered(r)  BY <1>10 DEF Store
    <2> QED  BY <1>3, <2>3, <2>4, IdleReaderTyped, ReaderMoves DEF Answered
  <1> QED  BY <1>6, <1>7, <1>8, <1>9, <1>10 DEF ServeReader

\* Steps that leave the requests alone.
LEMMA StoresKeep ==
  ASSUME ResponsesTyped, UNCHANGED <<reader, restarts>>,
         mode' \in {"boot", "ignite", "detached", "memory"},
         ignite' \in [Scopes -> [Urls -> Versions \cup {Missing}]],
         maps' \in [Scopes -> [Urls -> MapEntry \cup {NoMapEntry}]],
         origin' \in [Urls -> Versions]
  PROVE  ResponsesTyped'
  BY DEF ResponsesTyped, CacheTypeOK, Storing

LEMMA CacheStep == ResponsesTyped /\ [CacheNext]_cacheVars => ResponsesTyped'
  <1> SUFFICES ASSUME ResponsesTyped, [CacheNext]_cacheVars PROVE ResponsesTyped'  OBVIOUS
  <1>0. /\ mode \in {"boot", "ignite", "detached", "memory"}
        /\ ignite \in [Scopes -> [Urls -> Versions \cup {Missing}]]
        /\ maps \in [Scopes -> [Urls -> MapEntry \cup {NoMapEntry}]]
        /\ origin \in [Urls -> Versions]
    BY DEF ResponsesTyped, CacheTypeOK
  <1>1. CASE ConnectIgnite  BY <1>0, <1>1, StoresKeep DEF ConnectIgnite
  <1>2. ASSUME NEW u \in Urls, ChangeOrigin(u) PROVE ResponsesTyped'
    <2>1. origin[u] + 1 \in Versions  BY <1>0, <1>2, CacheConstants DEF ChangeOrigin, Versions
    <2>2. origin' \in [Urls -> Versions]  BY <1>0, <1>2, <2>1 DEF ChangeOrigin
    <2> QED  BY <1>0, <1>2, <2>2, StoresKeep DEF ChangeOrigin
  <1>3. CASE DelOrClear
    <2>1. PICK s \in Scopes, us \in SUBSET Urls : Forget(s, us)  BY <1>3 DEF DelOrClear
    <2>2. ignite' \in [Scopes -> [Urls -> Versions \cup {Missing}]]
      BY <1>0, <2>1 DEF Forget
    <2>3. maps' \in [Scopes -> [Urls -> MapEntry \cup {NoMapEntry}]]
      BY <1>0, <2>1 DEF Forget
    <2> QED  BY <1>0, <2>1, <2>2, <2>3, StoresKeep DEF Forget
  <1>4. ASSUME NEW s \in Scopes, NEW u \in Urls
        PROVE  /\ maps[s][u].left = 0 \/ (maps[s][u] \in MapEntry /\ maps[s][u].left - 1 \in 0..Ttl)
               /\ maps[s][u] \in MapEntry \cup {NoMapEntry}
               /\ [maps[s][u] EXCEPT !.left = IF @ = 0 THEN 0 ELSE @ - 1]
                     \in MapEntry \cup {NoMapEntry}
    <2>1. CASE maps[s][u] \in MapEntry
      <3>1. PICK v \in Versions, n \in 0..Ttl : maps[s][u] = [value |-> v, left |-> n]
        BY <2>1 DEF MapEntry
      <3>2. (IF n = 0 THEN 0 ELSE n - 1) \in 0..Ttl /\ (n = 0 \/ n - 1 \in 0..Ttl)
        BY CacheConstants
      <3>3. [maps[s][u] EXCEPT !.left = IF @ = 0 THEN 0 ELSE @ - 1]
               = [value |-> v, left |-> IF n = 0 THEN 0 ELSE n - 1]
        BY <3>1
      <3> QED  BY <2>1, <3>1, <3>2, <3>3 DEF MapEntry
    <2>2. CASE maps[s][u] = NoMapEntry  BY <2>2 DEF NoMapEntry
    <2> QED  BY <1>0, <2>1, <2>2
  <1>5. CASE Tick
    <2>1. maps' \in [Scopes -> [Urls -> MapEntry \cup {NoMapEntry}]]
      BY <1>4, <1>5 DEF Tick
    <2> QED  BY <1>0, <1>5, <2>1, StoresKeep DEF Tick
  <1>6. CASE CleanupMem
    <2>1. maps' \in [Scopes -> [Urls -> MapEntry \cup {NoMapEntry}]]
      BY <1>0, <1>6 DEF CleanupMem
    <2> QED  BY <1>0, <1>6, <2>1, StoresKeep DEF CleanupMem
  <1>7. CASE RestartNest
    <2>1. restarts' \in 0..MaxRestarts
      BY <1>7, CacheConstants DEF RestartNest, ResponsesTyped, CacheTypeOK
    <2>2. reader' \in [Readers -> ReaderState] /\ \A r \in Readers : Storing(r)'
      BY <1>7, IdleReaderTyped DEF RestartNest, Storing
    <2>3. maps' \in [Scopes -> [Urls -> MapEntry \cup {NoMapEntry}]]
      BY <1>7 DEF RestartNest
    <2> QED  BY <1>0, <1>7, <2>1, <2>2, <2>3
            DEF RestartNest, ResponsesTyped, CacheTypeOK, ReaderState
  <1>8. CASE UNCHANGED cacheVars
    BY <1>8 DEF cacheVars, ResponsesTyped, CacheTypeOK, Storing
  <1> QED
    BY <1>1, <1>2, <1>3, <1>5, <1>6, <1>7, <1>8, ReaderKeeps DEF CacheNext

(* Whatever the mode and whatever fails, an entry of the cache is a version   *)
(* that was answered, and a request that stores has one in hand.             *)
THEOREM ResponseTypes == CacheSpec => [](CacheTypeOK /\ \A r \in Readers : Storing(r))
  <1>1. ResponsesTyped => CacheTypeOK /\ \A r \in Readers : Storing(r)
    BY DEF ResponsesTyped
  <1> QED  BY <1>1, CacheStart, CacheStep, PTL DEF CacheSpec

---------------------------------------------------------------------------
(***************************************************************************)
(* No confirmed order event is lost: ConfirmedDurable, for any number of     *)
(* events, partitions, sockets and faults.                                  *)
(*                                                                         *)
(* ConfirmedDurable is not inductive: a confirmation puts an event into       *)
(* `confirmed` and says nothing of the queue.  What makes it hold is that an  *)
(* event the wrapper waits to see confirmed is somewhere at the broker, and   *)
(* that whatever moves a message (delivery, expiry, nack, restart) moves it   *)
(* to another place of the broker.                                          *)
(***************************************************************************)
Steps == {"idle", "waiting", "sent", "kafka", "done", "lost"}

\* Where a message the broker has accepted can be.
Held == queue \cup unacked \cup worked \cup dlq

SentHeld == \A e \in Events : publish[e] = "sent" => e \in Held

DurableInv ==
    /\ publish \in [Events -> Steps]
    /\ SentHeld
    /\ ConfirmedDurable

---------------------------------------------------------------------------
(* A step that loses no message and newly waits for none keeps the invariant. *)
LEMMA HeldGrows ==
    ASSUME DurableInv, confirmed' = confirmed, Held \subseteq Held',
           publish' \in [Events -> Steps],
           \A e \in Events : publish'[e] = "sent" => publish[e] = "sent"
    PROVE  DurableInv'
  BY DEF DurableInv, SentHeld, ConfirmedDurable, Held

(* One request moves on to a step other than "sent". *)
LEMMA OneMoves ==
    ASSUME DurableInv, NEW e \in Events, NEW step \in Steps \ {"sent"}, PublishAt(e, step),
           UNCHANGED <<queue, unacked, worked, dlq, confirmed>>
    PROVE  DurableInv'
  BY HeldGrows DEF DurableInv, PublishAt, Held

(* At the start nothing is confirmed and nothing is sent. *)
LEMMA DurableAtStart == EventInit => DurableInv
  <1> SUFFICES ASSUME EventInit PROVE DurableInv
    OBVIOUS
  <1>1. PICK round \in Rounds :
           publish = [e \in Events |-> IF e \in round THEN "idle" ELSE "done"]
    BY DEF EventInit
  <1> QED
    BY <1>1 DEF EventInit, DurableInv, SentHeld, ConfirmedDurable, Steps

(* Every step of the producers, of RabbitMQ and of the consumers keeps it. *)
LEMMA DurableStep == DurableInv /\ [EventNext]_eventVars => DurableInv'
  <1> SUFFICES ASSUME DurableInv, [EventNext]_eventVars PROVE DurableInv'
    OBVIOUS
  <1> USE DEF rabbitVars
  <1>1. ASSUME NEW e \in Events, OrderCommitted(e) PROVE DurableInv'
    BY <1>1, OneMoves DEF OrderCommitted, Steps
  <1>2. ASSUME NEW e \in Events, ForeignMessage(e) PROVE DurableInv'
    BY <1>2, OneMoves DEF ForeignMessage, Steps
  <1>3. ASSUME NEW e \in Events, SendToBroker(e) PROVE DurableInv'
    BY <1>3 DEF SendToBroker, PublishAt, DurableInv, SentHeld, ConfirmedDurable, Held, Steps
  <1>4. ASSUME NEW e \in Events, Confirm(e) PROVE DurableInv'
    BY <1>4 DEF Confirm, PublishAt, AfterRabbit, DurableInv, SentHeld, ConfirmedDurable, Held,
                Steps
  <1>5. ASSUME NEW e \in Events, Refuse(e) PROVE DurableInv'
    BY <1>5, OneMoves DEF Refuse, AfterRabbit, Steps
  <1>6. ASSUME NEW e \in Events, Emit(e) PROVE DurableInv'
    BY <1>6, OneMoves DEF Emit, AfterKafka, Steps
  <1>7. ASSUME NEW e \in Events, EmitRejected(e) PROVE DurableInv'
    BY <1>7, OneMoves DEF EmitRejected, Steps
  <1>8. ASSUME NEW e \in Events, Expire(e) \/ Deliver(e) PROVE DurableInv'
    <2>1. Held \subseteq Held'
      BY <1>8 DEF Expire, Deliver, Held
    <2> QED
      BY <1>8, <2>1, HeldGrows DEF Expire, Deliver, DurableInv
  <1>9. ASSUME NEW e \in Events, Settle(e) PROVE DurableInv'
    <2>1. Held \subseteq Held'
      BY <1>9 DEF Settle, Held
    <2> QED
      BY <1>9, <2>1, HeldGrows DEF Settle, DurableInv
  <1>10. CASE Disconnect
    <2>1. Held \subseteq Held'
      BY <1>10 DEF Disconnect, Stored, Held
    <2>2. /\ publish' \in [Events -> Steps]
          /\ \A e \in Events : publish'[e] = "sent" => publish[e] = "sent"
      BY <1>10 DEF Disconnect, Resent, DurableInv, Steps
    <2> QED
      BY <1>10, <2>1, <2>2, HeldGrows DEF Disconnect
  <1>11. CASE Reconnect \/ ConsumeOrders
    BY <1>11, HeldGrows DEF Reconnect, ConsumeOrders, DurableInv, Held
  <1>12. CASE RestartServer
    <2>1. Held \subseteq Held'
      BY <1>12 DEF RestartServer, Held
    <2>2. /\ publish' \in [Events -> Steps]
          /\ \A e \in Events : publish'[e] = "sent" => publish[e] = "sent"
      BY <1>12 DEF RestartServer, DurableInv, Steps
    <2> QED
      BY <1>12, <2>1, <2>2, HeldGrows DEF RestartServer
  <1>13. ASSUME UNCHANGED <<publish, queue, unacked, worked, dlq, confirmed>> PROVE DurableInv'
    BY <1>13 DEF DurableInv, SentHeld, ConfirmedDurable, Held
  <1>14. CASE JoinGroup \/ ConsumerStaysOff \/ SetNotificationDeps \/ CommitOffsets \/ Rebalance
    BY <1>13, <1>14 DEF JoinGroup, ConsumerStaysOff, SetNotificationDeps, CommitOffsets, Rebalance
  <1>15. ASSUME NEW p \in Partitions, EachMessage(p) PROVE DurableInv'
    BY <1>13, <1>15 DEF EachMessage
  <1>16. ASSUME NEW s \in Sockets, Connect(s) \/ Leave(s) PROVE DurableInv'
    BY <1>13, <1>16 DEF Connect, Leave
  <1>17. CASE UNCHANGED eventVars
    BY <1>13, <1>17 DEF eventVars
  <1> QED
    BY <1>1, <1>2, <1>3, <1>4, <1>5, <1>6, <1>7, <1>8, <1>9, <1>10, <1>11, <1>12, <1>14, <1>15,
       <1>16, <1>17 DEF EventNext, PublishStep

---------------------------------------------------------------------------
(* No restart of the broker or of Nest, no broken connection, no expiry and   *)
(* no nack loses an order event whose publishOrder has resolved.             *)
THEOREM ConfirmedNeverLost == EventSpec => []ConfirmedDurable
  <1>1. DurableInv => ConfirmedDurable
    BY DEF DurableInv
  <1> QED
    BY <1>1, DurableAtStart, DurableStep, PTL DEF EventSpec

---------------------------------------------------------------------------
(***************************************************************************)
(* The notifications follow the log: NotificationsFollowLog.  A rebalance     *)
(* takes the consumer back to a committed offset, so what is listed again is   *)
(* below `highest`, or without one to the end of the log, past what `skipped`  *)
(* gets; NotesInv says where the offsets lie, and that before an occurrence of *)
(* a message the list has every one due below it.  SkippedInv says that the    *)
(* consumer and the group are beyond whatever was skipped.                   *)
(***************************************************************************)
Note == Partitions \X Nat

NotesTyped ==
    /\ log \in [Partitions -> Seq(Events)] /\ list \in Seq(Note)
    /\ committed \in [Partitions -> Int] /\ position \in [Partitions -> Nat]
    /\ first \in [Partitions -> Nat] /\ highest \in [Partitions -> Nat]

OffsetsPlaced(p) ==
    /\ committed[p] >= -1 /\ committed[p] <= Len(log[p]) /\ position[p] <= Len(log[p])
    /\ first[p] <= highest[p] /\ highest[p] <= Len(log[p])
    /\ consumer = "running" => committed[p] <= position[p]
    /\ ready => committed[p] <= highest[p]
    /\ ready /\ consumer = "running" => position[p] <= highest[p]
    /\ ~ready => first[p] = highest[p]

ListFollows ==
    /\ ~ready => list = <<>>
    /\ \A k \in 1..Len(list) : list[k][2] <= highest[list[k][1]]
    /\ \A p \in Partitions : \A i \in Due(p) : Listed(p, i)
    /\ \A k \in 1..Len(list) : \A i \in Due(list[k][1]) :
          i < list[k][2] => \E j \in 1..(k - 1) : list[j] = <<list[k][1], i>>

NotesInv ==
    NotesTyped /\ (\A p \in Partitions : OffsetsPlaced(p)) /\ ListFollows

\* What was skipped lies behind the consumer and the group, and is not listed.
SkippedBehind(p) ==
    /\ skipped[p] \subseteq (first[p] + 1)..highest[p]
    /\ \A i \in skipped[p] : /\ consumer = "running" => i <= position[p]
                             /\ committed[p] = -1 \/ i <= committed[p]

SkippedInv ==
    /\ \A p \in Partitions : SkippedBehind(p)
    /\ \A k \in 1..Len(list) : list[k][2] \notin skipped[list[k][1]]

\* The first occurrences in the list are in the order of the offsets.
LEMMA FirstsInOrder == NotesInv /\ SkippedInv => NotificationsFollowLog
  <1> SUFFICES ASSUME NotesInv, SkippedInv PROVE NotificationsFollowLog
    OBVIOUS
  <1>1. Len(list) \in Nat  BY DEF NotesInv, NotesTyped
  <1>2. ASSUME NEW p \in Partitions, NEW i \in Due(p)
        PROVE  /\ FirstAt(p, i) \in 1..Len(list) /\ list[FirstAt(p, i)] = <<p, i>>
               /\ \A k \in 1..Len(list) : list[k] = <<p, i>> => FirstAt(p, i) <= k
    <2> DEFINE at == {k \in 1..Len(list) : list[k] = <<p, i>>}
    <2>1. at # {} /\ at \subseteq Nat
      <3>1. Listed(p, i)  BY <1>2 DEF NotesInv, ListFollows
      <3>2. PICK k \in 1..Len(list) : list[k] = <<p, i>>  BY <3>1 DEF Listed
      <3>3. k \in at  BY <3>2
      <3> QED  BY <1>1, <3>3
    <2> HIDE DEF at
    <2>2. PICK n \in at : \A m \in at : n <= m  BY <2>1, LeastNumber
    <2>3. n \in 1..Len(list) /\ list[n] = <<p, i>>  BY <2>2 DEF at
    <2>4. \A m \in 1..(n - 1) : list[m] # <<p, i>>
      <3> SUFFICES ASSUME NEW m \in 1..(n - 1), list[m] = <<p, i>> PROVE FALSE
        OBVIOUS
      <3>1. m \in 1..Len(list) /\ m < n /\ n \in Nat  BY <1>1, <2>3
      <3>2. n <= m  BY <2>2, <3>1 DEF at
      <3> QED  BY <3>1, <3>2
    <2>5. PICK f : f = FirstAt(p, i)  OBVIOUS
    <2>6. f \in 1..Len(list) /\ list[f] = <<p, i>> /\ \A m \in 1..(f - 1) : list[m] # <<p, i>>
      BY <2>3, <2>4, <2>5 DEF FirstAt
    <2>7. ASSUME NEW k \in 1..Len(list), list[k] = <<p, i>> PROVE f <= k
      BY <1>1, <2>6, <2>7
    <2> QED  BY <2>5, <2>6, <2>7
  <1>3. ASSUME NEW p \in Partitions, NEW i \in Due(p), NEW j \in Due(p), i < j
        PROVE  FirstAt(p, i) < FirstAt(p, j)
    <2>1. PICK a : a = FirstAt(p, i)  OBVIOUS
    <2>2. PICK b : b = FirstAt(p, j)  OBVIOUS
    <2>3. /\ a \in 1..Len(list) /\ \A k \in 1..Len(list) : list[k] = <<p, i>> => a <= k
          /\ b \in 1..Len(list) /\ list[b] = <<p, j>>
      BY <1>2, <2>1, <2>2
    <2>4. list[b][1] = p /\ list[b][2] = j  BY <2>3
    <2>5. PICK k \in 1..(b - 1) : list[k] = <<p, i>>
      BY <1>3, <2>3, <2>4 DEF NotesInv, ListFollows
    <2>6. a <= k /\ k < b  BY <1>1, <2>3, <2>5
    <2>7. a \in Nat /\ b \in Nat /\ k \in Nat  BY <1>1, <2>3, <2>5
    <2> QED  BY <2>1, <2>2, <2>6, <2>7
  <1>4. ASSUME NEW p \in Partitions, NEW i \in skipped[p] PROVE ~Listed(p, i)
    <2> SUFFICES ASSUME NEW k \in 1..Len(list), list[k] = <<p, i>> PROVE FALSE
      BY DEF Listed
    <2> QED  BY <1>4 DEF SkippedInv
  <1> QED  BY <1>3, <1>4 DEF NotificationsFollowLog, NotesInv, ListFollows

\* A step that lists nothing and makes nothing newly due.
LEMMA ListStays ==
  ASSUME NotesInv, NotesTyped', list' = list, ~ready' => ~ready,
         \A p \in Partitions : Due(p)' \subseteq Due(p) /\ highest[p] <= highest'[p]
  PROVE  ListFollows'
  <1>1. \A k \in 1..Len(list) : list[k] \in Note  BY DEF NotesInv, NotesTyped
  <1>2. \A k \in 1..Len(list) :
           list[k][1] \in Partitions /\ list[k][2] \in Nat
    BY <1>1 DEF Note
  <1>3. ASSUME NEW k \in 1..Len(list) PROVE list[k][2] <= highest'[list[k][1]]
    <2>1. list[k][2] <= highest[list[k][1]]  BY DEF NotesInv, ListFollows
    <2>2. highest[list[k][1]] <= highest'[list[k][1]]  BY <1>2
    <2>3. highest[list[k][1]] \in Nat /\ highest'[list[k][1]] \in Nat
      BY <1>2 DEF NotesInv, NotesTyped
    <2> QED  BY <1>2, <2>1, <2>2, <2>3
  <1>4. ASSUME NEW p \in Partitions, NEW i \in Due(p)' PROVE Listed(p, i)'
    BY <1>4 DEF NotesInv, ListFollows, Listed
  <1>5. ASSUME NEW k \in 1..Len(list), NEW i \in Due(list[k][1])', i < list[k][2]
        PROVE  \E j \in 1..(k - 1) : list[j] = <<list[k][1], i>>
    <2>1. i \in Due(list[k][1])
      <3>1. PICK p \in Partitions : p = list[k][1]  BY <1>2
      <3>2. i \in Due(p)'  BY <1>5, <3>1 DEF Due
      <3> QED  BY <3>1, <3>2
    <2> QED  BY <1>5, <2>1 DEF NotesInv, ListFollows
  <1>6. ~ready' => list' = <<>>  BY DEF NotesInv, ListFollows
  <1>7. \A k \in 1..Len(list) : \A i \in Due(list[k][1])' :
           i < list[k][2] => \E j \in 1..(k - 1) : list[j] = <<list[k][1], i>>
    BY <1>5
  <1> QED  BY <1>3, <1>4, <1>6, <1>7 DEF ListFollows

\* The log only grows; nothing else of the consumer changes.
LEMMA LogGrows ==
  ASSUME NotesInv, log' \in [Partitions -> Seq(Events)],
         \A p \in Partitions : /\ Len(log[p]) <= Len(log'[p])
                               /\ \A i \in 1..Len(log[p]) : log'[p][i] = log[p][i],
         UNCHANGED <<committed, consumer, position, ready, list, first, highest, skipped>>
  PROVE  NotesInv'
  <1>1. NotesTyped'  BY DEF NotesInv, NotesTyped
  <1>2. ASSUME NEW p \in Partitions PROVE OffsetsPlaced(p)'
    <2>1. Len(log[p]) \in Nat /\ Len(log'[p]) \in Nat  BY <1>1 DEF NotesInv, NotesTyped
    <2> QED  BY <2>1 DEF NotesInv, NotesTyped, OffsetsPlaced
  <1>3. ASSUME NEW p \in Partitions PROVE Due(p)' \subseteq Due(p) /\ highest[p] <= highest'[p]
    <2>1. /\ Len(log[p]) \in Nat /\ highest[p] \in Nat /\ first[p] \in Nat
          /\ highest[p] <= Len(log[p])
      BY DEF NotesInv, NotesTyped, OffsetsPlaced
    <2>2. \A i \in (first[p] + 1)..highest[p] : log'[p][i] = log[p][i]  BY <2>1
    <2> QED  BY <2>1, <2>2 DEF Due
  <1>4. ListFollows'  BY <1>1, <1>3, ListStays
  <1> QED  BY <1>1, <1>2, <1>4 DEF NotesInv

\* A producer appends to one partition.
LEMMA AppendKeeps ==
  ASSUME NotesInv, NEW p \in Partitions, NEW more \in Seq(Events),
         log' = [log EXCEPT ![p] = @ \o more],
         UNCHANGED <<committed, consumer, position, ready, list, first, highest, skipped>>
  PROVE  NotesInv'
  <1>1. log \in [Partitions -> Seq(Events)]  BY DEF NotesInv, NotesTyped
  <1>2. PICK old \in Seq(Events) : old = log[p]  BY <1>1
  <1>3. PICK new : new = old \o more  OBVIOUS
  <1>4. /\ new \in Seq(Events) /\ Len(new) = Len(old) + Len(more)
        /\ Len(old) \in Nat /\ Len(more) \in Nat
        /\ \A i \in 1..Len(old) : new[i] = old[i]
    BY <1>3, ConcatProperties
  <1>5. log' = [log EXCEPT ![p] = new]  BY <1>2, <1>3
  <1>6. log' \in [Partitions -> Seq(Events)] /\ log'[p] = new  BY <1>1, <1>4, <1>5
  <1>7. ASSUME NEW q \in Partitions
        PROVE  Len(log[q]) <= Len(log'[q]) /\ \A i \in 1..Len(log[q]) : log'[q][i] = log[q][i]
    <2>1. CASE q = p  BY <1>2, <1>4, <1>6, <2>1
    <2>2. CASE q # p
      <3>1. log'[q] = log[q] /\ Len(log[q]) \in Nat  BY <1>1, <1>5, <2>2
      <3> QED  BY <3>1
    <2> QED  BY <2>1, <2>2
  <1> QED  BY <1>6, <1>7, LogGrows

\* The consumer and the group change, the list and what is due do not.
LEMMA ConsumerKeeps ==
  ASSUME NotesInv, UNCHANGED <<log, list, first, highest, skipped, ready>>,
         committed' \in [Partitions -> Int], position' \in [Partitions -> Nat],
         \A p \in Partitions : OffsetsPlaced(p)'
  PROVE  NotesInv'
  <1>1. NotesTyped'  BY DEF NotesInv, NotesTyped
  <1>2. \A p \in Partitions : Due(p)' \subseteq Due(p) /\ highest[p] <= highest'[p]
    BY DEF Due, NotesInv, NotesTyped
  <1>3. ListFollows'  BY <1>1, <1>2, ListStays
  <1> QED  BY <1>1, <1>3 DEF NotesInv

\* Nothing is due, and what is listed lies below `highest`.
LEMMA NothingDue ==
  ASSUME NotesInv, NotesTyped', list' = list \/ list' = <<>>,
         \A p \in Partitions : OffsetsPlaced(p)' /\ first'[p] = highest'[p],
         list' # <<>> => ready' /\ \A p \in Partitions : highest[p] <= highest'[p]
  PROVE  NotesInv'
  <1>1. \A p \in Partitions : Due(p)' = {}
    <2> SUFFICES ASSUME NEW p \in Partitions PROVE Due(p)' = {}  OBVIOUS
    <2>1. first'[p] = highest'[p] /\ highest'[p] \in Nat  BY DEF NotesTyped
    <2>2. (first'[p] + 1)..highest'[p] = {}  BY <2>1
    <2> QED  BY <2>2 DEF Due
  <1>2. CASE list' = <<>>
    <2>1. 1..Len(list') = {}  BY <1>2
    <2>2. ListFollows'  BY <1>1, <1>2, <2>1 DEF ListFollows
    <2> QED  BY <2>2 DEF NotesInv
  <1>3. CASE list' # <<>>
    <2>1. list' = list /\ ready'  BY <1>3
    <2>2. ready  BY <1>3, <2>1 DEF NotesInv, ListFollows
    <2>3. ListFollows'  BY <1>1, <1>3, <2>1, <2>2, ListStays
    <2> QED  BY <2>3 DEF NotesInv
  <1> QED  BY <1>2, <1>3

LEMMA JoinKeeps ==
  ASSUME NotesInv, JoinGroup
  PROVE  NotesInv'
  <1> DEFINE passes(p) == ready /\ committed[p] = -1
  <1>1. /\ consumer' = "running" /\ UNCHANGED <<log, committed, ready, list, first>>
        /\ position' = [p \in Partitions |-> IF committed[p] = -1 THEN Len(log[p]) ELSE committed[p]]
        /\ highest' = [p \in Partitions |-> IF passes(p) THEN Len(log[p]) ELSE highest[p]]
        /\ skipped' = [p \in Partitions |-> IF passes(p) THEN skipped[p] \cup (highest[p] + 1)..Len(log[p])
                                                        ELSE skipped[p]]
    BY DEF JoinGroup, JoinAt
  <1>2. ASSUME NEW p \in Partitions
        PROVE  /\ Len(log[p]) \in Nat /\ committed[p] \in Int /\ committed[p] >= -1
               /\ committed[p] <= Len(log[p]) /\ position[p] \in Nat
               /\ first[p] \in Nat /\ highest[p] \in Nat /\ OffsetsPlaced(p)
    BY DEF NotesInv, NotesTyped, OffsetsPlaced
  <1>3. NotesTyped'
    <2>1. ASSUME NEW p \in Partitions PROVE position'[p] \in Nat /\ highest'[p] \in Nat
      BY <1>1, <1>2
    <2>2. /\ position' = [p \in Partitions |-> position'[p]]
          /\ highest' = [p \in Partitions |-> highest'[p]]
      BY <1>1
    <2> QED  BY <1>1, <2>1, <2>2 DEF NotesInv, NotesTyped
  <1>4. ASSUME NEW p \in Partitions PROVE OffsetsPlaced(p)'
    <2>1. position'[p] = IF committed[p] = -1 THEN Len(log[p]) ELSE committed[p]
      BY <1>1
    <2>2. highest'[p] = IF ready /\ committed[p] = -1 THEN Len(log[p]) ELSE highest[p]
      BY <1>1
    <2>3. /\ first'[p] = first[p] /\ committed'[p] = committed[p] /\ log'[p] = log[p]
          /\ ready' = ready
      BY <1>1
    <2> QED  BY <1>1, <1>2, <2>1, <2>2, <2>3 DEF OffsetsPlaced
  <1>5. ASSUME NEW p \in Partitions PROVE Due(p)' \subseteq Due(p) /\ highest[p] <= highest'[p]
    <2>1. highest[p] <= Len(log[p])  BY <1>2 DEF OffsetsPlaced
    <2>2. CASE passes(p)
      <3>1. /\ highest'[p] = Len(log[p]) /\ first' = first /\ log' = log
            /\ skipped'[p] = skipped[p] \cup (highest[p] + 1)..Len(log[p])
        BY <1>1, <2>2
      <3>2. ((first[p] + 1)..Len(log[p])) \ (skipped[p] \cup (highest[p] + 1)..Len(log[p]))
               \subseteq ((first[p] + 1)..highest[p]) \ skipped[p]
        BY <1>2, <2>1
      <3> QED  BY <2>1, <3>1, <3>2 DEF Due
    <2>3. CASE ~passes(p)
      <3>1. highest'[p] = highest[p] /\ first' = first /\ log' = log /\ skipped'[p] = skipped[p]
        BY <1>1, <2>3
      <3> QED  BY <1>2, <3>1 DEF Due
    <2> QED  BY <2>2, <2>3
  <1>6. ListFollows'  BY <1>1, <1>3, <1>5, ListStays
  <1> QED  BY <1>3, <1>4, <1>6 DEF NotesInv

LEMMA DepsKeep ==
  ASSUME NotesInv, SetNotificationDeps
  PROVE  NotesInv'
  <1> DEFINE from(p) == IF consumer = "running" \/ committed[p] = -1 THEN position[p] ELSE committed[p]
  <1>1. /\ ~ready /\ ready' /\ UNCHANGED <<log, committed, consumer, position, list>>
        /\ highest' = first' /\ position = [p \in Partitions |-> position[p]]
    BY DEF SetNotificationDeps, NotesInv, NotesTyped
  <1>2. first' = [p \in Partitions |-> from(p)]  BY DEF SetNotificationDeps
  <1>3. ASSUME NEW p \in Partitions
        PROVE  /\ Len(log[p]) \in Nat /\ committed[p] \in Int /\ committed[p] >= -1
               /\ committed[p] <= Len(log[p]) /\ position[p] \in Nat /\ position[p] <= Len(log[p])
               /\ consumer = "running" => committed[p] <= position[p]
    BY DEF NotesInv, NotesTyped, OffsetsPlaced
  <1>4. ASSUME NEW p \in Partitions
        PROVE  /\ from(p) \in Nat /\ from(p) <= Len(log[p]) /\ committed[p] <= from(p)
               /\ consumer = "running" => position[p] <= from(p)
    BY <1>3
  <1> HIDE DEF from
  <1>5. first' \in [Partitions -> Nat]  BY <1>2, <1>4
  <1>6. NotesTyped'  BY <1>1, <1>5 DEF NotesInv, NotesTyped
  <1>7. ASSUME NEW p \in Partitions PROVE OffsetsPlaced(p)' /\ first'[p] = highest'[p]
    <2>1. first'[p] = from(p) /\ highest'[p] = from(p)  BY <1>1, <1>2
    <2> QED  BY <1>1, <1>3, <1>4, <2>1 DEF OffsetsPlaced
  <1>8. list' = <<>>  BY <1>1 DEF NotesInv, ListFollows
  <1> QED  BY <1>6, <1>7, <1>8, NothingDue

LEMMA RestartKeeps ==
  ASSUME NotesInv, RestartServer
  PROVE  NotesInv'
  <1>1. /\ consumer' = "starting" /\ ~ready' /\ list' = <<>> /\ UNCHANGED <<log, committed>>
        /\ position' = [p \in Partitions |-> 0] /\ first' = [p \in Partitions |-> 0]
        /\ highest' = [p \in Partitions |-> 0]
    BY DEF RestartServer, Zero
  <1>2. NotesTyped'  BY <1>1 DEF NotesInv, NotesTyped
  <1>3. ASSUME NEW p \in Partitions PROVE OffsetsPlaced(p)' /\ first'[p] = highest'[p]
    <2>1. /\ Len(log[p]) \in Nat /\ committed[p] \in Int /\ committed[p] >= -1
          /\ committed[p] <= Len(log[p])
      BY DEF NotesInv, NotesTyped, OffsetsPlaced
    <2> QED  BY <1>1, <2>1 DEF OffsetsPlaced
  <1> QED  BY <1>1, <1>2, <1>3, NothingDue

LEMMA GroupKeeps ==
  ASSUME NotesInv, ConsumerStaysOff \/ CommitOffsets \/ Rebalance
  PROVE  NotesInv'
  <1>1. UNCHANGED <<log, list, first, highest, skipped, ready, position>>
    BY DEF ConsumerStaysOff, CommitOffsets, Rebalance
  <1>2. consumer' = "running" => consumer = "running"
    BY DEF ConsumerStaysOff, CommitOffsets, Rebalance
  <1>3. committed' = committed \/ (consumer = "running" /\ committed' = position)
    BY DEF ConsumerStaysOff, CommitOffsets, Rebalance
  <1>4. committed' \in [Partitions -> Int]  BY <1>3 DEF NotesInv, NotesTyped
  <1>5. ASSUME NEW p \in Partitions PROVE OffsetsPlaced(p)'
    <2>1. /\ OffsetsPlaced(p) /\ committed[p] \in Int /\ position[p] \in Nat /\ Len(log[p]) \in Nat
          /\ first[p] \in Nat /\ highest[p] \in Nat
      BY DEF NotesInv, NotesTyped
    <2>2. CASE committed' = committed  BY <1>1, <1>2, <2>1, <2>2 DEF OffsetsPlaced
    <2>3. CASE consumer = "running" /\ committed' = position
      BY <1>1, <1>2, <2>1, <2>3 DEF OffsetsPlaced
    <2> QED  BY <1>3, <2>2, <2>3
  <1> QED  BY <1>1, <1>4, <1>5, ConsumerKeeps DEF NotesInv, NotesTyped

\* What is listed again, or for the first time, follows what is listed already: the
\* consumer hands messages over one offset after the other, from below `highest`.
LEMMA MessageKeeps ==
  ASSUME NotesInv, NEW p \in Partitions, EachMessage(p)
  PROVE  NotesInv'
  <1> DEFINE at == position[p] + 1
             top == IF ready /\ at > highest[p] THEN at ELSE highest[p]
             listed == ready /\ EventKind[log[p][at]] # "poison"
  <1>1. /\ consumer = "running" /\ at <= Len(log[p])
        /\ position' = [position EXCEPT ![p] = at] /\ highest' = [highest EXCEPT ![p] = top]
        /\ list' = IF listed THEN Append(list, <<p, at>>) ELSE list
        /\ UNCHANGED <<log, committed, consumer, ready, first, skipped>>
    BY DEF EachMessage, Handled, Pushed, NotesInv, NotesTyped
  <1>2. /\ position[p] \in Nat /\ highest[p] \in Nat /\ first[p] \in Nat /\ Len(log[p]) \in Nat
        /\ committed[p] \in Int /\ OffsetsPlaced(p) /\ Len(list) \in Nat /\ list \in Seq(Note)
    BY DEF NotesInv, NotesTyped
  <1>3. /\ at \in Nat /\ top \in Nat /\ highest[p] <= top /\ top <= Len(log[p])
        /\ ready => at <= top /\ position[p] <= highest[p] /\ (top = highest[p] \/ top = at)
        /\ ~ready => top = highest[p]
    BY <1>1, <1>2 DEF OffsetsPlaced
  <1>4. <<p, at>> \in Note  BY <1>3 DEF Note
  <1> HIDE DEF top
  <1>5. /\ position' \in [Partitions -> Nat] /\ highest' \in [Partitions -> Nat]
        /\ position'[p] = at /\ highest'[p] = top
        /\ \A q \in Partitions \ {p} : position'[q] = position[q] /\ highest'[q] = highest[q]
    BY <1>1, <1>3 DEF NotesInv, NotesTyped
  <1>6. list' \in Seq(Note)  BY <1>1, <1>2, <1>4, AppendProperties
  <1>7. NotesTyped'  BY <1>1, <1>5, <1>6 DEF NotesInv, NotesTyped
  <1>8. ASSUME NEW q \in Partitions PROVE OffsetsPlaced(q)'
    <2>1. CASE q = p
      <3>1. /\ position'[q] = at /\ highest'[q] = top /\ first'[q] = first[p]
            /\ committed'[q] = committed[p] /\ log'[q] = log[p]
        BY <1>1, <1>5, <2>1
      <3> QED  BY <1>1, <1>2, <1>3, <3>1 DEF OffsetsPlaced
    <2>2. CASE q # p
      <3>1. /\ position'[q] = position[q] /\ highest'[q] = highest[q] /\ first'[q] = first[q]
            /\ committed'[q] = committed[q] /\ log'[q] = log[q] /\ OffsetsPlaced(q)
        BY <1>1, <1>5, <2>2 DEF NotesInv
      <3> QED  BY <1>1, <3>1 DEF OffsetsPlaced
    <2> QED  BY <2>1, <2>2
  <1>9. ASSUME NEW q \in Partitions
        PROVE  /\ highest[q] \in Nat /\ highest'[q] \in Nat /\ first'[q] = first[q]
               /\ highest[q] <= highest'[q] /\ log'[q] = log[q] /\ skipped'[q] = skipped[q]
    BY <1>1, <1>2, <1>3, <1>5 DEF NotesInv, NotesTyped
  <1>10. ASSUME NEW q \in Partitions, NEW i \in Due(q)'
         PROVE  i \in Due(q) \/ (q = p /\ ready /\ i = at)
    <2>1. /\ i \in (first[q] + 1)..highest'[q] /\ i \notin skipped[q]
          /\ EventKind[log[q][i]] # "poison"
      BY <1>9, <1>10 DEF Due
    <2>2. first[q] \in Nat  BY DEF NotesInv, NotesTyped
    <2>3. CASE i <= highest[q]  BY <1>9, <2>1, <2>2, <2>3 DEF Due
    <2>4. CASE i > highest[q]
      <3>1. q = p /\ highest'[p] # highest[p]  BY <1>5, <1>9, <2>1, <2>2, <2>4
      <3>2. ready /\ top = at  BY <1>3, <1>5, <3>1
      <3>3. i \in Nat /\ i <= at /\ i > position[p]
        BY <1>2, <1>3, <1>5, <2>1, <2>2, <2>4, <3>1, <3>2
      <3> QED  BY <1>2, <3>1, <3>2, <3>3
    <2>5. i \in Int /\ highest[q] \in Nat  BY <1>9, <2>1, <2>2
    <2> QED  BY <2>3, <2>4, <2>5
  <1>11. CASE ~listed
    <2>1. list' = list  BY <1>1, <1>11
    <2>2. ASSUME NEW q \in Partitions, NEW i \in Due(q)' PROVE i \in Due(q)
      <3>1. EventKind[log[q][i]] # "poison"  BY <1>9, <2>2 DEF Due
      <3> QED  BY <1>10, <1>11, <2>2, <3>1
    <2>3. ListFollows'  BY <1>1, <1>7, <1>9, <2>1, <2>2, ListStays
    <2> QED  BY <1>7, <1>8, <2>3 DEF NotesInv
  <1>12. CASE listed
    <2> PICK old \in Seq(Note) : old = list  BY <1>2
    <2> PICK new : new = Append(old, <<p, at>>)  OBVIOUS
    <2>1. ready /\ list' = new  BY <1>1, <1>12
    <2>2. /\ new \in Seq(Note) /\ Len(new) = Len(old) + 1 /\ Len(old) \in Nat
          /\ \A k \in 1..Len(old) : new[k] = old[k]
          /\ new[Len(old) + 1] = <<p, at>>
      BY <1>4, AppendProperties
    <2>3. ASSUME NEW k \in 1..Len(new)
          PROVE  (k \in 1..Len(old) /\ new[k] = old[k]) \/ k = Len(old) + 1
      BY <2>2
    <2>4. ASSUME NEW k \in 1..Len(old)
          PROVE  /\ old[k][1] \in Partitions /\ old[k][2] \in Nat
                 /\ old[k][2] <= highest[old[k][1]]
      <3>1. old[k] \in Note  OBVIOUS
      <3> QED  BY <3>1 DEF Note, NotesInv, ListFollows
    <2>5. ASSUME NEW k \in 1..Len(new) PROVE new[k][2] <= highest'[new[k][1]]
      <3>1. CASE k \in 1..Len(old) /\ new[k] = old[k]
        <4>1. PICK q \in Partitions, n \in Nat : q = old[k][1] /\ n = old[k][2] /\ n <= highest[q]
          BY <2>4, <3>1
        <4>2. highest[q] <= highest'[q] /\ highest[q] \in Nat /\ highest'[q] \in Nat  BY <1>9
        <4>3. n <= highest'[q]  BY <4>1, <4>2
        <4> QED  BY <3>1, <4>1, <4>3
      <3>2. CASE k = Len(old) + 1  BY <1>3, <1>5, <2>1, <2>2, <3>2
      <3> QED  BY <2>3, <3>1, <3>2
    <2>6. ASSUME NEW q \in Partitions, NEW i \in Due(q)
          PROVE  \E k \in 1..Len(old) : old[k] = <<q, i>>
      BY <2>6 DEF NotesInv, ListFollows, Listed
    <2>7. ASSUME NEW q \in Partitions, NEW i \in Due(q)' PROVE Listed(q, i)'
      <3>1. CASE i \in Due(q)
        <4>1. PICK k \in 1..Len(old) : old[k] = <<q, i>>  BY <2>6, <3>1
        <4>2. k \in 1..Len(new) /\ new[k] = <<q, i>>  BY <2>2, <4>1
        <4> QED  BY <2>1, <4>2 DEF Listed
      <3>2. CASE q = p /\ i = at
        <4>1. Len(old) + 1 \in 1..Len(new)  BY <2>2
        <4> QED  BY <2>1, <2>2, <3>2, <4>1 DEF Listed
      <3> QED  BY <1>10, <2>7, <3>1, <3>2
    <2>8. ASSUME NEW k \in 1..Len(new), NEW q \in Partitions, NEW n \in Nat, new[k] = <<q, n>>,
                 NEW i \in Due(q)', i < n
          PROVE  \E j \in 1..(k - 1) : new[j] = <<q, i>>
      <3>1. CASE k \in 1..Len(old) /\ new[k] = old[k]
        <4>1. old[k][1] = q /\ old[k][2] = n /\ n <= highest[q]  BY <2>4, <2>8, <3>1
        <4>2. i \in Due(q)
          <5>1. first[q] \in Nat /\ highest[q] \in Nat  BY DEF NotesInv, NotesTyped
          <5>2. /\ i \in (first[q] + 1)..highest'[q] /\ i \notin skipped[q]
                /\ EventKind[log[q][i]] # "poison"
            BY <1>9, <2>8 DEF Due
          <5>3. i <= highest[q] /\ i \in Int  BY <1>9, <2>8, <4>1, <5>1, <5>2
          <5> QED  BY <1>9, <5>1, <5>2, <5>3 DEF Due
        <4>3. PICK j \in 1..(k - 1) : old[j] = <<q, i>>
          BY <2>8, <3>1, <4>1, <4>2 DEF NotesInv, ListFollows
        <4>4. j \in 1..Len(old)  BY <2>2, <3>1, <4>3
        <4> QED  BY <2>2, <4>3, <4>4
      <3>2. CASE k = Len(old) + 1
        <4>1. q = p /\ n = at  BY <2>2, <2>8, <3>2
        <4>2. i \in Due(p)  BY <1>3, <1>10, <2>8, <4>1
        <4>3. PICK j \in 1..Len(old) : old[j] = <<p, i>>  BY <2>6, <4>2
        <4>4. j \in 1..(k - 1)  BY <2>2, <3>2, <4>3
        <4> QED  BY <2>2, <4>1, <4>3, <4>4
      <3> QED  BY <2>3, <3>1, <3>2
    <2>9. ListFollows'
      <3>1. ASSUME NEW k \in 1..Len(new), NEW i \in Due(new[k][1])', i < new[k][2]
            PROVE  \E j \in 1..(k - 1) : new[j] = <<new[k][1], i>>
        <4>1. new[k] \in Note  BY <2>2
        <4>2. PICK q \in Partitions, n \in Nat : new[k] = <<q, n>>  BY <4>1 DEF Note
        <4>3. new[k][1] = q /\ new[k][2] = n  BY <4>2
        <4>4. i \in Due(q)'  BY <2>1, <3>1, <4>3 DEF Due
        <4>5. i < n  BY <3>1, <4>3
        <4>6. \E j \in 1..(k - 1) : new[j] = <<q, i>>  BY <2>8, <4>2, <4>4, <4>5
        <4> QED  BY <4>3, <4>6
      <3>2. ASSUME NEW k \in 1..Len(list'), NEW i \in Due(list[k][1])', i < list'[k][2]
            PROVE  \E j \in 1..(k - 1) : list'[j] = <<list'[k][1], i>>
        <4>1. k \in 1..Len(new) /\ i < new[k][2]  BY <2>1, <3>2
        <4>2. i \in Due(new[k][1])'  BY <2>1, <3>2 DEF Due
        <4> QED  BY <2>1, <3>1, <4>1, <4>2
      <3>3. \A k \in 1..Len(list') : list'[k][2] <= highest'[list'[k][1]]  BY <2>1, <2>5
      <3>4. ~ready' => list' = <<>>  BY <1>1, <2>1
      <3>5. \A q \in Partitions : \A i \in Due(q)' : Listed(q, i)'  BY <2>7
      <3> QED  BY <3>2, <3>3, <3>4, <3>5 DEF ListFollows
    <2> QED  BY <1>7, <1>8, <2>9 DEF NotesInv
  <1> QED  BY <1>11, <1>12

LEMMA NotesAtStart == EventInit => NotesInv
  <1> SUFFICES ASSUME EventInit PROVE NotesInv
    OBVIOUS
  <1>1. /\ log = [p \in Partitions |-> <<>>] /\ committed = [p \in Partitions |-> -1]
        /\ position = [p \in Partitions |-> 0] /\ first = [p \in Partitions |-> 0]
        /\ highest = [p \in Partitions |-> 0] /\ list = <<>> /\ ~ready /\ consumer = "starting"
    BY DEF EventInit, Zero, NoOffsets
  <1>2. NotesTyped  BY <1>1 DEF NotesTyped
  <1>3. \A p \in Partitions : OffsetsPlaced(p)  BY <1>1 DEF OffsetsPlaced
  <1>4. \A p \in Partitions : Due(p) = {}  BY <1>1 DEF Due
  <1>5. ListFollows  BY <1>1, <1>4 DEF ListFollows
  <1> QED  BY <1>2, <1>3, <1>5 DEF NotesInv

\* The producers touch the log only, the rest of the service nothing of the consumer's.
LEMMA ProducersKeep ==
  ASSUME NotesInv, NEW e \in Events, Emit(e) \/ ForeignMessage(e)
  PROVE  NotesInv'
  <1>1. UNCHANGED <<committed, consumer, position, ready, list, first, highest, skipped>>
    BY DEF Emit, ForeignMessage
  <1>2. Partition[e] \in Partitions  BY EventConstants
  <1>3. CASE Emit(e)
    <2>1. PICK copies \in {<<e>>, <<e, e>>} : log' = [log EXCEPT ![Partition[e]] = @ \o copies]
      BY <1>3 DEF Emit
    <2>2. <<e>> \in Seq(Events) /\ <<e, e>> \in Seq(Events)  OBVIOUS
    <2>3. copies \in Seq(Events)  BY <2>2
    <2> QED  BY <1>1, <1>2, <2>1, <2>3, AppendKeeps
  <1>4. CASE ForeignMessage(e)
    <2>1. log' = [log EXCEPT ![Partition[e]] = Append(@, e)]  BY <1>4 DEF ForeignMessage
    <2>2. log[Partition[e]] \in Seq(Events)  BY <1>2 DEF NotesInv, NotesTyped
    <2>3. Append(log[Partition[e]], e) = log[Partition[e]] \o <<e>>
      BY <2>2, AppendIsConcat
    <2>4. log' = [log EXCEPT ![Partition[e]] = @ \o <<e>>]  BY <2>1, <2>3
    <2>5. <<e>> \in Seq(Events)  OBVIOUS
    <2> QED  BY <1>1, <1>2, <2>4, <2>5, AppendKeeps
  <1> QED  BY <1>3, <1>4

LEMMA OthersKeep ==
  ASSUME NotesInv, UNCHANGED kafkaVars
  PROVE  NotesInv'
  BY LogGrows DEF kafkaVars, NotesInv, NotesTyped

LEMMA NotesStep == NotesInv /\ [EventNext]_eventVars => NotesInv'
  <1> SUFFICES ASSUME NotesInv, [EventNext]_eventVars PROVE NotesInv'
    OBVIOUS
  <1>1. CASE UNCHANGED eventVars  BY <1>1, OthersKeep DEF eventVars
  <1>2. ASSUME NEW e \in Events,
               OrderCommitted(e) \/ SendToBroker(e) \/ Confirm(e) \/ Refuse(e)
                  \/ EmitRejected(e) \/ Expire(e) \/ Deliver(e) \/ Settle(e)
        PROVE  NotesInv'
    <2>1. UNCHANGED kafkaVars
      BY <1>2 DEF OrderCommitted, SendToBroker, Confirm, Refuse, EmitRejected, Expire,
                  Deliver, Settle
    <2> QED  BY <2>1, OthersKeep
  <1>3. ASSUME NEW e \in Events, Emit(e) \/ ForeignMessage(e) PROVE NotesInv'
    BY <1>3, ProducersKeep
  <1>4. CASE Disconnect \/ Reconnect \/ ConsumeOrders
    <2>1. UNCHANGED kafkaVars  BY <1>4 DEF Disconnect, Reconnect, ConsumeOrders
    <2> QED  BY <2>1, OthersKeep
  <1>5. ASSUME NEW s \in Sockets, Connect(s) \/ Leave(s) PROVE NotesInv'
    <2>1. UNCHANGED kafkaVars  BY <1>5 DEF Connect, Leave
    <2> QED  BY <2>1, OthersKeep
  <1>6. ASSUME NEW p \in Partitions, EachMessage(p) PROVE NotesInv'
    BY <1>6, MessageKeeps
  <1>7. CASE JoinGroup \/ SetNotificationDeps \/ RestartServer
    BY <1>7, JoinKeeps, DepsKeep, RestartKeeps
  <1>8. CASE ConsumerStaysOff \/ CommitOffsets \/ Rebalance  BY <1>8, GroupKeeps
  <1> QED
    BY <1>1, <1>2, <1>3, <1>4, <1>5, <1>6, <1>7, <1>8 DEF EventNext, PublishStep

\* The consumer stays or goes on; the log may grow.
LEMMA BehindStays ==
  ASSUME SkippedInv, UNCHANGED <<list, first, highest, skipped>>,
         \A p \in Partitions : SkippedBehind(p)'
  PROVE  SkippedInv'
  BY DEF SkippedInv

\* Nothing has been skipped yet.
LEMMA NoneIsBehind ==
  ASSUME NotesInv', skipped' = NoneSkipped
  PROVE  SkippedInv'
  <1>1. \A p \in Partitions : skipped'[p] = {}  BY DEF NoneSkipped
  <1>2. \A p \in Partitions : SkippedBehind(p)'  BY <1>1 DEF SkippedBehind
  <1>3. ASSUME NEW k \in 1..Len(list') PROVE list'[k][2] \notin skipped'[list'[k][1]]
    <2>1. list'[k] \in Note  BY <1>3 DEF NotesInv, NotesTyped
    <2>2. list'[k][1] \in Partitions  BY <2>1 DEF Note
    <2> QED  BY <1>1, <2>2
  <1> QED  BY <1>2, <1>3 DEF SkippedInv

\* Joining again with nothing committed skips what lies beyond `highest`, so nothing listed.
LEMMA JoinSkips ==
  ASSUME NotesInv, SkippedInv, JoinGroup
  PROVE  SkippedInv'
  <1>1. /\ consumer' = "running" /\ UNCHANGED <<log, committed, ready, list, first>>
        /\ position' = [p \in Partitions |-> IF committed[p] = -1 THEN Len(log[p]) ELSE committed[p]]
        /\ highest' = [p \in Partitions |-> IF ready /\ committed[p] = -1 THEN Len(log[p])
                                                                      ELSE highest[p]]
        /\ skipped' = [p \in Partitions |-> IF ready /\ committed[p] = -1
                                             THEN skipped[p] \cup (highest[p] + 1)..Len(log[p])
                                             ELSE skipped[p]]
    BY DEF JoinGroup, JoinAt
  <1>2. ASSUME NEW p \in Partitions
        PROVE  /\ Len(log[p]) \in Nat /\ committed[p] \in Int /\ first[p] \in Nat
               /\ highest[p] \in Nat /\ first[p] <= highest[p] /\ highest[p] <= Len(log[p])
               /\ skipped[p] \subseteq (first[p] + 1)..highest[p]
               /\ \A i \in skipped[p] : committed[p] = -1 \/ i <= committed[p]
    BY DEF NotesInv, NotesTyped, OffsetsPlaced, SkippedInv, SkippedBehind
  <1>3. ASSUME NEW p \in Partitions PROVE SkippedBehind(p)'
    <2>1. CASE ready /\ committed[p] = -1
      <3>1. /\ position'[p] = Len(log[p]) /\ highest'[p] = Len(log[p]) /\ first'[p] = first[p]
            /\ committed'[p] = -1 /\ skipped'[p] = skipped[p] \cup (highest[p] + 1)..Len(log[p])
        BY <1>1, <2>1
      <3>2. skipped'[p] \subseteq (first[p] + 1)..Len(log[p])  BY <1>2, <3>1
      <3>3. \A i \in skipped'[p] : i <= Len(log[p])  BY <1>2, <3>2
      <3> QED  BY <3>1, <3>2, <3>3 DEF SkippedBehind
    <2>2. CASE ~(ready /\ committed[p] = -1)
      <3>1. /\ highest'[p] = highest[p] /\ first'[p] = first[p] /\ skipped'[p] = skipped[p]
            /\ committed'[p] = committed[p]
            /\ position'[p] = IF committed[p] = -1 THEN Len(log[p]) ELSE committed[p]
        BY <1>1, <2>2
      <3>2. \A i \in skipped[p] : i <= position'[p]  BY <1>2, <3>1
      <3> QED  BY <1>2, <3>1, <3>2 DEF SkippedBehind
    <2> QED  BY <2>1, <2>2
  <1>4. ASSUME NEW k \in 1..Len(list) PROVE list[k][2] \notin skipped'[list[k][1]]
    <2>1. list[k] \in Note  BY DEF NotesInv, NotesTyped
    <2>2. PICK q \in Partitions, n \in Nat : list[k] = <<q, n>>  BY <2>1 DEF Note
    <2>3. list[k][1] = q /\ list[k][2] = n  BY <2>2
    <2>4. n <= highest[q] /\ n \notin skipped[q]  BY <2>3 DEF NotesInv, ListFollows, SkippedInv
    <2>5. n \notin (highest[q] + 1)..Len(log[q])  BY <1>2, <2>4
    <2>6. n \notin skipped'[q]  BY <1>1, <2>4, <2>5
    <2> QED  BY <2>3, <2>6
  <1> QED  BY <1>1, <1>3, <1>4 DEF SkippedInv

\* What is handed over comes after `position`, and so after what was skipped.
LEMMA MessageSkipsNone ==
  ASSUME NotesInv, SkippedInv, NEW p \in Partitions, EachMessage(p)
  PROVE  SkippedInv'
  <1> DEFINE at == position[p] + 1
  <1>1. /\ consumer = "running" /\ position' = [position EXCEPT ![p] = at]
        /\ highest' = [highest EXCEPT ![p] = IF ready /\ at > highest[p] THEN at ELSE highest[p]]
        /\ list' = list \/ list' = Append(list, <<p, at>>)
        /\ UNCHANGED <<log, committed, consumer, ready, first, skipped>>
    BY DEF EachMessage, Handled, Pushed, NotesInv, NotesTyped
  <1>2. ASSUME NEW q \in Partitions
        PROVE  /\ position[q] \in Nat /\ position'[q] \in Nat /\ position[q] <= position'[q]
               /\ highest[q] \in Nat /\ highest'[q] \in Nat /\ highest[q] <= highest'[q]
               /\ first[q] \in Nat /\ SkippedBehind(q)
    BY <1>1 DEF NotesInv, NotesTyped, SkippedInv
  <1>3. ASSUME NEW q \in Partitions PROVE SkippedBehind(q)'
    <2>1. skipped[q] \subseteq (first[q] + 1)..highest'[q]  BY <1>2 DEF SkippedBehind
    <2>2. \A i \in skipped[q] : i <= position'[q]  BY <1>1, <1>2 DEF SkippedBehind
    <2> QED  BY <1>1, <1>2, <2>1, <2>2 DEF SkippedBehind
  <1>4. at \notin skipped[p]  BY <1>1, <1>2 DEF SkippedBehind
  <1>5. CASE list' = list  BY <1>1, <1>3, <1>5 DEF SkippedInv
  <1>6. CASE list' = Append(list, <<p, at>>)
    <2>1. <<p, at>> \in Note /\ list \in Seq(Note)  BY <1>2 DEF Note, NotesInv, NotesTyped
    <2>2. ASSUME NEW k \in 1..Len(list') PROVE list'[k][2] \notin skipped[list'[k][1]]
      <3>1. (k \in 1..Len(list) /\ list'[k] = list[k]) \/ list'[k] = <<p, at>>
        BY <1>6, <2>1, <2>2, AppendProperties
      <3> QED  BY <1>4, <3>1 DEF SkippedInv
    <2> QED  BY <1>1, <1>3, <2>2 DEF SkippedInv
  <1> QED  BY <1>1, <1>5, <1>6

LEMMA SkippedStep == NotesInv /\ NotesInv' /\ SkippedInv /\ [EventNext]_eventVars => SkippedInv'
  <1> SUFFICES ASSUME NotesInv, NotesInv', SkippedInv, [EventNext]_eventVars PROVE SkippedInv'
    OBVIOUS
  <1>1. ASSUME UNCHANGED <<committed, consumer, position, list, first, highest, skipped>>
        PROVE  SkippedInv'
    BY <1>1 DEF SkippedInv, SkippedBehind
  <1>2. ASSUME NEW e \in Events,
               OrderCommitted(e) \/ ForeignMessage(e) \/ PublishStep(e)
                  \/ Expire(e) \/ Deliver(e) \/ Settle(e)
        PROVE  SkippedInv'
    BY <1>1, <1>2 DEF OrderCommitted, ForeignMessage, PublishStep, SendToBroker, Confirm, Refuse,
                      Emit, EmitRejected, Expire, Deliver, Settle, kafkaVars
  <1>3. CASE Disconnect \/ Reconnect \/ ConsumeOrders
    BY <1>1, <1>3 DEF Disconnect, Reconnect, ConsumeOrders, kafkaVars
  <1>4. CASE JoinGroup  BY <1>4, JoinSkips
  <1>5. CASE SetNotificationDeps \/ RestartServer
    BY <1>5, NoneIsBehind DEF SetNotificationDeps, RestartServer
  <1>6. CASE ConsumerStaysOff \/ Rebalance
    BY <1>6 DEF ConsumerStaysOff, Rebalance, SkippedInv, SkippedBehind
  <1>7. CASE CommitOffsets
    BY <1>7 DEF CommitOffsets, SkippedInv, SkippedBehind
  <1>8. ASSUME NEW p \in Partitions, EachMessage(p) PROVE SkippedInv'
    BY <1>8, MessageSkipsNone
  <1>9. ASSUME NEW s \in Sockets, Connect(s) \/ Leave(s) PROVE SkippedInv'
    BY <1>1, <1>9 DEF Connect, Leave, kafkaVars
  <1>10. CASE UNCHANGED eventVars  BY <1>1, <1>10 DEF eventVars, kafkaVars
  <1> QED
    BY <1>2, <1>3, <1>4, <1>5, <1>6, <1>7, <1>8, <1>9, <1>10 DEF EventNext

LEMMA SkippedAtStart == EventInit => SkippedInv
  <1> SUFFICES ASSUME EventInit PROVE SkippedInv  OBVIOUS
  <1>1. list = <<>> /\ \A p \in Partitions : skipped[p] = {}  BY DEF EventInit, NoneSkipped
  <1> QED  BY <1>1 DEF SkippedInv, SkippedBehind

(* Once ready, the list of notifications has every readable message the        *)
(* consumer gets to, those of a partition in the order of the log, whatever    *)
(* rebalances and restarts happen; the messages it does not get to are those    *)
(* in the log, unhandled, when it joins again with nothing committed, and no    *)
(* later rebalance brings one of them back.                                  *)
THEOREM NotificationsInLogOrder == EventSpec => []NotificationsFollowLog
  <1> QED
    BY NotesAtStart, NotesStep, SkippedAtStart, SkippedStep, FirstsInOrder, PTL DEF EventSpec

---------------------------------------------------------------------------
(***************************************************************************)
(* Types of OrderEvents.  The offsets of the list are those of messages the    *)
(* consumer has handled, so they lie within the log, and the log within its    *)
(* bound.                                                                  *)
(***************************************************************************)
ListedOffsets == Partitions \X (1..MaxLog)
BrokersTyped ==
    /\ linked \in BOOLEAN /\ consuming \in BOOLEAN
    /\ queue \subseteq Events /\ dlq \subseteq Events /\ unacked \subseteq Events
    /\ worked \subseteq Events /\ confirmed \subseteq Events
GatewayTyped == joined \subseteq Sockets /\ heard \in [Sockets -> SUBSET Events]
TopicTyped ==
    /\ ready \in BOOLEAN /\ consumer \in {"starting", "running", "rejoining", "off"}
    /\ \A p \in Partitions : Len(log[p]) <= MaxLog
    /\ list \in Seq(ListedOffsets)

EventParts == BrokersTyped /\ GatewayTyped /\ TopicTyped /\ faults \in 0..MaxFaults

LEMMA PartsAtStart == EventInit => EventParts
  <1> SUFFICES ASSUME EventInit PROVE EventParts  OBVIOUS
  <1>1. \A p \in Partitions : Len(log[p]) <= MaxLog  BY EventConstants DEF EventInit
  <1>2. list \in Seq(ListedOffsets)  BY DEF EventInit
  <1>3. faults \in 0..MaxFaults  BY EventConstants DEF EventInit
  <1> QED
    BY <1>1, <1>2, <1>3 DEF EventInit, EventParts, BrokersTyped, GatewayTyped, TopicTyped

\* RabbitMQ: messages move from one place to another.
LEMMA BrokersStep == BrokersTyped /\ [EventNext]_eventVars => BrokersTyped'
  <1> SUFFICES ASSUME BrokersTyped, [EventNext]_eventVars PROVE BrokersTyped'  OBVIOUS
  <1> USE DEF BrokersTyped, rabbitVars
  <1>1. ASSUME UNCHANGED rabbitVars PROVE BrokersTyped'  BY <1>1
  <1>2. ASSUME NEW e \in Events,
               OrderCommitted(e) \/ ForeignMessage(e) \/ Refuse(e) \/ Emit(e) \/ EmitRejected(e)
        PROVE  BrokersTyped'
    BY <1>1, <1>2 DEF OrderCommitted, ForeignMessage, Refuse, Emit, EmitRejected
  <1>3. ASSUME NEW e \in Events,
               SendToBroker(e) \/ Confirm(e) \/ Expire(e) \/ Deliver(e) \/ Settle(e)
        PROVE  BrokersTyped'
    <2>1. CASE SendToBroker(e)  BY <2>1 DEF SendToBroker
    <2>2. CASE Confirm(e)  BY <2>2 DEF Confirm
    <2>3. CASE Expire(e)  BY <2>3 DEF Expire
    <2>4. CASE Deliver(e)  BY <2>4 DEF Deliver
    <2>5. CASE Settle(e)  BY <2>5 DEF Settle
    <2> QED  BY <1>3, <2>1, <2>2, <2>3, <2>4, <2>5
  <1>4. CASE Disconnect  BY <1>4 DEF Disconnect, Stored
  <1>5. CASE Reconnect \/ ConsumeOrders  BY <1>5 DEF Reconnect, ConsumeOrders
  <1>6. CASE RestartServer  BY <1>6 DEF RestartServer
  <1>7. CASE JoinGroup \/ ConsumerStaysOff \/ SetNotificationDeps \/ CommitOffsets \/ Rebalance
    BY <1>1, <1>7 DEF JoinGroup, ConsumerStaysOff, SetNotificationDeps, CommitOffsets, Rebalance
  <1>8. ASSUME NEW p \in Partitions, EachMessage(p) PROVE BrokersTyped'
    BY <1>1, <1>8 DEF EachMessage
  <1>9. ASSUME NEW s \in Sockets, Connect(s) \/ Leave(s) PROVE BrokersTyped'
    BY <1>1, <1>9 DEF Connect, Leave
  <1>10. CASE UNCHANGED eventVars  BY <1>1, <1>10 DEF eventVars
  <1> QED
    BY <1>2, <1>3, <1>4, <1>5, <1>6, <1>7, <1>8, <1>9, <1>10 DEF EventNext, PublishStep

\* The topic, the list and the gateway: what is handled is a message of the log.
LEMMA HandlingTyped ==
  ASSUME NotesInv, EventParts, NEW p \in Partitions, EachMessage(p)
  PROVE  TopicTyped' /\ GatewayTyped'
  <1> DEFINE at == position[p] + 1
  <1>1. /\ log[p] \in Seq(Events) /\ position[p] \in Nat /\ at <= Len(log[p])
        /\ Len(log[p]) <= MaxLog /\ list \in Seq(ListedOffsets)
    BY DEF NotesInv, NotesTyped, EventParts, TopicTyped, EachMessage
  <1>2. at \in 1..MaxLog /\ log[p][at] \in Events  BY <1>1, EventConstants
  <1>3. list' = Append(list, <<p, at>>) \/ list' = list  BY DEF EachMessage, Pushed
  <1>4. <<p, at>> \in ListedOffsets  BY <1>2 DEF ListedOffsets
  <1> PICK note \in ListedOffsets : note = <<p, at>>  BY <1>4
  <1>5. list' \in Seq(ListedOffsets)
    <2>1. Append(list, note) \in Seq(ListedOffsets)  BY <1>1, AppendProperties
    <2> QED  BY <1>1, <1>3, <2>1
  <1>6. heard' \in [Sockets -> SUBSET Events] /\ joined' = joined
    BY <1>2 DEF EachMessage, EventParts, GatewayTyped
  <1>7. UNCHANGED <<log, ready, consumer>>  BY DEF EachMessage
  <1> QED  BY <1>5, <1>6, <1>7 DEF EventParts, TopicTyped, GatewayTyped

LEMMA LogBounded ==
  ASSUME NotesInv, EventParts, NEW e \in Events, Emit(e) \/ ForeignMessage(e)
  PROVE  TopicTyped' /\ GatewayTyped'
  <1> DEFINE p == Partition[e]
  <1>1. p \in Partitions /\ log \in [Partitions -> Seq(Events)]
    BY EventConstants DEF NotesInv, NotesTyped
  <1>2. UNCHANGED <<ready, consumer, list, joined, heard>>
    BY DEF Emit, ForeignMessage, socketVars
  <1>3. \A q \in Partitions : Len(log'[q]) <= MaxLog
    <2>1. CASE Emit(e)
      <3>1. PICK copies \in {<<e>>, <<e, e>>} :
               Len(log[p] \o copies) <= MaxLog /\ log' = [log EXCEPT ![p] = @ \o copies]
        BY <2>1 DEF Emit
      <3>2. log'[p] = log[p] \o copies /\ \A q \in Partitions \ {p} : log'[q] = log[q]
        BY <1>1, <3>1
      <3> QED  BY <3>1, <3>2 DEF EventParts, TopicTyped
    <2>2. CASE ForeignMessage(e)
      <3>1. Len(log[p]) < MaxLog /\ log' = [log EXCEPT ![p] = Append(@, e)]
        BY <2>2 DEF ForeignMessage
      <3>2. log'[p] = Append(log[p], e) /\ \A q \in Partitions \ {p} : log'[q] = log[q]
        BY <1>1, <3>1
      <3>3. Len(Append(log[p], e)) = Len(log[p]) + 1 /\ Len(log[p]) \in Nat
        BY <1>1, AppendProperties
      <3>4. Len(log'[p]) <= MaxLog  BY <3>1, <3>2, <3>3, EventConstants
      <3> QED  BY <3>2, <3>4 DEF EventParts, TopicTyped
    <2> QED  BY <2>1, <2>2
  <1> QED  BY <1>2, <1>3 DEF EventParts, TopicTyped, GatewayTyped

LEMMA TopicStep == NotesInv /\ EventParts /\ [EventNext]_eventVars => TopicTyped' /\ GatewayTyped'
  <1> SUFFICES ASSUME NotesInv, EventParts, [EventNext]_eventVars
               PROVE  TopicTyped' /\ GatewayTyped'
    OBVIOUS
  <1> USE DEF EventParts, kafkaVars, socketVars
  <1>1. ASSUME UNCHANGED <<log, list>>, ready' \in BOOLEAN,
               consumer' \in {"starting", "running", "rejoining", "off"},
               UNCHANGED <<joined, heard>>
        PROVE  TopicTyped' /\ GatewayTyped'
    BY <1>1 DEF TopicTyped, GatewayTyped
  <1>2. ready \in BOOLEAN /\ consumer \in {"starting", "running", "rejoining", "off"}
    BY DEF TopicTyped
  <1>3. ASSUME NEW e \in Events,
               OrderCommitted(e) \/ SendToBroker(e) \/ Confirm(e) \/ Refuse(e)
                  \/ EmitRejected(e) \/ Expire(e) \/ Deliver(e) \/ Settle(e)
        PROVE  TopicTyped' /\ GatewayTyped'
    BY <1>1, <1>2, <1>3 DEF OrderCommitted, SendToBroker, Confirm, Refuse, EmitRejected, Expire,
                            Deliver, Settle
  <1>4. CASE Disconnect \/ Reconnect \/ ConsumeOrders
    BY <1>1, <1>2, <1>4 DEF Disconnect, Reconnect, ConsumeOrders
  <1>5. CASE JoinGroup \/ ConsumerStaysOff \/ SetNotificationDeps \/ CommitOffsets \/ Rebalance
    BY <1>1, <1>2, <1>5 DEF JoinGroup, ConsumerStaysOff, SetNotificationDeps, CommitOffsets,
                            Rebalance
  <1>6. ASSUME NEW s \in Sockets, Connect(s) \/ Leave(s) PROVE TopicTyped' /\ GatewayTyped'
    <2>1. joined' \subseteq Sockets /\ heard' \in [Sockets -> SUBSET Events]
      BY <1>6 DEF Connect, Leave, GatewayTyped
    <2>2. UNCHANGED <<log, list, ready, consumer>>  BY <1>6 DEF Connect, Leave
    <2> QED  BY <2>1, <2>2 DEF TopicTyped, GatewayTyped
  <1>7. CASE RestartServer
    <2>1. <<>> \in Seq(ListedOffsets)  OBVIOUS
    <2> QED  BY <1>7, <2>1 DEF RestartServer, TopicTyped, GatewayTyped
  <1>8. CASE UNCHANGED eventVars  BY <1>1, <1>2, <1>8 DEF eventVars
  <1> QED
    BY <1>3, <1>4, <1>5, <1>6, <1>7, <1>8, HandlingTyped, LogBounded DEF EventNext, PublishStep

LEMMA FaultsStep == faults \in 0..MaxFaults /\ [EventNext]_eventVars => faults' \in 0..MaxFaults
  <1> SUFFICES ASSUME faults \in 0..MaxFaults, [EventNext]_eventVars
               PROVE  faults' \in 0..MaxFaults
    OBVIOUS
  <1>1. NewFault \/ faults' = faults
    BY DEF EventNext, PublishStep, eventVars, OrderCommitted, ForeignMessage, SendToBroker,
           Confirm, Refuse, Emit, EmitRejected, Expire, Deliver, Settle, Disconnect, Reconnect,
           ConsumeOrders, JoinGroup, ConsumerStaysOff, SetNotificationDeps, CommitOffsets,
           Rebalance, EachMessage, Connect, Leave, RestartServer
  <1> QED  BY <1>1, EventConstants DEF NewFault

LEMMA PartsStep == NotesInv /\ EventParts /\ [EventNext]_eventVars => EventParts'
  BY BrokersStep, TopicStep, FaultsStep DEF EventParts

LEMMA EventsTyped == NotesInv /\ SkippedInv /\ DurableInv /\ EventParts => EventTypeOK
  <1> SUFFICES ASSUME NotesInv, SkippedInv, DurableInv, EventParts PROVE EventTypeOK  OBVIOUS
  <1>1. ASSUME NEW p \in Partitions
        PROVE  /\ log[p] \in Seq(Events)
               /\ committed[p] \in -1..Len(log[p]) /\ position[p] \in 0..Len(log[p])
               /\ first[p] \in 0..highest[p] /\ highest[p] <= Len(log[p])
               /\ skipped[p] \subseteq (first[p] + 1)..highest[p]
    <2>1. /\ log[p] \in Seq(Events) /\ committed[p] \in Int /\ position[p] \in Nat
          /\ first[p] \in Nat /\ highest[p] \in Nat /\ OffsetsPlaced(p)
      BY DEF NotesInv, NotesTyped
    <2>2. Len(log[p]) \in Nat  BY <2>1
    <2> QED  BY <2>1, <2>2 DEF OffsetsPlaced, SkippedInv, SkippedBehind
  <1>2. publish \in [Events -> {"idle", "waiting", "sent", "kafka", "done", "lost"}]
    BY DEF DurableInv, Steps
  <1>3. list \in Seq(Partitions \X (1..MaxLog))
    BY DEF EventParts, TopicTyped, ListedOffsets
  <1> QED
    BY <1>1, <1>2, <1>3
       DEF EventParts, BrokersTyped, GatewayTyped, TopicTyped, EventTypeOK

(* For any events, partitions, sockets and faults: the group never commits or   *)
(* reads beyond the end of a log, and what is listed is the offset of a message. *)
THEOREM EventTypes == EventSpec => []EventTypeOK
  BY DurableAtStart, DurableStep, NotesAtStart, NotesStep, SkippedAtStart, SkippedStep,
     PartsAtStart, PartsStep, EventsTyped, PTL DEF EventSpec
=============================================================================
