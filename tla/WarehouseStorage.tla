-------------------------- MODULE WarehouseStorage --------------------------
(***************************************************************************)
(* Warehouses of backend-nest: WarehousesService over table warehouses.     *)
(*                                                                         *)
(* update, remove, allocate and release read the row (findOne), change the   *)
(* copy and call TypeORM's save(), which SELECTs the row again, compares     *)
(* column by column and UPDATEs the columns that differ.  Every await lets   *)
(* another call run, and nothing locks the row in between.                  *)
(*                                                                         *)
(* The quantity of allocate and release comes from the body unchecked, so it  *)
(* may be negative or zero; that it is a number is assumed.                   *)
(***************************************************************************)
EXTENDS Integers, FiniteSets

CONSTANTS
    StorageCalls,       \* HTTP calls; each runs once
    Warehouses,         \* identifiers
    Codes,              \* values of the unique column code
    Totals,             \* capacities a create or an update may carry
    StorageQuantities,  \* quantities a body of allocate or release may carry
    FirstWarehouses,    \* table warehouses at the start
    MaxStorageCalls     \* bound: calls executing at the same time

WarehouseColumns == {"code", "total", "used", "active"}
Warehouse == [code : Codes, total : Nat, used : Int, active : BOOLEAN]
\* CreateWarehouseDto; the PATCH body must carry the same fields, never capacityUsed.
WarehouseDto == [code : Codes, total : Totals]
NoWarehouse == [code |-> "none", total |-> -1, used |-> -1, active |-> FALSE]
StorageOps == {"create", "update", "remove", "allocate", "release"}
StorageCall ==
    [step : {"idle", "insert", "code", "select", "write", "done"},
     op : StorageOps \cup {"none"}, wh : Warehouses \cup {"none"}, dto : WarehouseDto,
     qty : Int, copy : Warehouse \cup {NoWarehouse}, cols : SUBSET WarehouseColumns]
SomeDto == CHOOSE d \in WarehouseDto : TRUE
SomeQty == CHOOSE q \in StorageQuantities : TRUE
IdleCall(c) == [step |-> "idle", op |-> "none", wh |-> "none", dto |-> SomeDto, qty |-> 0,
                copy |-> NoWarehouse, cols |-> {}]
EndedCall(c) == [IdleCall(c) EXCEPT !.step = "done"]

ASSUME StorageConstants ==
    /\ "none" \notin Codes \cup Warehouses
    /\ Codes # {} /\ Totals # {} /\ Totals \subseteq Nat
    /\ StorageQuantities # {} /\ StorageQuantities \subseteq Int
    /\ FirstWarehouses \in [Warehouses -> Warehouse \cup {NoWarehouse}]
    /\ \A w \in Warehouses :
          FirstWarehouses[w] # NoWarehouse => FirstWarehouses[w].used \in 0..FirstWarehouses[w].total
    /\ MaxStorageCalls \in Nat

VARIABLES
    warehouses,  \* table warehouses
    storage,     \* each call: next await, operation, arguments, entity, columns to write
    shrunk,      \* history: warehouses whose capacityTotal some UPDATE has lowered
    negated,     \* history: <<w, op>>, a negative quantity of op has been written to w
    overlapped,  \* history: warehouses two calls have worked on at the same time
    atomic       \* history: the rows had every call that saved been one atomic step

storageVars == <<warehouses, storage, shrunk, negated, overlapped, atomic>>

---------------------------------------------------------------------------
Exists(w) == warehouses[w] # NoWarehouse
CodeTaken(code, w) == \E v \in Warehouses \ {w} : Exists(v) /\ warehouses[v].code = code

Working(c) == storage[c].step \in {"insert", "code", "select", "write"}
MayCall(c) ==
    /\ storage[c].step = "idle"
    /\ Cardinality({d \in StorageCalls : Working(d)}) < MaxStorageCalls

EndCall(c) == storage' = [storage EXCEPT ![c] = EndedCall(c)]
CallAt(c, step) == storage' = [storage EXCEPT ![c].step = step]

\* Mutant of HasRoom: the occupancy after the allocation is not compared.
HasRoomBefore(row, qty) == row.used <= row.total

HasRoom(row, qty) == row.used + qty <= row.total

\* Math.max(0, capacityUsed - quantity)
Released(used, qty) == IF used - qty < 0 THEN 0 ELSE used - qty

\* Mutant of Changed: the update resets the occupancy with the capacity.
ChangedResetsUse(op, row, dto, qty) ==
    CASE op = "update" -> [row EXCEPT !.code = dto.code, !.total = dto.total, !.used = 0]
      [] op = "remove" -> [row EXCEPT !.active = FALSE]
      [] op = "allocate" -> [row EXCEPT !.used = @ + qty]
      [] op = "release" -> [row EXCEPT !.used = Released(@, qty)]

\* What the handler of op does to its copy.  No operation looks at isActive.
Changed(op, row, dto, qty) ==
    CASE op = "update" -> [row EXCEPT !.code = dto.code, !.total = dto.total]
      [] op = "remove" -> [row EXCEPT !.active = FALSE]
      [] op = "allocate" -> [row EXCEPT !.used = @ + qty]
      [] op = "release" -> [row EXCEPT !.used = Released(@, qty)]

\* The same call as one step.
Atomically(op, row, dto, qty) ==
    CASE op = "update" -> [row EXCEPT !.code = dto.code, !.total = dto.total]
      [] op = "remove" -> [row EXCEPT !.active = FALSE]
      [] op = "allocate" -> IF row.used + qty > row.total THEN row ELSE [row EXCEPT !.used = @ + qty]
      [] op = "release" -> [row EXCEPT !.used = Released(@, qty)]

StorageInit ==
    /\ warehouses = FirstWarehouses
    /\ storage = [c \in StorageCalls |-> IdleCall(c)]
    /\ shrunk = {} /\ negated = {} /\ overlapped = {}
    /\ atomic = FirstWarehouses

\* create: the SELECT by code.  Calls refused at once change nothing.
CreateWarehouse(c) ==
    \E w \in Warehouses, dto \in WarehouseDto :
       /\ MayCall(c) /\ ~Exists(w) /\ ~CodeTaken(dto.code, w)
       /\ \A d \in StorageCalls : storage[d].step = "insert" => storage[d].wh # w
       /\ storage' = [storage EXCEPT ![c] =
                        [@ EXCEPT !.step = "insert", !.op = "create", !.wh = w, !.dto = dto]]
       /\ UNCHANGED <<warehouses, shrunk, negated, overlapped, atomic>>

\* The INSERT, which the unique index refuses when the code is taken by now.
InsertWarehouse(c) ==
    LET w == storage[c].wh
        dto == storage[c].dto
        row == [code |-> dto.code, total |-> dto.total, used |-> 0, active |-> TRUE] IN
    /\ storage[c].step = "insert"
    /\ IF CodeTaken(dto.code, w)
         THEN UNCHANGED <<warehouses, atomic>>
         ELSE /\ warehouses' = [warehouses EXCEPT ![w] = row]
              /\ atomic' = [atomic EXCEPT ![w] = row]
    /\ EndCall(c)
    /\ UNCHANGED <<shrunk, negated, overlapped>>

\* The call after findOne: its copy is changed unless a new code must be checked.
ReadCall(w, op, dto, qty) ==
    LET row == warehouses[w]
        rechecks == op = "update" /\ dto.code # row.code IN
    [step |-> IF rechecks THEN "code" ELSE "select", op |-> op, wh |-> w, dto |-> dto,
     qty |-> qty, copy |-> IF rechecks THEN row ELSE Changed(op, row, dto, qty), cols |-> {}]

ReadWarehouse(c) ==
    \E w \in Warehouses, op \in StorageOps \ {"create"}, dto \in WarehouseDto,
      qty \in StorageQuantities :
       /\ MayCall(c) /\ Exists(w)
       /\ op = "allocate" => HasRoom(warehouses[w], qty)
       \* arguments an operation does not take are fixed
       /\ op # "update" => dto = SomeDto
       /\ op \in {"update", "remove"} => qty = SomeQty
       /\ storage' = [storage EXCEPT ![c] = ReadCall(w, op, dto, qty)]
       /\ overlapped' = IF \E d \in StorageCalls \ {c} : Working(d) /\ storage[d].wh = w
                          THEN overlapped \cup {w} ELSE overlapped
       /\ UNCHANGED <<warehouses, shrunk, negated, atomic>>

\* update: SELECT by the new code, then Object.assign.
CheckCode(c) ==
    LET s == storage[c] IN
    /\ s.step = "code"
    /\ IF CodeTaken(s.dto.code, s.wh)
         THEN EndCall(c)
         ELSE storage' = [storage EXCEPT ![c].step = "select",
                                         ![c].copy = Changed(s.op, @, s.dto, s.qty)]
    /\ UNCHANGED <<warehouses, shrunk, negated, overlapped, atomic>>

\* save(): SELECT and comparison; without a difference there is no UPDATE.
CompareWarehouse(c) ==
    LET s == storage[c]
        cols == {k \in WarehouseColumns : s.copy[k] # warehouses[s.wh][k]} IN
    /\ s.step = "select"
    /\ IF cols = {} THEN EndCall(c)
                    ELSE storage' = [storage EXCEPT ![c].step = "write", ![c].cols = cols]
    /\ UNCHANGED <<warehouses, shrunk, negated, overlapped, atomic>>

\* save(): UPDATE of the columns found to differ, unless the code is taken.
SaveWarehouse(c) ==
    LET s == storage[c]
        old == warehouses[s.wh]
        new == [code |-> IF "code" \in s.cols THEN s.copy.code ELSE old.code,
                total |-> IF "total" \in s.cols THEN s.copy.total ELSE old.total,
                used |-> IF "used" \in s.cols THEN s.copy.used ELSE old.used,
                active |-> IF "active" \in s.cols THEN s.copy.active ELSE old.active] IN
    /\ s.step = "write"
    /\ IF "code" \in s.cols /\ CodeTaken(s.copy.code, s.wh)
         THEN UNCHANGED <<warehouses, shrunk, negated, atomic>>
         ELSE /\ warehouses' = [warehouses EXCEPT ![s.wh] = new]
              /\ shrunk' = IF new.total < old.total THEN shrunk \cup {s.wh} ELSE shrunk
              /\ negated' = IF s.op \in {"allocate", "release"} /\ s.qty < 0
                              THEN negated \cup {<<s.wh, s.op>>} ELSE negated
              /\ atomic' = [atomic EXCEPT ![s.wh] = Atomically(s.op, @, s.dto, s.qty)]
    /\ EndCall(c)
    /\ UNCHANGED overlapped

StorageStep(c) ==
    \/ CreateWarehouse(c) \/ InsertWarehouse(c)
    \/ ReadWarehouse(c) \/ CheckCode(c) \/ CompareWarehouse(c) \/ SaveWarehouse(c)

StorageNext == \E c \in StorageCalls : StorageStep(c)

StorageSpec == StorageInit /\ [][StorageNext]_storageVars

---------------------------------------------------------------------------
(* Types and the control points of the calls. *)
StorageTypeOK ==
    /\ warehouses \in [Warehouses -> Warehouse \cup {NoWarehouse}]
    /\ atomic \in [Warehouses -> Warehouse \cup {NoWarehouse}]
    /\ shrunk \subseteq Warehouses /\ overlapped \subseteq Warehouses
    /\ negated \subseteq Warehouses \X {"allocate", "release"}
    /\ storage \in [StorageCalls -> StorageCall]

(* However allocations, releases and edits overlap, a warehouse is fuller    *)
(* than its capacity only after an UPDATE that lowered the capacity or a      *)
(* release of a negative quantity, which nothing compares with the capacity,  *)
(* and emptier than empty only after an allocation of a negative quantity.    *)
(* The check of allocateStorage on its own stale copy is enough for that,     *)
(* because save() compares with a row whose capacity only grows.             *)
OccupancyInBounds ==
    \A w \in Warehouses : Exists(w) =>
        /\ warehouses[w].used > warehouses[w].total => w \in shrunk \/ <<w, "release">> \in negated
        /\ warehouses[w].used < 0 => <<w, "allocate">> \in negated

(* While no two calls have worked on a warehouse at the same time its row is *)
(* what atomic calls would have left: no unit allocated, released or removed *)
(* is lost between the three statements of a call.                          *)
RowIsSequentialUnlessOverlap ==
    \A w \in Warehouses : w \notin overlapped => warehouses[w] = atomic[w]
===========================================================================
