------------------------- MODULE FastServicesProofs -------------------------
(***************************************************************************)
(* Theorems about two services of the FastAPI application: the rows kept in    *)
(* the Redis cache (RowCache) and the route optimizer (RouteOptimizer), for    *)
(* any rows, calls, lifetimes, points and distances.                          *)
(***************************************************************************)
EXTENDS RowCache, RouteOptimizer, SequenceTheorems, FiniteSetTheorems, TLAPS

---------------------------------------------------------------------------
(***************************************************************************)
(* Proofs about RowCache, for any rows, calls, lifetime and bound.           *)
(*                                                                         *)
(* EntryFollowsRow speaks of rows nobody works on, so it is not inductive: a  *)
(* call in the middle of its work must be known to hold the row as it is and  *)
(* to have yet to write every entry that does not match.  CacheInv says so.  *)
(***************************************************************************)

RowSteps == {"idle", "commit", "lookup", "refresh", "write"}
Ops == {"none", "create", "update", "delete", "finance", "show", "optimize", "status"}
KeyLists == {<<>>, <<"finance">>, <<"plain">>, <<"finance", "plain">>, <<"plain", "finance">>}
KeySet(ks) == {k \in Keys : \E i \in 1..Len(ks) : ks[i] = k}
RowCall == [step : RowSteps, op : Ops, row : CachedRows \cup {"none"}, version : Nat, todo : KeyLists]

(* The keys entries of a row are ever stored under. *)
KeysOf(r) == KeySet(SavedKeys[kind[r]])

Serves(c, r) == Serving(c) /\ calls[c].row = r
Changes(c) == calls[c].op \notin Reads

CacheTyped ==
    /\ kind \in [CachedRows -> Kinds]
    /\ commits \in [CachedRows -> Nat] /\ rows \in [CachedRows -> Nat]
    /\ entries \in [CachedRows -> [Keys -> [version : Nat, left : Nat]]]
    /\ strayed \subseteq CachedRows
    /\ calls \in [RowCalls -> RowCall]

(* A call works on a row with an operation of its table; only a call that     *)
(* reads looks an entry up, and one that writes has keys left, of its table.  *)
CallsInOrder ==
    \A c \in RowCalls : Serving(c) =>
       /\ calls[c].row \in CachedRows /\ calls[c].op \in OpsOf[kind[calls[c].row]]
       /\ calls[c].step = "lookup" => ~Changes(c)
       /\ calls[c].step \in {"commit", "refresh"} => Changes(c)
       /\ calls[c].step = "write" => /\ calls[c].todo # <<>>
                                     /\ KeySet(calls[c].todo) \subseteq KeysOf(calls[c].row)

NumberedByCommits == \A r \in CachedRows : rows[r] \in {0, commits[r]}

(* Entries are stored under the keys of their table only. *)
OwnKeysOnly == \A r \in CachedRows : \A k \in Keys \ KeysOf(r) : entries[r][k] = NoEntry

Matches(r, k) == entries[r][k] # NoEntry => entries[r][k].version = rows[r]

(* A call has yet to write the entry of k. *)
Owes(c, k) ==
    \/ calls[c].step = "refresh" /\ k \in KeysOf(calls[c].row)
    \/ calls[c].step = "write" /\ k \in KeySet(calls[c].todo)

(* On a row that has not strayed a call that changes it is alone; whoever is   *)
(* about to write has the row as it is; and an entry that does not match is    *)
(* one that the call changing the row will write.                           *)
AloneOn(r) ==
    \A c, d \in RowCalls : Serves(c, r) /\ Serves(d, r) /\ c # d => ~Changes(c) /\ ~Changes(d)
HoldsRow(c) ==
    LET r == calls[c].row IN
    /\ ~Changes(c) => rows[r] # 0 /\ calls[c].version = rows[r]
    /\ calls[c].step = "refresh" => rows[r] # 0
    /\ calls[c].step = "write" => calls[c].version = rows[r]
AccountedFor(r) ==
    \A k \in Keys : Matches(r, k) \/ \E c \in RowCalls : Serves(c, r) /\ Changes(c) /\ Owes(c, k)
RowsSettled(r) ==
    /\ AloneOn(r)
    /\ \A c \in RowCalls : Serves(c, r) => HoldsRow(c)
    /\ AccountedFor(r)

CacheInv ==
    /\ CacheTyped /\ CallsInOrder /\ NumberedByCommits /\ OwnKeysOnly
    /\ \A r \in CachedRows : r \notin strayed => RowsSettled(r)

---------------------------------------------------------------------------
(* The first key of a list is one, and the rest of the list holds the others. *)
LEMMA KeyListParts ==
  ASSUME NEW ks \in KeyLists, ks # <<>>
  PROVE  /\ Head(ks) \in KeySet(ks) /\ Tail(ks) \in KeyLists
         /\ KeySet(ks) = {Head(ks)} \cup KeySet(Tail(ks))
         /\ IF Len(ks) = 1 THEN KeySet(ks) = {Head(ks)} ELSE Tail(ks) # <<>>
  <1>1. KeySet(<<>>) = {}  BY DEF KeySet
  <1>2. KeySet(<<"finance">>) = {"finance"}  BY DEF KeySet, Keys
  <1>3. KeySet(<<"plain">>) = {"plain"}  BY DEF KeySet, Keys
  <1>4. CASE ks = <<"finance">>  BY <1>1, <1>2, <1>4 DEF KeyLists
  <1>5. CASE ks = <<"plain">>  BY <1>1, <1>3, <1>5 DEF KeyLists
  <1>6. CASE ks = <<"finance", "plain">>
    <2>1. KeySet(ks) = {"finance", "plain"}  BY <1>6 DEF KeySet, Keys
    <2> QED  BY <2>1, <1>3, <1>6 DEF KeyLists
  <1>7. CASE ks = <<"plain", "finance">>
    <2>1. KeySet(ks) = {"finance", "plain"}  BY <1>7 DEF KeySet, Keys
    <2> QED  BY <2>1, <1>2, <1>7 DEF KeyLists
  <1> QED  BY <1>4, <1>5, <1>6, <1>7 DEF KeyLists

(* A table has one set of keys: a delete removes all a save sets, and a read   *)
(* fills no other.                                                         *)
LEMMA TableKeys ==
  ASSUME NEW t \in Kinds
  PROVE  /\ SavedKeys[t] \in KeyLists /\ SavedKeys[t] # <<>>
         /\ DeletedKeys[t] \in KeyLists /\ DeletedKeys[t] # <<>>
         /\ FilledKeys[t] \in KeyLists /\ FilledKeys[t] # <<>>
         /\ KeySet(DeletedKeys[t]) = KeySet(SavedKeys[t])
         /\ KeySet(FilledKeys[t]) \subseteq KeySet(SavedKeys[t])
  <1>1. KeySet(<<"plain", "finance">>) = KeySet(<<"finance", "plain">>)
    BY DEF KeySet, Keys
  <1>2. KeySet(<<"finance">>) \subseteq KeySet(<<"finance", "plain">>)
    BY DEF KeySet, Keys
  <1> QED  BY <1>1, <1>2 DEF Kinds, SavedKeys, DeletedKeys, FilledKeys, KeyLists

(* A call that ends leaves nothing unwritten: it had not committed, only read,  *)
(* or its row has strayed.                                                 *)
LEMMA EndingKeeps ==
  ASSUME CacheInv, NEW c \in RowCalls, Serving(c), EndRowCall(c),
         UNCHANGED <<kind, rows, commits, entries>>,
         strayed \subseteq strayed', strayed' \subseteq CachedRows,
         calls[c].step \in {"commit", "lookup"} \/ ~Changes(c) \/ calls[c].row \in strayed'
  PROVE  CacheInv'
  <1> USE DEF CacheInv
  <1>1. /\ calls' \in [RowCalls -> RowCall] /\ ~Serving(c)'
        /\ \A d \in RowCalls \ {c} : calls'[d] = calls[d]
    BY DEF CacheTyped, EndRowCall, IdleRowCall, RowCall, RowSteps, Ops, KeyLists, Serving
  <1>2. CacheTyped'  BY <1>1 DEF CacheTyped
  <1>3. CallsInOrder'
    BY <1>1 DEF CallsInOrder, Serving, Changes, KeysOf
  <1>4. NumberedByCommits' /\ OwnKeysOnly'  BY DEF NumberedByCommits, OwnKeysOnly, KeysOf
  <1>5. ASSUME NEW r \in CachedRows, r \notin strayed'  PROVE RowsSettled(r)'
    <2>1. RowsSettled(r)  BY <1>5
    <2>2. AloneOn(r)'  BY <2>1, <1>1 DEF RowsSettled, AloneOn, Serves, Serving, Changes
    <2>3. \A d \in RowCalls : Serves(d, r)' => HoldsRow(d)'
      BY <2>1, <1>1 DEF RowsSettled, Serves, Serving, HoldsRow, Changes
    <2>4. ASSUME NEW k \in Keys, ~Matches(r, k)'
          PROVE  \E d \in RowCalls : Serves(d, r)' /\ Changes(d)' /\ Owes(d, k)'
      <3>1. PICK d \in RowCalls : Serves(d, r) /\ Changes(d) /\ Owes(d, k)
        BY <2>1, <2>4 DEF RowsSettled, AccountedFor, Matches
      <3>2. d # c  BY <3>1, <1>5 DEF Serves, Owes
      <3> QED  BY <3>1, <3>2, <1>1 DEF Serves, Serving, Changes, Owes, KeysOf
    <2> QED  BY <2>2, <2>3, <2>4 DEF RowsSettled, AccountedFor
  <1> QED  BY <1>2, <1>3, <1>4, <1>5

(* A call that has read its row goes on to write what it has read; one that    *)
(* changed the row, every key of its table.                                 *)
LEMMA FillingKeeps ==
  ASSUME CacheInv, NEW c \in RowCalls, calls[c].step \in {"lookup", "refresh"},
         NEW version \in Nat, NEW ks \in KeyLists, ks # <<>>,
         ToWrite(c, version, ks), UNCHANGED <<kind, rows, commits, entries, strayed>>,
         KeySet(ks) \subseteq KeysOf(calls[c].row),
         Changes(c) => KeySet(ks) = KeysOf(calls[c].row),
         calls[c].row \notin strayed => version = rows[calls[c].row]
  PROVE  CacheInv'
  <1> USE DEF CacheInv
  <1> DEFINE call == [calls[c] EXCEPT !.step = "write", !.version = version, !.todo = ks]
  <1>0. calls \in [RowCalls -> RowCall]  BY DEF CacheTyped
  <1>2. calls[c] \in RowCall  BY <1>0
  <1>a. call \in RowCall  BY <1>2 DEF RowCall, RowSteps
  <1>b. calls' = [calls EXCEPT ![c] = call]  BY <1>0, <1>2 DEF ToWrite, RowCall
  <1>1. /\ calls' \in [RowCalls -> RowCall] /\ calls'[c] = call
        /\ \A d \in RowCalls \ {c} : calls'[d] = calls[d]
    BY <1>0, <1>a, <1>b
  <1>3. /\ call.step = "write" /\ call.version = version /\ call.todo = ks
        /\ call.row = calls[c].row /\ call.op = calls[c].op
    BY <1>2 DEF RowCall
  <1> HIDE DEF call
  <1>4. CacheTyped'  BY <1>1 DEF CacheTyped
  <1>5. Serving(c)  BY DEF Serving
  <1>6. CallsInOrder'
    BY <1>1, <1>3, <1>5 DEF CallsInOrder, Serving, Changes, KeysOf
  <1>7. NumberedByCommits' /\ OwnKeysOnly'  BY DEF NumberedByCommits, OwnKeysOnly, KeysOf
  <1>8. ASSUME NEW r \in CachedRows, r \notin strayed'  PROVE RowsSettled(r)'
    <2>1. RowsSettled(r)  BY <1>8
    <2>2. \A d \in RowCalls : Serves(d, r)' = Serves(d, r) /\ Changes(d)' = Changes(d)
      BY <1>1, <1>3, <1>5 DEF Serves, Serving, Changes
    <2>3. AloneOn(r)'  BY <2>1, <2>2 DEF RowsSettled, AloneOn
    <2>4. ASSUME NEW d \in RowCalls, Serves(d, r)'  PROVE HoldsRow(d)'
      <3>1. Serves(d, r) /\ HoldsRow(d)  BY <2>1, <2>2, <2>4 DEF RowsSettled
      <3> QED  BY <3>1, <1>1, <1>3, <1>8 DEF HoldsRow, Serves, Changes
    <2>5. ASSUME NEW k \in Keys, ~Matches(r, k)'
          PROVE  \E d \in RowCalls : Serves(d, r)' /\ Changes(d)' /\ Owes(d, k)'
      <3>1. PICK d \in RowCalls : Serves(d, r) /\ Changes(d) /\ Owes(d, k)
        BY <2>1, <2>5 DEF RowsSettled, AccountedFor, Matches
      <3>2. Owes(d, k)'  BY <3>1, <1>1, <1>3 DEF Owes, KeysOf, Changes
      <3> QED  BY <3>1, <3>2, <2>2
    <2> QED  BY <2>3, <2>4, <2>5 DEF RowsSettled, AccountedFor
  <1> QED  BY <1>4, <1>6, <1>7, <1>8

LEMMA BeginKeeps ==
  ASSUME CacheInv, NEW c \in RowCalls, BeginRowCall(c)
  PROVE  CacheInv'
  <1> USE DEF CacheInv
  <1>1. PICK r \in CachedRows : \E op \in OpsOf[kind[r]] :
          /\ ~Serving(c)
          /\ IF op = "create" THEN commits[r] = 0 ELSE rows[r] # 0
          /\ calls' = [calls EXCEPT ![c] = [step |-> IF op \in Reads THEN "lookup" ELSE "commit",
                         op |-> op, row |-> r, version |-> rows[r], todo |-> <<>>]]
          /\ strayed' = IF \E d \in RowCalls \ {c} :
                              /\ Serving(d) /\ calls[d].row = r
                              /\ op \notin Reads \/ calls[d].op \notin Reads
                          THEN strayed \cup {r} ELSE strayed
          /\ UNCHANGED <<kind, rows, commits, entries>>
    BY DEF BeginRowCall
  <1>2. PICK op \in OpsOf[kind[r]] :
          /\ ~Serving(c)
          /\ IF op = "create" THEN commits[r] = 0 ELSE rows[r] # 0
          /\ calls' = [calls EXCEPT ![c] = [step |-> IF op \in Reads THEN "lookup" ELSE "commit",
                         op |-> op, row |-> r, version |-> rows[r], todo |-> <<>>]]
          /\ strayed' = IF \E d \in RowCalls \ {c} :
                              /\ Serving(d) /\ calls[d].row = r
                              /\ op \notin Reads \/ calls[d].op \notin Reads
                          THEN strayed \cup {r} ELSE strayed
          /\ UNCHANGED <<kind, rows, commits, entries>>
    BY <1>1
  <1>3. op \in Ops /\ (op = "create" => op \notin Reads)
    <2>1. kind[r] \in Kinds  BY DEF CacheTyped
    <2> QED  BY <2>1 DEF Kinds, OpsOf, Ops, Reads
  <1>4. /\ calls' \in [RowCalls -> RowCall]
        /\ calls'[c].step = (IF op \in Reads THEN "lookup" ELSE "commit")
        /\ calls'[c].op = op /\ calls'[c].row = r /\ calls'[c].version = rows[r]
        /\ \A d \in RowCalls \ {c} : calls'[d] = calls[d]
    BY <1>2, <1>3 DEF CacheTyped, RowCall, RowSteps, KeyLists
  <1>5. CacheTyped'  BY <1>2, <1>4 DEF CacheTyped
  <1>6. CallsInOrder'
    BY <1>2, <1>4 DEF CallsInOrder, Serving, Changes, KeysOf
  <1>7. NumberedByCommits' /\ OwnKeysOnly'
    BY <1>2 DEF NumberedByCommits, OwnKeysOnly, KeysOf
  <1>8. ASSUME NEW q \in CachedRows, q \notin strayed'  PROVE RowsSettled(q)'
    <2>1. RowsSettled(q)  BY <1>2, <1>8
    <2>2. \A d \in RowCalls \ {c} : Serves(d, q)' = Serves(d, q) /\ Changes(d)' = Changes(d)
      BY <1>4 DEF Serves, Serving, Changes
    <2>3. ASSUME NEW d \in RowCalls \ {c}, Serves(d, q), Serves(c, q)'
          PROVE  ~Changes(d) /\ ~Changes(c)'
      BY <2>3, <1>2, <1>4, <1>8 DEF Serves, Changes
    <2>4. AloneOn(q)'
      <3>1. ASSUME NEW d \in RowCalls, NEW e \in RowCalls, Serves(d, q)', Serves(e, q)', d # e
            PROVE  ~Changes(d)' /\ ~Changes(e)'
        <4>1. CASE d = c  BY <4>1, <3>1, <2>2, <2>3
        <4>2. CASE e = c  BY <4>2, <3>1, <2>2, <2>3
        <4>3. CASE d # c /\ e # c  BY <4>3, <3>1, <2>1, <2>2 DEF RowsSettled, AloneOn
        <4> QED  BY <4>1, <4>2, <4>3
      <3> QED  BY <3>1 DEF AloneOn
    <2>5. ASSUME NEW d \in RowCalls, Serves(d, q)'  PROVE HoldsRow(d)'
      <3>1. CASE d = c  BY <3>1, <1>2, <1>3, <1>4 DEF HoldsRow, Changes
      <3>2. CASE d # c
        <4>1. HoldsRow(d)  BY <3>2, <2>1, <2>2, <2>5 DEF RowsSettled
        <4> QED  BY <3>2, <4>1, <1>2, <1>4 DEF HoldsRow, Changes
      <3> QED  BY <3>1, <3>2
    <2>6. ASSUME NEW k \in Keys, ~Matches(q, k)'
          PROVE  \E d \in RowCalls : Serves(d, q)' /\ Changes(d)' /\ Owes(d, k)'
      <3>1. PICK d \in RowCalls : Serves(d, q) /\ Changes(d) /\ Owes(d, k)
        BY <2>1, <2>6, <1>2 DEF RowsSettled, AccountedFor, Matches
      <3>2. d # c  BY <3>1, <1>2 DEF Serves
      <3>3. Owes(d, k)'  BY <3>1, <3>2, <1>2, <1>4 DEF Owes, KeysOf
      <3> QED  BY <3>1, <3>2, <3>3, <2>2
    <2> QED  BY <2>4, <2>5, <2>6 DEF RowsSettled, AccountedFor
  <1> QED  BY <1>5, <1>6, <1>7, <1>8

LEMMA LookUpKeeps ==
  ASSUME CacheInv, NEW c \in RowCalls, LookUpEntry(c)
  PROVE  CacheInv'
  <1>1. /\ calls[c].step = "lookup" /\ Serving(c) /\ ~Changes(c)
        /\ calls[c].row \in CachedRows /\ kind[calls[c].row] \in Kinds
        /\ calls[c].version \in Nat
    BY DEF LookUpEntry, Serving, CacheInv, CallsInOrder, CacheTyped, RowCall
  <1>2. CASE EndRowCall(c)
    <2>1. strayed \subseteq strayed' /\ strayed' \subseteq CachedRows
      BY DEF LookUpEntry, CacheInv, CacheTyped
    <2> QED  BY <1>1, <1>2, <2>1, EndingKeeps DEF LookUpEntry
  <1>3. CASE ToWrite(c, calls[c].version, FilledKeys[kind[calls[c].row]])
    <2>1. calls[c].row \notin strayed => calls[c].version = rows[calls[c].row]
      BY <1>1 DEF CacheInv, RowsSettled, Serves, HoldsRow
    <2> DEFINE ks == FilledKeys[kind[calls[c].row]]
    <2>2. /\ ks \in KeyLists /\ ks # <<>> /\ KeySet(ks) \subseteq KeysOf(calls[c].row)
      BY <1>1, TableKeys DEF KeysOf
    <2> QED
      BY <1>1, <1>3, <2>1, <2>2, FillingKeeps DEF LookUpEntry
  <1> QED  BY <1>2, <1>3 DEF LookUpEntry

LEMMA RefuseKeeps ==
  ASSUME CacheInv, NEW c \in RowCalls, RefuseRow(c)
  PROVE  CacheInv'
  <1>1. strayed \subseteq strayed' /\ strayed' \subseteq CachedRows
    BY DEF RefuseRow, CacheInv, CacheTyped
  <1> QED  BY <1>1, EndingKeeps DEF RefuseRow, Serving

LEMMA RefreshKeeps ==
  ASSUME CacheInv, NEW c \in RowCalls, RefreshRow(c)
  PROVE  CacheInv'
  <1>1. /\ calls[c].step = "refresh" /\ Serving(c)
        /\ calls[c].row \in CachedRows /\ kind[calls[c].row] \in Kinds
        /\ rows[calls[c].row] \in Nat
    BY DEF RefreshRow, Serving, CacheInv, CallsInOrder, CacheTyped
  <1>2. strayed' = strayed /\ strayed \subseteq CachedRows
    BY DEF RefreshRow, CacheInv, CacheTyped
  <1>3. CASE rows[calls[c].row] = 0
    <2>1. calls[c].row \in strayed
      BY <1>1, <1>3 DEF CacheInv, RowsSettled, Serves, HoldsRow
    <2> QED  BY <1>1, <1>2, <1>3, <2>1, EndingKeeps DEF RefreshRow
  <1>4. CASE rows[calls[c].row] # 0
    <2> DEFINE ks == SavedKeys[kind[calls[c].row]]
    <2>1. /\ ks \in KeyLists /\ ks # <<>> /\ KeySet(ks) = KeysOf(calls[c].row)
      BY <1>1, TableKeys DEF KeysOf
    <2>2. ToWrite(c, rows[calls[c].row], ks)  BY <1>4 DEF RefreshRow, Refreshed
    <2> QED  BY <1>1, <2>1, <2>2, FillingKeeps DEF RefreshRow
  <1> QED  BY <1>3, <1>4

LEMMA RedisFailsKeeps ==
  ASSUME CacheInv, NEW c \in RowCalls, RedisFails(c)
  PROVE  CacheInv'
  <1>1. Serving(c) /\ calls[c].row \in CachedRows
    BY DEF RedisFails, Serving, CacheInv, CallsInOrder
  <1>2. strayed \subseteq strayed' /\ strayed' \subseteq CachedRows
    BY <1>1 DEF RedisFails, CacheInv, CacheTyped
  <1>3. ~Changes(c) \/ calls[c].row \in strayed'
    BY <1>1 DEF RedisFails, Changes, Writes
  <1> QED  BY <1>1, <1>2, <1>3, EndingKeeps DEF RedisFails

(* The row of another call is another one, or the call that commits has made   *)
(* it stray: what the rest of the system holds stays as it is.               *)
LEMMA CommitKeeps ==
  ASSUME CacheInv, NEW c \in RowCalls, CommitRow(c)
  PROVE  CacheInv'
  <1> USE DEF CacheInv
  <1> DEFINE r == calls[c].row
  <1> DEFINE op == calls[c].op
  <1>1. /\ calls[c].step = "commit" /\ Serving(c) /\ Changes(c) /\ op # "delete"
        /\ r \in CachedRows /\ kind[r] \in Kinds
    BY DEF CommitRow, Serving, CallsInOrder, CacheTyped
  <1>2. /\ UNCHANGED <<kind, entries>>
        /\ strayed' = IF op = "status" THEN strayed \cup {r} ELSE strayed
        /\ IF op = "status" \/ rows'[r] = 0
             THEN EndRowCall(c) ELSE calls' = [calls EXCEPT ![c].step = "refresh"]
    BY DEF CommitRow
  <1>3. /\ rows' \in [CachedRows -> Nat] /\ commits' \in [CachedRows -> Nat]
        /\ \A q \in CachedRows \ {r} : rows'[q] = rows[q] /\ commits'[q] = commits[q]
        /\ rows'[r] \in {0, commits'[r]}
        /\ rows'[r] = 0 => UNCHANGED <<rows, commits>>
    <2>1. rows \in [CachedRows -> Nat] /\ commits \in [CachedRows -> Nat]  BY DEF CacheTyped
    <2>2. CASE UNCHANGED <<rows, commits>>
      BY <2>1, <2>2, <1>1 DEF NumberedByCommits
    <2>3. CASE /\ rows' = [rows EXCEPT ![r] = commits[r] + 1]
               /\ commits' = [commits EXCEPT ![r] = commits[r] + 1]
      BY <2>1, <2>3, <1>1
    <2> QED  BY <2>2, <2>3 DEF CommitRow
  <1>4. CASE rows'[r] = 0
    <2>1. strayed \subseteq strayed' /\ strayed' \subseteq CachedRows
      BY <1>1, <1>2 DEF CacheTyped
    <2> QED  BY <1>1, <1>2, <1>3, <1>4, <2>1, EndingKeeps
  <1>5. CASE rows'[r] # 0
    <2>1. calls \in [RowCalls -> RowCall] /\ calls[c] \in RowCall  BY DEF CacheTyped
    <2>2. /\ calls' \in [RowCalls -> RowCall] /\ calls'[c].step \in {"idle", "refresh"}
          /\ calls'[c].step = "refresh" => calls'[c].row = r /\ calls'[c].op = op
          /\ calls'[c].step = "idle" => op = "status"
          /\ \A d \in RowCalls \ {c} : calls'[d] = calls[d]
      <3>1. CASE op = "status"
        <4>1. calls' = [calls EXCEPT ![c] = IdleRowCall]  BY <3>1, <1>2 DEF EndRowCall
        <4>2. IdleRowCall \in RowCall /\ IdleRowCall.step = "idle"
          BY DEF IdleRowCall, RowCall, RowSteps, Ops, KeyLists
        <4> QED  BY <4>1, <4>2, <3>1, <2>1
      <3>2. CASE op # "status"
        <4> DEFINE call == [calls[c] EXCEPT !.step = "refresh"]
        <4>1. calls' = [calls EXCEPT ![c] = call]  BY <3>2, <1>2, <1>5
        <4>2. call \in RowCall /\ call.step = "refresh" /\ call.row = r /\ call.op = op
          BY <2>1 DEF RowCall, RowSteps
        <4> HIDE DEF call
        <4> QED  BY <4>1, <4>2, <3>2, <2>1
      <3> QED  BY <3>1, <3>2
    <2>3. CacheTyped'  BY <1>1, <1>2, <1>3, <2>2 DEF CacheTyped
    <2>4. CallsInOrder'
      BY <1>1, <1>2, <2>2 DEF CallsInOrder, Serving, Changes, KeysOf
    <2>5. NumberedByCommits' /\ OwnKeysOnly'
      BY <1>2, <1>3 DEF NumberedByCommits, OwnKeysOnly, KeysOf
    <2>6. ASSUME NEW q \in CachedRows, q \notin strayed'  PROVE RowsSettled(q)'
      <3>1. RowsSettled(q) /\ q \notin strayed  BY <1>2, <2>6
      <3>2. CASE q # r
        <4>1. \A d \in RowCalls : Serves(d, q)' = Serves(d, q)
          BY <3>2, <2>2 DEF Serves, Serving
        <4>2. \A d \in RowCalls : Serves(d, q) => d # c /\ calls'[d] = calls[d]
          BY <3>2, <2>2 DEF Serves
        <4>3. AloneOn(q)'
          BY <3>1, <4>1, <4>2 DEF RowsSettled, AloneOn, Changes
        <4>4. \A d \in RowCalls : Serves(d, q)' => HoldsRow(d)'
          BY <3>1, <3>2, <4>1, <4>2, <1>3 DEF RowsSettled, HoldsRow, Changes, Serves
        <4>5. AccountedFor(q)'
          BY <3>1, <3>2, <4>1, <4>2, <1>2, <1>3
             DEF RowsSettled, AccountedFor, Matches, Changes, Owes, KeysOf
        <4> QED  BY <4>3, <4>4, <4>5 DEF RowsSettled
      <3>3. CASE q = r
        <4>1. op # "status"  BY <3>3, <2>6, <1>1, <1>2
        <4>2. /\ calls'[c].step = "refresh" /\ calls'[c].row = r /\ calls'[c].op = op
          BY <4>1, <2>2
        <4>3. \A d \in RowCalls : Serves(d, q)' => d = c
          BY <3>1, <3>3, <1>1, <2>2 DEF RowsSettled, AloneOn, Serves, Serving
        <4>4. AloneOn(q)'  BY <4>3 DEF AloneOn
        <4>5. HoldsRow(c)'  BY <4>2, <1>1, <1>5 DEF HoldsRow, Changes
        <4>6. ASSUME NEW k \in Keys, ~Matches(q, k)'
              PROVE  Serves(c, q)' /\ Changes(c)' /\ Owes(c, k)'
          <5>1. k \in KeysOf(q)  BY <4>6, <1>2 DEF OwnKeysOnly, Matches
          <5> QED  BY <5>1, <3>3, <4>2, <1>1, <1>2 DEF Serves, Serving, Changes, Owes, KeysOf
        <4> QED  BY <4>3, <4>4, <4>5, <4>6 DEF RowsSettled, AccountedFor
      <3> QED  BY <3>2, <3>3
    <2> QED  BY <2>3, <2>4, <2>5, <2>6
  <1> QED  BY <1>4, <1>5

LEMMA DeleteKeeps ==
  ASSUME CacheInv, NEW c \in RowCalls, DeleteRow(c)
  PROVE  CacheInv'
  <1> USE DEF CacheInv
  <1> DEFINE r == calls[c].row
  <1> DEFINE ks == DeletedKeys[kind[calls[c].row]]
  <1> DEFINE call == [calls[c] EXCEPT !.step = "write", !.version = 0, !.todo = ks]
  <1>1. /\ calls[c].step = "commit" /\ Serving(c) /\ Changes(c)
        /\ r \in CachedRows /\ kind[r] \in Kinds
    BY DEF DeleteRow, Serving, CallsInOrder, CacheTyped
  <1>2. /\ ks \in KeyLists /\ ks # <<>> /\ KeySet(ks) = KeysOf(r)
    BY <1>1, TableKeys DEF KeysOf
  <1>3. calls \in [RowCalls -> RowCall] /\ calls[c] \in RowCall  BY DEF CacheTyped
  <1>4. calls' = [calls EXCEPT ![c] = call]
    BY <1>3 DEF DeleteRow, ToWrite, RowCall
  <1>5. /\ UNCHANGED <<kind, entries, strayed>>
        /\ rows' \in [CachedRows -> Nat] /\ commits' \in [CachedRows -> Nat]
        /\ \A q \in CachedRows \ {r} : rows'[q] = rows[q] /\ commits'[q] = commits[q]
        /\ rows'[r] = 0
    BY <1>1 DEF DeleteRow, CacheTyped
  <1> HIDE DEF ks
  <1>6. call \in RowCall  BY <1>2, <1>3 DEF RowCall, RowSteps
  <1>7. /\ call.step = "write" /\ call.version = 0 /\ call.todo = ks
        /\ call.row = r /\ call.op = calls[c].op
    BY <1>3 DEF RowCall
  <1>8. /\ calls' \in [RowCalls -> RowCall] /\ calls'[c] = call
        /\ \A d \in RowCalls \ {c} : calls'[d] = calls[d]
    BY <1>3, <1>4, <1>6
  <1> HIDE DEF call
  <1>9. CacheTyped'  BY <1>5, <1>8 DEF CacheTyped
  <1>10. CallsInOrder'
    <2>1. calls'[c].row \in CachedRows /\ calls[c].op \in OpsOf[kind'[calls'[c].row]]
      BY <1>1, <1>5, <1>7, <1>8 DEF CallsInOrder
    <2>2. KeySet(calls'[c].todo) \subseteq KeysOf(r) /\ calls'[c].todo # <<>>
      BY <1>2, <1>7, <1>8
    <2>3. KeySet(calls'[c].todo) \subseteq KeysOf(calls[c].row)'
      BY <1>5, <1>7, <1>8, <2>2 DEF KeysOf
    <2>4. /\ calls'[c].step = "write" /\ calls'[c].op \notin Reads
          /\ calls'[c].op \in OpsOf[kind'[calls'[c].row]]
      BY <1>1, <1>7, <1>8, <2>1 DEF Changes
    <2>5. \A d \in RowCalls \ {c} : calls'[d] = calls[d]  BY <1>8
    <2>6. kind' = kind  BY <1>5
    <2> QED  BY <2>1, <2>2, <2>3, <2>4, <2>5, <2>6 DEF CallsInOrder, Serving, Changes, KeysOf
  <1>11. NumberedByCommits' /\ OwnKeysOnly'
    BY <1>5 DEF NumberedByCommits, OwnKeysOnly, KeysOf
  <1>12. ASSUME NEW q \in CachedRows, q \notin strayed'  PROVE RowsSettled(q)'
    <2>1. RowsSettled(q)  BY <1>5, <1>12
    <2>2. \A d \in RowCalls : Serves(d, q)' = Serves(d, q) /\ Changes(d)' = Changes(d)
      BY <1>1, <1>7, <1>8 DEF Serves, Serving, Changes
    <2>3. AloneOn(q)'  BY <2>1, <2>2 DEF RowsSettled, AloneOn
    <2>4. CASE q # r
      <3>1. \A d \in RowCalls : Serves(d, q) => d # c /\ calls'[d] = calls[d]
        BY <2>4, <1>8 DEF Serves
      <3>2. \A d \in RowCalls : Serves(d, q)' => HoldsRow(d)'
        BY <2>1, <2>2, <2>4, <3>1, <1>5 DEF RowsSettled, HoldsRow, Changes, Serves
      <3>3. AccountedFor(q)'
        BY <2>1, <2>2, <2>4, <3>1, <1>5 DEF RowsSettled, AccountedFor, Matches, Owes, KeysOf
      <3> QED  BY <2>3, <3>2, <3>3 DEF RowsSettled
    <2>5. CASE q = r
      <3>1. \A d \in RowCalls : Serves(d, q)' => d = c
        BY <2>1, <2>2, <2>5, <1>1 DEF RowsSettled, AloneOn, Serves
      <3>2. HoldsRow(c)'  BY <1>1, <1>5, <1>7, <1>8 DEF HoldsRow, Changes
      <3>3. ASSUME NEW k \in Keys, ~Matches(q, k)'
            PROVE  Serves(c, q)' /\ Changes(c)' /\ Owes(c, k)'
        <4>1. k \in KeysOf(q)  BY <3>3, <1>5 DEF OwnKeysOnly, Matches
        <4> QED  BY <4>1, <2>5, <1>1, <1>2, <1>7, <1>8 DEF Serves, Serving, Changes, Owes
      <3> QED  BY <2>3, <3>1, <3>2, <3>3 DEF RowsSettled, AccountedFor
    <2> QED  BY <2>4, <2>5
  <1> QED  BY <1>9, <1>10, <1>11, <1>12

(* The row of the route strays; nothing else changes. *)
LEMMA UnlinkKeeps ==
  ASSUME CacheInv, NEW r \in CachedRows, UnlinkTruck(r)
  PROVE  CacheInv'
  <1> USE DEF CacheInv
  <1>1. /\ UNCHANGED <<kind, entries, calls>> /\ strayed' = strayed \cup {r}
        /\ rows' \in [CachedRows -> Nat] /\ commits' \in [CachedRows -> Nat]
        /\ \A q \in CachedRows \ {r} : rows'[q] = rows[q] /\ commits'[q] = commits[q]
        /\ rows'[r] = commits'[r]
    BY DEF UnlinkTruck, CacheTyped
  <1>2. CacheTyped' /\ CallsInOrder'
    BY <1>1 DEF CacheTyped, CallsInOrder, Serving, Changes, KeysOf
  <1>3. NumberedByCommits' /\ OwnKeysOnly'
    BY <1>1 DEF NumberedByCommits, OwnKeysOnly, KeysOf
  <1>4. ASSUME NEW q \in CachedRows, q \notin strayed'  PROVE RowsSettled(q)'
    <2>1. RowsSettled(q) /\ q # r  BY <1>1, <1>4
    <2>2. AloneOn(q)'  BY <2>1, <1>1 DEF RowsSettled, AloneOn, Serves, Serving, Changes
    <2>3. \A d \in RowCalls : Serves(d, q)' => HoldsRow(d)'
      BY <2>1, <1>1 DEF RowsSettled, Serves, Serving, HoldsRow, Changes
    <2>4. AccountedFor(q)'
      BY <2>1, <1>1 DEF RowsSettled, AccountedFor, Matches, Serves, Serving, Changes, Owes, KeysOf
    <2> QED  BY <2>2, <2>3, <2>4 DEF RowsSettled
  <1> QED  BY <1>2, <1>3, <1>4

(* The entry written matches, for the writer holds the row as it is; and the   *)
(* keys that remain are those it still owes.                                *)
LEMMA WriteKeeps ==
  ASSUME CacheInv, NEW c \in RowCalls, WriteEntry(c)
  PROVE  CacheInv'
  <1> USE DEF CacheInv
  <1> DEFINE r == calls[c].row
  <1> DEFINE key == Head(calls[c].todo)
  <1> DEFINE version == calls[c].version
  <1> DEFINE entry == IF version = 0 THEN NoEntry ELSE [version |-> version, left |-> EntryTtl]
  <1>1. /\ calls[c].step = "write" /\ Serving(c) /\ r \in CachedRows
        /\ calls[c].todo \in KeyLists /\ calls[c].todo # <<>> /\ version \in Nat
        /\ KeySet(calls[c].todo) \subseteq KeysOf(r)
        /\ calls \in [RowCalls -> RowCall] /\ calls[c] \in RowCall
    BY DEF WriteEntry, Serving, CallsInOrder, CacheTyped, RowCall
  <1>2. /\ key \in KeySet(calls[c].todo) /\ Tail(calls[c].todo) \in KeyLists
        /\ KeySet(calls[c].todo) = {key} \cup KeySet(Tail(calls[c].todo))
        /\ IF Len(calls[c].todo) = 1 THEN KeySet(calls[c].todo) = {key}
           ELSE Tail(calls[c].todo) # <<>>
    BY <1>1, KeyListParts
  <1>3. key \in Keys /\ key \in KeysOf(r)  BY <1>1, <1>2 DEF KeySet
  <1>4. UNCHANGED <<kind, rows, commits, strayed>>  BY DEF WriteEntry
  <1>5. entry \in [version : Nat, left : Nat]  BY <1>1, RowCacheConstants DEF NoEntry
  <1>6. entries' = [entries EXCEPT ![r][key] = entry]  BY DEF WriteEntry
  <1> HIDE DEF entry
  <1>7. /\ entries' \in [CachedRows -> [Keys -> [version : Nat, left : Nat]]]
        /\ entries'[r][key] = entry
        /\ \A q \in CachedRows, k \in Keys :
              q # r \/ k # key => entries'[q][k] = entries[q][k]
    BY <1>1, <1>3, <1>5, <1>6 DEF CacheTyped
  <1>8. /\ calls' \in [RowCalls -> RowCall]
        /\ IF Len(calls[c].todo) = 1 THEN ~Serving(c)'
           ELSE /\ calls'[c].step = "write" /\ calls'[c].row = r /\ calls'[c].op = calls[c].op
                /\ calls'[c].version = version /\ calls'[c].todo = Tail(calls[c].todo)
        /\ \A d \in RowCalls \ {c} : calls'[d] = calls[d]
    <2>1. CASE Len(calls[c].todo) = 1
      <3>1. calls' = [calls EXCEPT ![c] = IdleRowCall]
        BY <2>1 DEF WriteEntry, EndRowCall
      <3>2. IdleRowCall \in RowCall /\ IdleRowCall.step = "idle"
        BY DEF IdleRowCall, RowCall, RowSteps, Ops, KeyLists
      <3> QED  BY <3>1, <3>2, <2>1, <1>1 DEF Serving
    <2>2. CASE Len(calls[c].todo) # 1
      <3> DEFINE call == [calls[c] EXCEPT !.todo = Tail(calls[c].todo)]
      <3>1. calls' = [calls EXCEPT ![c] = call]  BY <2>2, <1>1 DEF WriteEntry
      <3>2. /\ call \in RowCall /\ call.step = "write" /\ call.row = r
            /\ call.op = calls[c].op /\ call.version = version /\ call.todo = Tail(calls[c].todo)
        BY <1>1, <1>2 DEF RowCall
      <3> HIDE DEF call
      <3> QED  BY <3>1, <3>2, <2>2, <1>1
    <2> QED  BY <2>1, <2>2
  <1>9. CacheTyped'  BY <1>4, <1>7, <1>8 DEF CacheTyped
  <1>10. CallsInOrder'
    <2>1. ASSUME NEW d \in RowCalls, Serving(d)'
          PROVE  /\ calls'[d].row \in CachedRows /\ calls'[d].op \in OpsOf[kind[calls'[d].row]]
                 /\ calls'[d].step = "lookup" => ~Changes(d)'
                 /\ calls'[d].step \in {"commit", "refresh"} => Changes(d)'
                 /\ calls'[d].step = "write" =>
                       /\ calls'[d].todo # <<>>
                       /\ KeySet(calls'[d].todo) \subseteq KeysOf(calls'[d].row)
      <3>1. CASE d = c
        BY <3>1, <2>1, <1>1, <1>2, <1>8 DEF CallsInOrder
      <3>2. CASE d # c
        BY <3>2, <2>1, <1>8 DEF CallsInOrder, Serving, Changes
      <3> QED  BY <3>1, <3>2
    <2> QED  BY <2>1, <1>4 DEF CallsInOrder, KeysOf
  <1>11. NumberedByCommits' /\ OwnKeysOnly'
    BY <1>3, <1>4, <1>7 DEF NumberedByCommits, OwnKeysOnly, KeysOf
  <1>12. ASSUME NEW q \in CachedRows, q \notin strayed'  PROVE RowsSettled(q)'
    <2>1. RowsSettled(q)  BY <1>4, <1>12
    <2>2. \A d \in RowCalls : Serves(d, q)' => Serves(d, q) /\ Changes(d)' = Changes(d)
      BY <1>1, <1>8 DEF Serves, Serving, Changes
    <2>3. AloneOn(q)'  BY <2>1, <2>2 DEF RowsSettled, AloneOn
    <2>4. ASSUME NEW d \in RowCalls, Serves(d, q)'  PROVE HoldsRow(d)'
      <3>1. HoldsRow(d) /\ Changes(d)' = Changes(d)  BY <2>1, <2>2, <2>4 DEF RowsSettled
      <3>2. CASE d = c  BY <3>1, <3>2, <2>4, <1>1, <1>4, <1>8 DEF HoldsRow, Serves
      <3>3. CASE d # c  BY <3>1, <3>3, <1>4, <1>8 DEF HoldsRow
      <3> QED  BY <3>2, <3>3
    <2>5. ASSUME NEW k \in Keys, ~Matches(q, k)'
          PROVE  \E d \in RowCalls : Serves(d, q)' /\ Changes(d)' /\ Owes(d, k)'
      <3>1. q # r \/ k # key
        <4>1. SUFFICES ASSUME q = r, k = key  PROVE FALSE  OBVIOUS
        <4>2. version = rows[q]
          BY <4>1, <1>1, <2>1 DEF RowsSettled, Serves, HoldsRow
        <4>3. entries'[q][k] = entry /\ (entry = NoEntry \/ entry.version = rows'[q])
          BY <4>1, <4>2, <1>4, <1>7 DEF entry
        <4> QED  BY <4>3, <2>5 DEF Matches
      <3>2. PICK d \in RowCalls : Serves(d, q) /\ Changes(d) /\ Owes(d, k)
        BY <3>1, <2>1, <2>5, <1>4, <1>7 DEF RowsSettled, AccountedFor, Matches
      <3>3. CASE d # c
        BY <3>2, <3>3, <1>4, <1>8 DEF Serves, Serving, Changes, Owes, KeysOf
      <3>4. CASE d = c
        <4>1. k \in KeySet(calls[c].todo) /\ k # key
          BY <3>1, <3>2, <3>4, <1>1 DEF Owes, Serves
        <4>2. Len(calls[c].todo) # 1 /\ k \in KeySet(Tail(calls[c].todo))  BY <4>1, <1>2
        <4> QED
          BY <4>2, <3>2, <3>4, <1>8 DEF Serves, Serving, Changes, Owes
      <3> QED  BY <3>3, <3>4
    <2> QED  BY <2>3, <2>4, <2>5 DEF RowsSettled, AccountedFor
  <1> QED  BY <1>9, <1>10, <1>11, <1>12

(* Entries only age and go. *)
LEMMA TickKeeps ==
  ASSUME CacheInv, EntryTick
  PROVE  CacheInv'
  <1> USE DEF CacheInv
  <1>1. UNCHANGED <<kind, rows, commits, calls, strayed>>  BY DEF EntryTick
  <1>2. ASSUME NEW r \in CachedRows, NEW k \in Keys
        PROVE  /\ entries'[r][k] = IF entries[r][k].left <= 1 THEN NoEntry
                                   ELSE [entries[r][k] EXCEPT !.left = @ - 1]
               /\ entries'[r][k] \in [version : Nat, left : Nat]
               /\ entries'[r][k] = NoEntry \/ entries'[r][k].version = entries[r][k].version
               /\ entries[r][k] = NoEntry => entries'[r][k] = NoEntry
    <2>1. entries[r][k] \in [version : Nat, left : Nat]  BY DEF CacheTyped
    <2>2. entries'[r][k] = IF entries[r][k].left <= 1 THEN NoEntry
                           ELSE [entries[r][k] EXCEPT !.left = @ - 1]
      BY DEF EntryTick
    <2>3. CASE entries[r][k].left <= 1  BY <2>1, <2>2, <2>3 DEF NoEntry
    <2>4. CASE ~(entries[r][k].left <= 1)  BY <2>1, <2>2, <2>4 DEF NoEntry
    <2> QED  BY <2>2, <2>3, <2>4
  <1>3. entries' \in [CachedRows -> [Keys -> [version : Nat, left : Nat]]]
    <2>1. entries' = [r \in CachedRows |-> [k \in Keys |-> entries'[r][k]]]  BY DEF EntryTick
    <2> QED  BY <2>1, <1>2
  <1>4. CacheTyped' /\ CallsInOrder'
    BY <1>1, <1>3 DEF CacheTyped, CallsInOrder, Serving, Changes, KeysOf
  <1>5. NumberedByCommits' /\ OwnKeysOnly'
    BY <1>1, <1>2 DEF NumberedByCommits, OwnKeysOnly, KeysOf
  <1>6. ASSUME NEW q \in CachedRows, q \notin strayed'  PROVE RowsSettled(q)'
    <2>1. RowsSettled(q)  BY <1>1, <1>6
    <2>2. AloneOn(q)'  BY <2>1, <1>1 DEF RowsSettled, AloneOn, Serves, Serving, Changes
    <2>3. \A d \in RowCalls : Serves(d, q)' => HoldsRow(d)'
      BY <2>1, <1>1 DEF RowsSettled, Serves, Serving, HoldsRow, Changes
    <2>4. \A k \in Keys : Matches(q, k) => Matches(q, k)'
      BY <1>1, <1>2 DEF Matches
    <2>5. AccountedFor(q)'
      BY <2>1, <2>4, <1>1 DEF RowsSettled, AccountedFor, Serves, Serving, Changes, Owes, KeysOf
    <2> QED  BY <2>2, <2>3, <2>5 DEF RowsSettled
  <1> QED  BY <1>4, <1>5, <1>6

(* A crash ends every call; the row of one that had committed strays. *)
LEMMA CrashKeeps ==
  ASSUME CacheInv, CrashFastApi
  PROVE  CacheInv'
  <1> USE DEF CacheInv
  <1>1. /\ UNCHANGED <<kind, rows, commits, entries>>
        /\ strayed' = strayed \cup
             {calls[c].row : c \in {d \in RowCalls : Writes(d) /\ calls[d].step # "commit"}}
        /\ \A c \in RowCalls : calls'[c] = IdleRowCall
    BY DEF CrashFastApi
  <1>2. calls' \in [RowCalls -> RowCall] /\ \A c \in RowCalls : ~Serving(c)'
    BY DEF CrashFastApi, IdleRowCall, RowCall, RowSteps, Ops, KeyLists, Serving
  <1>3. strayed' \subseteq CachedRows  BY <1>1 DEF CacheTyped, CallsInOrder, Writes
  <1>4. CacheTyped' /\ CallsInOrder'  BY <1>1, <1>2, <1>3 DEF CacheTyped, CallsInOrder
  <1>5. NumberedByCommits' /\ OwnKeysOnly'
    BY <1>1 DEF NumberedByCommits, OwnKeysOnly, KeysOf
  <1>6. ASSUME NEW q \in CachedRows, q \notin strayed'  PROVE RowsSettled(q)'
    <2>1. RowsSettled(q)  BY <1>1, <1>6
    <2>2. \A c \in RowCalls, k \in Keys : ~(Serves(c, q) /\ Changes(c) /\ Owes(c, k))
      BY <1>1, <1>6 DEF Serves, Changes, Owes, Writes
    <2>3. \A k \in Keys : Matches(q, k)'
      BY <2>1, <2>2, <1>1 DEF RowsSettled, AccountedFor, Matches
    <2> QED  BY <2>3, <1>2 DEF RowsSettled, AloneOn, AccountedFor, Serves
  <1> QED  BY <1>4, <1>5, <1>6

---------------------------------------------------------------------------
LEMMA InitSettled ==
  ASSUME RowCacheInit
  PROVE  CacheInv
  <1>1. \A c \in RowCalls : calls[c] = IdleRowCall /\ ~Serving(c)
    BY DEF RowCacheInit, Serving, IdleRowCall
  <1>2. IdleRowCall \in RowCall  BY DEF IdleRowCall, RowCall, RowSteps, Ops, KeyLists
  <1>3. CacheTyped  BY <1>2 DEF RowCacheInit, CacheTyped, NoEntry
  <1>4. CallsInOrder  BY <1>1 DEF CallsInOrder
  <1>5. NumberedByCommits /\ OwnKeysOnly
    BY DEF RowCacheInit, NumberedByCommits, OwnKeysOnly
  <1>6. \A r \in CachedRows : RowsSettled(r)
    BY <1>1 DEF RowsSettled, AloneOn, Serves, AccountedFor, Matches, RowCacheInit
  <1> QED  BY <1>3, <1>4, <1>5, <1>6 DEF CacheInv

LEMMA StepKeeps ==
  ASSUME CacheInv, [RowCacheNext]_rowCacheVars
  PROVE  CacheInv'
  <1>1. CASE UNCHANGED rowCacheVars
    <2>1. UNCHANGED <<kind, rows, commits, entries, calls, strayed>>  BY <1>1 DEF rowCacheVars
    <2>2. CacheTyped' /\ CallsInOrder' /\ NumberedByCommits' /\ OwnKeysOnly'
      BY <2>1 DEF CacheInv, CacheTyped, CallsInOrder, NumberedByCommits, OwnKeysOnly,
                  Serving, Changes, KeysOf
    <2>3. \A r \in CachedRows : r \notin strayed' => RowsSettled(r)'
      BY <2>1 DEF CacheInv, RowsSettled, AloneOn, Serves, Serving, Changes, HoldsRow,
                  AccountedFor, Matches, Owes, KeysOf
    <2> QED  BY <2>2, <2>3 DEF CacheInv
  <1>2. ASSUME NEW c \in RowCalls, BeginRowCall(c)  PROVE CacheInv'  BY <1>2, BeginKeeps
  <1>3. ASSUME NEW c \in RowCalls, ServeRowCall(c)  PROVE CacheInv'
    BY <1>3, LookUpKeeps, RefuseKeeps, CommitKeeps, DeleteKeeps, RefreshKeeps, WriteKeeps,
       RedisFailsKeeps DEF ServeRowCall
  <1>4. ASSUME NEW r \in CachedRows, UnlinkTruck(r)  PROVE CacheInv'  BY <1>4, UnlinkKeeps
  <1> QED  BY <1>1, <1>2, <1>3, <1>4, TickKeeps, CrashKeeps DEF RowCacheNext

(* The invariant holds in every state of backend-fastapi's entries. *)
THEOREM CacheInvariant == RowCacheSpec => []CacheInv
  BY InitSettled, StepKeeps, PTL DEF RowCacheSpec

(* A row nobody works on and that has not strayed is followed by its entries: *)
(* what one call at a time does to a row, at any point of it, leaves no stale  *)
(* entry behind.                                                           *)
THEOREM EntryAlwaysFollowsRow == RowCacheSpec => []EntryFollowsRow
  <1>1. CacheInv => EntryFollowsRow
    BY DEF CacheInv, RowsSettled, AccountedFor, Matches, Serves, EntryFollowsRow
  <1> QED  BY <1>1, CacheInvariant, PTL

---------------------------------------------------------------------------
(***************************************************************************)
(* The bound on commits: a call begins to change a row only while the commits   *)
(* and the calls that change it leave room, so that room is left for the       *)
(* commit of every call that has yet to make its own.  Versions in hand and in *)
(* entries are then within the bound too.                                   *)
(***************************************************************************)
Committing(r) == {d \in RowCalls : calls[d].step = "commit" /\ calls[d].row = r}
Writers(r) == {d \in RowCalls : Writes(d) /\ calls[d].row = r}
RoomFor(r) == commits[r] + Cardinality(Committing(r)) <= MaxCommits
CallBounded(c) == /\ calls[c].version \in 0..MaxCommits
                  /\ calls[c].step # "write" => calls[c].todo = <<>>

WithinBounds ==
    /\ \A r \in CachedRows : RoomFor(r)
    /\ \A c \in RowCalls : CallBounded(c)
    /\ entries \in [CachedRows -> [Keys -> Entry \cup {NoEntry}]]

LEMMA CountedCalls ==
  ASSUME NEW r
  PROVE  /\ IsFiniteSet(Committing(r)) /\ Cardinality(Committing(r)) \in Nat
         /\ IsFiniteSet(Writers(r)) /\ Cardinality(Writers(r)) \in Nat
  <1>1. Committing(r) \in SUBSET RowCalls /\ Writers(r) \in SUBSET RowCalls
    BY DEF Committing, Writers
  <1> QED  BY <1>1, RowCacheConstants, FS_Subset, FS_CardinalityType

\* The rooms there are bound the commits, and with them the rows.
LEMMA RoomBounds ==
  ASSUME CacheTyped, NumberedByCommits, NEW r \in CachedRows, RoomFor(r)
  PROVE  commits[r] \in 0..MaxCommits /\ rows[r] \in 0..MaxCommits
  <1>1. commits[r] \in Nat /\ rows[r] \in {0, commits[r]} /\ Cardinality(Committing(r)) \in Nat
    BY CountedCalls DEF CacheTyped, NumberedByCommits
  <1> QED  BY <1>1, RowCacheConstants DEF RoomFor

\* Nothing new is about to commit on r, and r has not been committed.
LEMMA RoomStays ==
  ASSUME NEW r \in CachedRows, RoomFor(r), commits \in [CachedRows -> Nat], commits'[r] = commits[r],
         Committing(r)' \subseteq Committing(r)
  PROVE  RoomFor(r)'
  <1>1. Cardinality(Committing(r)') <= Cardinality(Committing(r))  BY CountedCalls, FS_Subset
  <1>2. IsFiniteSet(Committing(r)') /\ Cardinality(Committing(r)') \in Nat
    BY CountedCalls, FS_Subset, FS_CardinalityType
  <1>3. commits[r] \in Nat /\ Cardinality(Committing(r)) \in Nat  BY CountedCalls
  <1> QED  BY <1>1, <1>2, <1>3, RowCacheConstants DEF RoomFor

\* The commit of c takes the room that was left for it.
LEMMA RoomIsTaken ==
  ASSUME NEW r \in CachedRows, RoomFor(r), commits \in [CachedRows -> Nat],
         commits'[r] = commits[r] \/ commits'[r] = commits[r] + 1,
         NEW c \in Committing(r), Committing(r)' \subseteq Committing(r) \ {c}
  PROVE  RoomFor(r)'
  <1>1. /\ IsFiniteSet(Committing(r) \ {c})
        /\ Cardinality(Committing(r) \ {c}) = Cardinality(Committing(r)) - 1
    BY CountedCalls, FS_RemoveElement
  <1>2. /\ Cardinality(Committing(r)') <= Cardinality(Committing(r) \ {c})
        /\ IsFiniteSet(Committing(r)')
    BY <1>1, FS_Subset
  <1>3. Cardinality(Committing(r)') \in Nat  BY <1>2, FS_CardinalityType
  <1>4. commits[r] \in Nat /\ Cardinality(Committing(r)) \in Nat  BY CountedCalls
  <1> QED  BY <1>1, <1>2, <1>3, <1>4, RowCacheConstants DEF RoomFor

\* While the writers leave room, one of them more, or one more commit, is within it.
LEMMA RoomIsLeft ==
  ASSUME NEW r \in CachedRows, commits \in [CachedRows -> Nat],
         commits[r] + Cardinality(Writers(r)) < MaxCommits
  PROVE  /\ \A c : commits'[r] = commits[r] /\ Committing(r)' \subseteq Writers(r) \cup {c}
                      => RoomFor(r)'
         /\ commits'[r] = commits[r] + 1 /\ Committing(r)' \subseteq Writers(r) => RoomFor(r)'
  <1>1. IsFiniteSet(Writers(r)) /\ Cardinality(Writers(r)) \in Nat /\ commits[r] \in Nat
    BY CountedCalls
  <1>2. ASSUME NEW c, commits'[r] = commits[r], Committing(r)' \subseteq Writers(r) \cup {c}
        PROVE  RoomFor(r)'
    <2>1. /\ IsFiniteSet(Writers(r) \cup {c})
          /\ Cardinality(Writers(r) \cup {c}) <= Cardinality(Writers(r)) + 1
          /\ Cardinality(Writers(r) \cup {c}) \in Nat
      <3> PICK W : W = Writers(r)  OBVIOUS
      <3>1. IsFiniteSet(W) /\ Cardinality(W) \in Nat  BY <1>1
      <3>2. /\ IsFiniteSet(W \cup {c})
            /\ Cardinality(W \cup {c}) = IF c \in W THEN Cardinality(W) ELSE Cardinality(W) + 1
        BY <3>1, FS_AddElement
      <3> QED  BY <3>1, <3>2
    <2>2. IsFiniteSet(Committing(r)')
          /\ Cardinality(Committing(r)') <= Cardinality(Writers(r) \cup {c})
      BY <1>2, <2>1, FS_Subset
    <2>3. Cardinality(Committing(r)') \in Nat  BY <2>2, FS_CardinalityType
    <2> QED  BY <1>1, <1>2, <2>1, <2>2, <2>3, RowCacheConstants DEF RoomFor
  <1>3. ASSUME commits'[r] = commits[r] + 1, Committing(r)' \subseteq Writers(r)
        PROVE  RoomFor(r)'
    <2>1. IsFiniteSet(Committing(r)') /\ Cardinality(Committing(r)') <= Cardinality(Writers(r))
      BY <1>1, <1>3, FS_Subset
    <2>2. Cardinality(Committing(r)') \in Nat  BY <2>1, FS_CardinalityType
    <2> QED  BY <1>1, <1>3, <2>1, <2>2, RowCacheConstants DEF RoomFor
  <1> QED  BY <1>2, <1>3

LEMMA CommittersWrite == ASSUME CacheInv, NEW r PROVE Committing(r) \subseteq Writers(r)
  BY DEF CacheInv, CallsInOrder, Committing, Writers, Writes, Serving, Changes

LEMMA BoundsAtStart == RowCacheInit => WithinBounds
  <1> SUFFICES ASSUME RowCacheInit PROVE WithinBounds  OBVIOUS
  <1>1. \A r \in CachedRows : Committing(r) = {}
    BY DEF RowCacheInit, Committing, IdleRowCall
  <1>2. ASSUME NEW r \in CachedRows PROVE RoomFor(r)
    <2>1. Cardinality(Committing(r)) = 0  BY <1>1, FS_EmptySet
    <2>2. commits[r] \in {0, 1}  BY DEF RowCacheInit
    <2> QED  BY <2>1, <2>2, RowCacheConstants DEF RoomFor
  <1>3. \A c \in RowCalls : CallBounded(c)
    BY RowCacheConstants DEF RowCacheInit, CallBounded, IdleRowCall
  <1>4. entries \in [CachedRows -> [Keys -> Entry \cup {NoEntry}]]  BY DEF RowCacheInit
  <1> QED  BY <1>2, <1>3, <1>4 DEF WithinBounds

\* A step of one call that is about no commit, and leaves it bounded.
LEMMA OneCallBounded ==
  ASSUME CacheInv, WithinBounds, NEW c \in RowCalls, commits' = commits, CallBounded(c)',
         calls'[c].step # "commit", \A d \in RowCalls \ {c} : calls'[d] = calls[d],
         entries' \in [CachedRows -> [Keys -> Entry \cup {NoEntry}]]
  PROVE  WithinBounds'
  <1>1. ASSUME NEW r \in CachedRows PROVE RoomFor(r)'
    <2>1. Committing(r)' \subseteq Committing(r)  BY DEF Committing
    <2>2. commits'[r] = commits[r] /\ RoomFor(r) /\ commits \in [CachedRows -> Nat]
      BY DEF WithinBounds, CacheInv, CacheTyped
    <2> QED  BY <2>1, <2>2, RoomStays
  <1>2. \A d \in RowCalls : CallBounded(d)'  BY DEF CallBounded, WithinBounds
  <1> QED  BY <1>1, <1>2 DEF WithinBounds

LEMMA EndedBounded ==
  ASSUME CacheInv, NEW c \in RowCalls, EndRowCall(c)
  PROVE  /\ CallBounded(c)' /\ calls'[c].step # "commit"
         /\ \A d \in RowCalls \ {c} : calls'[d] = calls[d]
  BY RowCacheConstants DEF EndRowCall, IdleRowCall, CallBounded, CacheInv, CacheTyped

LEMMA WritingBounded ==
  ASSUME CacheInv, NEW c \in RowCalls, NEW version \in 0..MaxCommits, NEW ks,
         ToWrite(c, version, ks)
  PROVE  /\ CallBounded(c)' /\ calls'[c].step # "commit"
         /\ \A d \in RowCalls \ {c} : calls'[d] = calls[d]
  <1>1. calls \in [RowCalls -> RowCall]  BY DEF CacheInv, CacheTyped
  <1> QED  BY <1>1 DEF ToWrite, CallBounded, RowCall

LEMMA BeginBounded ==
  ASSUME CacheInv, WithinBounds, NEW c \in RowCalls, BeginRowCall(c)
  PROVE  WithinBounds'
  <1>1. PICK r \in CachedRows : \E op \in OpsOf[kind[r]] :
          /\ ~Serving(c)
          /\ op \notin Reads => commits[r] + Cardinality(Writers(r)) < MaxCommits
          /\ calls' = [calls EXCEPT ![c] = [step |-> IF op \in Reads THEN "lookup" ELSE "commit",
                         op |-> op, row |-> r, version |-> rows[r], todo |-> <<>>]]
          /\ UNCHANGED <<kind, rows, commits, entries>>
    BY DEF BeginRowCall, Writers
  <1>2. PICK op \in OpsOf[kind[r]] :
          /\ ~Serving(c)
          /\ op \notin Reads => commits[r] + Cardinality(Writers(r)) < MaxCommits
          /\ calls' = [calls EXCEPT ![c] = [step |-> IF op \in Reads THEN "lookup" ELSE "commit",
                         op |-> op, row |-> r, version |-> rows[r], todo |-> <<>>]]
          /\ UNCHANGED <<kind, rows, commits, entries>>
    BY <1>1
  <1>3. /\ calls'[c].step = (IF op \in Reads THEN "lookup" ELSE "commit")
        /\ calls'[c].row = r /\ calls'[c].version = rows[r] /\ calls'[c].todo = <<>>
        /\ \A d \in RowCalls \ {c} : calls'[d] = calls[d]
    BY <1>2 DEF CacheInv, CacheTyped
  <1>4. CallBounded(c)'
    <2>1. rows[r] \in 0..MaxCommits  BY RoomBounds DEF CacheInv, WithinBounds
    <2> QED  BY <1>3, <2>1 DEF CallBounded
  <1>5. entries' \in [CachedRows -> [Keys -> Entry \cup {NoEntry}]]  BY <1>2 DEF WithinBounds
  <1>6. CASE op \in Reads  BY <1>2, <1>3, <1>4, <1>5, <1>6, OneCallBounded
  <1>7. CASE op \notin Reads
    <2>1. ASSUME NEW q \in CachedRows PROVE RoomFor(q)'
      <3>1. RoomFor(q) /\ commits \in [CachedRows -> Nat] /\ commits'[q] = commits[q]
        BY <1>2 DEF WithinBounds, CacheInv, CacheTyped
      <3>2. CASE q = r
        <4>1. Committing(q)' \subseteq Writers(q) \cup {c}
          BY <1>3, CommittersWrite DEF Committing
        <4> QED  BY <1>2, <1>7, <3>1, <3>2, <4>1, RoomIsLeft
      <3>3. CASE q # r
        <4>1. Committing(q)' \subseteq Committing(q)  BY <1>3, <3>3 DEF Committing
        <4> QED  BY <3>1, <4>1, RoomStays
      <3> QED  BY <3>2, <3>3
    <2>2. \A d \in RowCalls : CallBounded(d)'  BY <1>3, <1>4 DEF CallBounded, WithinBounds
    <2> QED  BY <1>5, <2>1, <2>2 DEF WithinBounds
  <1> QED  BY <1>6, <1>7

\* A commit takes its room; the version numbered by it comes into hand later.
LEMMA CommitBounded ==
  ASSUME CacheInv, WithinBounds, NEW c \in RowCalls, CommitRow(c) \/ DeleteRow(c)
  PROVE  WithinBounds'
  <1> DEFINE r == calls[c].row
  <1>1. r \in CachedRows /\ c \in Committing(r) /\ calls \in [RowCalls -> RowCall]
        /\ commits \in [CachedRows -> Nat]
    BY DEF CommitRow, DeleteRow, Committing, CacheInv, CallsInOrder, Serving, CacheTyped
  <1>2. /\ commits'[r] = commits[r] \/ commits'[r] = commits[r] + 1
        /\ \A q \in CachedRows \ {r} : commits'[q] = commits[q]
    BY <1>1 DEF CommitRow, DeleteRow
  <1>3. /\ CallBounded(c)' /\ calls'[c].step # "commit"
        /\ \A d \in RowCalls \ {c} : calls'[d] = calls[d]
    <2>1. CASE EndRowCall(c)  BY <2>1, EndedBounded
    <2>2. CASE calls' = [calls EXCEPT ![c].step = "refresh"]
      <3>1. calls[c].step = "commit"  BY <1>1 DEF Committing
      <3> QED  BY <1>1, <2>2, <3>1 DEF WithinBounds, CallBounded, RowCall
    <2>3. CASE DeleteRow(c)
      <3>1. 0 \in 0..MaxCommits  BY RowCacheConstants
      <3>2. PICK ks : ToWrite(c, 0, ks)  BY <2>3 DEF DeleteRow
      <3> QED  BY <3>1, <3>2, WritingBounded
    <2> QED  BY <2>1, <2>2, <2>3 DEF CommitRow
  <1>4. ASSUME NEW q \in CachedRows PROVE RoomFor(q)'
    <2>1. RoomFor(q)  BY DEF WithinBounds
    <2>2. CASE q = r
      <3>1. Committing(q)' \subseteq Committing(q) \ {c}  BY <1>3 DEF Committing
      <3> QED  BY <1>1, <1>2, <2>1, <2>2, <3>1, RoomIsTaken
    <2>3. CASE q # r
      <3>1. Committing(q)' \subseteq Committing(q)  BY <1>3 DEF Committing
      <3> QED  BY <1>1, <1>2, <2>1, <2>3, <3>1, RoomStays
    <2> QED  BY <2>2, <2>3
  <1>5. \A d \in RowCalls : CallBounded(d)'  BY <1>3 DEF CallBounded, WithinBounds
  <1>6. entries' \in [CachedRows -> [Keys -> Entry \cup {NoEntry}]]
    BY DEF CommitRow, DeleteRow, WithinBounds
  <1> QED  BY <1>4, <1>5, <1>6 DEF WithinBounds

\* What an entry is given is a version in hand.
LEMMA EntryBounded ==
  ASSUME CacheInv, WithinBounds, NEW c \in RowCalls, WriteEntry(c)
  PROVE  WithinBounds'
  <1> DEFINE r == calls[c].row
             v == calls[c].version
             entry == IF v = 0 THEN NoEntry ELSE [version |-> v, left |-> EntryTtl]
  <1>1. /\ calls \in [RowCalls -> RowCall] /\ r \in CachedRows /\ v \in 0..MaxCommits
        /\ calls[c].step = "write" /\ calls[c].todo \in KeyLists /\ calls[c].todo # <<>>
    BY DEF WriteEntry, CacheInv, CallsInOrder, Serving, CacheTyped, WithinBounds, CallBounded,
           RowCall
  <1>2. Head(calls[c].todo) \in Keys  BY <1>1, KeyListParts DEF KeySet
  <1>3. entry \in Entry \cup {NoEntry}  BY <1>1, RowCacheConstants DEF Entry
  <1>4. entries' = [entries EXCEPT ![r][Head(calls[c].todo)] = entry]  BY DEF WriteEntry
  <1> HIDE DEF entry
  <1>5. entries' \in [CachedRows -> [Keys -> Entry \cup {NoEntry}]]
    BY <1>1, <1>2, <1>3, <1>4 DEF WithinBounds
  <1>6. /\ CallBounded(c)' /\ calls'[c].step # "commit"
        /\ \A d \in RowCalls \ {c} : calls'[d] = calls[d]
    <2>1. CASE EndRowCall(c)  BY <2>1, EndedBounded
    <2>2. CASE calls' = [calls EXCEPT ![c].todo = Tail(@)]
      <3>1. PICK rest : calls' = [calls EXCEPT ![c].todo = rest]  BY <2>2
      <3> QED  BY <1>1, <3>1 DEF CallBounded, RowCall
    <2> QED  BY <2>1, <2>2 DEF WriteEntry
  <1>7. commits' = commits  BY DEF WriteEntry
  <1> QED  BY <1>5, <1>6, <1>7, OneCallBounded

LEMMA CallBoundedKeeps ==
  ASSUME CacheInv, WithinBounds, NEW c \in RowCalls, ServeRowCall(c)
  PROVE  WithinBounds'
  <1>1. ASSUME EndRowCall(c), UNCHANGED <<commits, entries>> PROVE WithinBounds'
    BY <1>1, EndedBounded, OneCallBounded DEF WithinBounds
  <1>2. ASSUME NEW v \in 0..MaxCommits, NEW ks, ToWrite(c, v, ks), UNCHANGED <<commits, entries>>
        PROVE  WithinBounds'
    BY <1>2, WritingBounded, OneCallBounded DEF WithinBounds
  <1>3. CASE RefuseRow(c) \/ RedisFails(c)  BY <1>1, <1>3 DEF RefuseRow, RedisFails
  <1>4. CASE LookUpEntry(c)
    <2>1. calls[c].version \in 0..MaxCommits  BY DEF WithinBounds, CallBounded
    <2> QED  BY <1>1, <1>2, <1>4, <2>1 DEF LookUpEntry
  <1>5. CASE RefreshRow(c)
    <2>1. calls[c].row \in CachedRows
      BY <1>5 DEF RefreshRow, CacheInv, CallsInOrder, Serving
    <2>2. rows[calls[c].row] \in 0..MaxCommits  BY <2>1, RoomBounds DEF CacheInv, WithinBounds
    <2> QED  BY <1>1, <1>2, <1>5, <2>2 DEF RefreshRow, Refreshed
  <1> QED  BY <1>3, <1>4, <1>5, CommitBounded, EntryBounded DEF ServeRowCall

LEMMA UnlinkBounded ==
  ASSUME CacheInv, WithinBounds, NEW r \in CachedRows, UnlinkTruck(r)
  PROVE  WithinBounds'
  <1>1. /\ commits \in [CachedRows -> Nat] /\ commits'[r] = commits[r] + 1
        /\ \A q \in CachedRows \ {r} : commits'[q] = commits[q]
        /\ commits[r] + Cardinality(Writers(r)) < MaxCommits /\ UNCHANGED <<entries, calls>>
    BY DEF UnlinkTruck, CacheInv, CacheTyped, Writers
  <1>2. ASSUME NEW q \in CachedRows PROVE RoomFor(q)'
    <2>1. Committing(q)' = Committing(q)  BY <1>1 DEF Committing
    <2>2. CASE q = r  BY <1>1, <2>1, <2>2, CommittersWrite, RoomIsLeft
    <2>3. CASE q # r  BY <1>1, <2>1, <2>3, RoomStays DEF WithinBounds
    <2> QED  BY <2>2, <2>3
  <1> QED  BY <1>1, <1>2 DEF WithinBounds, CallBounded

LEMMA ExpiryBounded ==
  ASSUME CacheInv, WithinBounds, EntryTick
  PROVE  WithinBounds'
  <1>1. ASSUME NEW r \in CachedRows, NEW k \in Keys
        PROVE  (IF entries[r][k].left <= 1 THEN NoEntry ELSE [entries[r][k] EXCEPT !.left = @ - 1])
                  \in Entry \cup {NoEntry}
    <2>1. CASE entries[r][k] \in Entry
      <3>1. PICK v \in 1..MaxCommits, n \in 1..EntryTtl : entries[r][k] = [version |-> v, left |-> n]
        BY <2>1 DEF Entry
      <3>2. CASE n <= 1  BY <3>1, <3>2
      <3>3. CASE ~(n <= 1)
        <4>1. n - 1 \in 1..EntryTtl  BY <3>3, RowCacheConstants
        <4>2. [entries[r][k] EXCEPT !.left = @ - 1] = [version |-> v, left |-> n - 1]  BY <3>1
        <4> QED  BY <3>1, <3>3, <4>1, <4>2 DEF Entry
      <3> QED  BY <3>2, <3>3
    <2>2. CASE entries[r][k] = NoEntry  BY <2>2 DEF NoEntry
    <2> QED  BY <2>1, <2>2 DEF WithinBounds
  <1>2. entries' \in [CachedRows -> [Keys -> Entry \cup {NoEntry}]]  BY <1>1 DEF EntryTick
  <1>3. UNCHANGED <<commits, calls>>  BY DEF EntryTick
  <1> QED  BY <1>2, <1>3 DEF WithinBounds, RoomFor, Committing, CallBounded

LEMMA CrashBounded ==
  ASSUME CacheInv, WithinBounds, CrashFastApi
  PROVE  WithinBounds'
  <1>1. calls' = [c \in RowCalls |-> IdleRowCall] /\ UNCHANGED <<commits, entries>>
    BY DEF CrashFastApi
  <1>2. ASSUME NEW r \in CachedRows PROVE RoomFor(r)'
    <2>1. Committing(r)' \subseteq Committing(r)  BY <1>1 DEF Committing, IdleRowCall
    <2> QED  BY <1>1, <2>1, RoomStays DEF WithinBounds, CacheInv, CacheTyped
  <1>3. \A c \in RowCalls : CallBounded(c)'
    BY <1>1, RowCacheConstants DEF CallBounded, IdleRowCall
  <1> QED  BY <1>1, <1>2, <1>3 DEF WithinBounds

LEMMA BoundsStep == CacheInv /\ WithinBounds /\ [RowCacheNext]_rowCacheVars => WithinBounds'
  <1>1. ASSUME CacheInv, WithinBounds, UNCHANGED rowCacheVars PROVE WithinBounds'
    BY <1>1 DEF rowCacheVars, WithinBounds, RoomFor, Committing, CallBounded
  <1> QED
    BY <1>1, BeginBounded, CallBoundedKeeps, UnlinkBounded, ExpiryBounded, CrashBounded
       DEF RowCacheNext

LEMMA RowsTyped == CacheInv /\ WithinBounds => RowCacheTypeOK
  <1> SUFFICES ASSUME CacheInv, WithinBounds PROVE RowCacheTypeOK  OBVIOUS
  <1>1. commits \in [CachedRows -> 0..MaxCommits]
    <2>1. \A r \in CachedRows : commits[r] \in 0..MaxCommits
      BY RoomBounds DEF CacheInv, WithinBounds
    <2> QED  BY <2>1 DEF CacheInv, CacheTyped
  <1>2. ASSUME NEW c \in RowCalls
        PROVE  /\ calls[c].step \in {"idle", "commit", "lookup", "refresh", "write"}
               /\ Serving(c) => calls[c].row \in CachedRows /\ calls[c].op \in OpsOf[kind[calls[c].row]]
               /\ (calls[c].step = "write") = (calls[c].todo # <<>>)
    <2>1. calls[c] \in RowCall  BY DEF CacheInv, CacheTyped
    <2>2. calls[c].step = "write" => calls[c].todo # <<>>
      BY DEF CacheInv, CallsInOrder, Serving
    <2>3. calls[c].step # "write" => calls[c].todo = <<>>  BY DEF WithinBounds, CallBounded
    <2>4. calls[c].step \in {"idle", "commit", "lookup", "refresh", "write"}
      BY <2>1 DEF RowCall, RowSteps
    <2> QED  BY <2>2, <2>3, <2>4 DEF CacheInv, CallsInOrder
  <1> QED  BY <1>1, <1>2 DEF CacheInv, CacheTyped, NumberedByCommits, WithinBounds, RowCacheTypeOK

(* For any rows, calls and lifetimes: no row is committed beyond the bound that  *)
(* calls leave room for when they begin, and every version in an entry or in    *)
(* the hand of a call is one a commit has given.                             *)
THEOREM RowCacheTypes == RowCacheSpec => []RowCacheTypeOK
  BY InitSettled, StepKeeps, BoundsAtStart, BoundsStep, RowsTyped, PTL DEF RowCacheSpec

---------------------------------------------------------------------------
\* The optimizer.  The stops seen from i are as far as those seen from the origin.
AtOrigin(i) == \A c \in Places : HaversineKm[Stop(i).place][c] = HaversineKm[trip.origem.place][c]

\* What the request and the loops hold at each stage.
OptimizerShape ==
    /\ OptimizerTypeOK
    /\ stage = "new" => ordered = <<>> /\ optimized = <<>> /\ looked = 0 /\ unvisited = {}
    /\ stage = "order" => optimized = <<>> /\ looked = 0 /\ Len(trip.waypoints) > 1
    /\ stage \in {"order", "drop"} => ordered # <<>> /\ ordered[1] = 1
    /\ stage = "drop" => unvisited = {}

\* The order never goes twice to a stop.
VisitedOnce ==
    /\ \A k, l \in DOMAIN ordered : ordered[k] = ordered[l] => k = l
    /\ \A k \in DOMAIN ordered : ordered[k] \notin unvisited

\* With two waypoints or more, every stop of the order was the nearest of all that were
\* left, and the stops before one with the origin's body are where the origin is.
OrderIsGreedy ==
    stage \in {"order", "drop"} /\ Len(trip.waypoints) > 1 =>
       /\ \A k \in DOMAIN ordered : \A l \in (k + 2)..Len(ordered) :
             Km(ordered[k], ordered[k + 1]) <= Km(ordered[k], ordered[l])
       /\ \A k \in 1..(Len(ordered) - 1) : \A i \in unvisited :
             Km(ordered[k], ordered[k + 1]) <= Km(ordered[k], i)
       /\ Len(ordered) > 1 =>
             /\ \A i \in Stops : Readable(i)
             /\ \A l \in DOMAIN ordered :
                   IsOrigin(ordered[l]) => \A k \in 1..l : AtOrigin(ordered[k])
             /\ (\E i \in unvisited : IsOrigin(i)) => \A k \in DOMAIN ordered : AtOrigin(ordered[k])

\* The comprehension has kept what it has looked at and does not equal the origin.
KeptSoFar ==
    stage = "drop" =>
       /\ \A k \in DOMAIN optimized :
             ~IsOrigin(optimized[k]) /\ \E n \in 1..looked : optimized[k] = ordered[n]
       /\ \A n \in 1..looked :
             IsOrigin(ordered[n]) \/ \E k \in DOMAIN optimized : optimized[k] = ordered[n]
       /\ \A k, l \in DOMAIN optimized : optimized[k] = optimized[l] => k = l

\* What the next stop of the answer is measured from.
Front == Before(Len(optimized) + 1)

KeptIsGreedy ==
    stage = "drop" /\ Len(trip.waypoints) > 1 =>
       /\ looked > 0 => \A c \in Places :
             HaversineKm[Stop(Front).place][c] = HaversineKm[Stop(ordered[looked]).place][c]
       /\ \A k \in DOMAIN optimized :
             /\ \A l \in (k + 1)..Len(optimized) :
                   Km(Before(k), optimized[k]) <= Km(Before(k), optimized[l])
             /\ \A n \in (looked + 1)..Len(ordered) :
                   Km(Before(k), optimized[k]) <= Km(Before(k), ordered[n])

OptimizerInv ==
    /\ OptimizerShape /\ VisitedOnce /\ OrderIsGreedy /\ KeptSoFar /\ KeptIsGreedy
    /\ EachWaypointOnce /\ NearestFirst

\* A request has a point at every stop.
LEMMA TripParts ==
  ASSUME trip \in Bodies
  PROVE  /\ trip.origem \in Points /\ trip.waypoints \in Seq(Points)
         /\ Len(trip.waypoints) \in Nat /\ 1 \in Stops
         /\ \A i \in Stops : Stop(i) \in Points
<1>1. PICK n \in 0..MaxWaypoints : trip.waypoints \in [1..n -> Points]
  BY DEF Bodies
<1>2. trip.waypoints \in Seq(Points) /\ Len(trip.waypoints) = n
  BY <1>1 DEF RouteOptimizerConstants
<1>3. trip.origem \in Points
  BY DEF Bodies
<1>. QED  BY <1>1, <1>2, <1>3 DEF Stops, Stop

LEMMA KmIsNat ==
  ASSUME NEW i \in Stops, NEW j \in Stops, Readable(i), Readable(j)
  PROVE  Km(i, j) \in Nat
  BY RouteOptimizerConstants DEF Km, Readable

\* A stop at distance 0 of one that is where the origin is, is there as well.
LEMMA AlsoAtOrigin ==
  ASSUME NEW i \in Stops, NEW j \in Stops, Readable(i), Readable(j), AtOrigin(i), Km(i, j) = 0
  PROVE  AtOrigin(j)
  BY RouteOptimizerConstants DEF Km, Readable, AtOrigin

LEMMA OptimizerStarts == OptimizerInit => OptimizerInv
<1>. SUFFICES ASSUME OptimizerInit PROVE OptimizerInv  OBVIOUS
<1>. USE DEF OptimizerInit
<1>1. OptimizerTypeOK
  BY DEF OptimizerTypeOK
<1>2. OptimizerShape /\ VisitedOnce
  BY <1>1 DEF OptimizerShape, VisitedOnce
<1>. QED
  BY <1>1, <1>2 DEF OptimizerInv, OrderIsGreedy, KeptSoFar, KeptIsGreedy, EachWaypointOnce, NearestFirst

LEMMA RefuseOrRaiseKeeps ==
  ASSUME OptimizerInv, RefusePoints \/ OrderRaises
  PROVE  OptimizerInv'
<1>1. stage' \in {"refused", "error"} /\ UNCHANGED <<trip, ordered, unvisited, optimized, looked>>
  BY DEF RefusePoints, OrderRaises
<1>2. OptimizerShape'
  BY <1>1 DEF OptimizerInv, OptimizerShape, OptimizerTypeOK, Stops, Bodies
<1>3. VisitedOnce'
  BY <1>1 DEF OptimizerInv, VisitedOnce
<1>. QED
  BY <1>1, <1>2, <1>3 DEF OptimizerInv, OrderIsGreedy, KeptSoFar, KeptIsGreedy,
     EachWaypointOnce, NearestFirst

LEMMA StartOrderKeeps ==
  ASSUME OptimizerInv, StartOrder
  PROVE  OptimizerInv'
<1>. USE DEF OptimizerInv, OptimizerShape, OptimizerTypeOK, StartOrder
<1>1. /\ trip' = trip /\ optimized' = <<>> /\ looked' = 0 /\ optimized = <<>> /\ looked = 0
      /\ ordered = <<>> /\ unvisited = {} /\ trip \in Bodies /\ Bodies' = Bodies
  BY DEF Bodies
<1>2. Stops' = Stops /\ (\A i : Stop(i)' = Stop(i)) /\ \A i, j : Km(i, j)' = Km(i, j)
  BY <1>1 DEF Stops, Stop, Km
<1>3. Len(trip.waypoints) \in Nat
  BY <1>1, TripParts
<1>4. CASE trip.waypoints = <<>>
  <2>1. stage' = "answered" /\ ordered' = <<>> /\ unvisited' = {}
    BY <1>1, <1>4
  <2>2. OptimizerShape' /\ VisitedOnce'
    BY <1>1, <1>2, <2>1 DEF VisitedOnce
  <2>3. \A i \in Stops : Stop(i) = trip.origem
    BY <1>4 DEF Stops, Stop
  <2>. QED
    BY <1>1, <1>2, <2>1, <2>2, <2>3 DEF OrderIsGreedy, KeptSoFar, KeptIsGreedy,
       EachWaypointOnce, NearestFirst
<1>5. CASE Len(trip.waypoints) = 1
  <2>1. stage' = "drop" /\ ordered' = <<1, 2>> /\ unvisited' = {}
    BY <1>1, <1>5
  <2>2. Stops = {1, 2}
    BY <1>5 DEF Stops
  <2>3. OptimizerShape' /\ VisitedOnce'
    BY <1>1, <1>2, <1>5, <2>1, <2>2 DEF VisitedOnce
  <2>. QED
    BY <1>1, <1>2, <1>5, <2>1, <2>3 DEF OrderIsGreedy, KeptSoFar, KeptIsGreedy,
       EachWaypointOnce, NearestFirst
<1>6. CASE trip.waypoints # <<>> /\ Len(trip.waypoints) # 1
  <2>1. stage' = "order" /\ ordered' = <<1>> /\ unvisited' = Stops \ {1}
    BY <1>1, <1>6
  <2>2. Len(trip.waypoints) > 1
    BY <1>1, <1>3, <1>6, TripParts, EmptySeq
  <2>3. OptimizerShape' /\ VisitedOnce'
    BY <1>1, <1>2, <1>3, <2>1, <2>2, TripParts DEF VisitedOnce
  <2>4. OrderIsGreedy'
    BY <2>1 DEF OrderIsGreedy
  <2>. QED
    BY <2>1, <2>3, <2>4 DEF KeptSoFar, KeptIsGreedy, EachWaypointOnce, NearestFirst
<1>. QED  BY <1>4, <1>5, <1>6

LEMMA VisitNearestKeeps ==
  ASSUME OptimizerInv, VisitNearest
  PROVE  OptimizerInv'
<1>. USE DEF OptimizerInv, OptimizerShape, OptimizerTypeOK
<1>1. PICK i \in unvisited : /\ Nearest(i)
                             /\ ordered' = Append(ordered, i) /\ unvisited' = unvisited \ {i}
  BY DEF VisitNearest
<1>2. /\ stage = "order" /\ stage' = "order" /\ UNCHANGED <<trip, optimized, looked>>
      /\ Len(trip.waypoints) > 1 /\ ordered # <<>> /\ ordered[1] = 1
      /\ ordered \in Seq(Stops) /\ i \in Stops /\ unvisited \subseteq Stops
      /\ optimized = <<>> /\ looked = 0
  BY DEF VisitNearest
<1>3. /\ Stops' = Stops /\ Bodies' = Bodies /\ (\A j : Stop(j)' = Stop(j))
      /\ (\A j, k : Km(j, k)' = Km(j, k)) /\ (\A j : AtOrigin(j)' = AtOrigin(j))
      /\ (\A j : IsOrigin(j)' = IsOrigin(j)) /\ (\A j : Readable(j)' = Readable(j))
  BY <1>2 DEF Stops, Bodies, Stop, Km, AtOrigin, IsOrigin, Readable
<1>. DEFINE n == Len(ordered)
<1>4. /\ n \in Nat /\ n >= 1 /\ Last = ordered[n] /\ Last \in Stops
      /\ Len(ordered') = n + 1 /\ DOMAIN ordered' = 1..(n + 1) /\ DOMAIN ordered = 1..n
      /\ ordered'[n + 1] = i /\ (\A k \in 1..n : ordered'[k] = ordered[k] /\ ordered[k] \in Stops)
      /\ ordered' \in Seq(Stops) /\ ordered' # <<>> /\ ordered'[1] = 1
  BY <1>1, <1>2, EmptySeq DEF Last
<1>5. Stops = unvisited \cup {ordered[k] : k \in DOMAIN ordered}
  BY <1>2
<1>6. \A j \in Stops : Readable(j)
  <2>1. \A j \in unvisited \cup {Last} : Readable(j)
    BY DEF VisitNearest
  <2>2. CASE n = 1
    BY <1>4, <1>5, <2>1, <2>2
  <2>3. CASE n > 1
    BY <1>2, <2>3 DEF OrderIsGreedy
  <2>. HIDE DEF n
  <2>. QED  BY <1>4, <2>2, <2>3
<1>7. OptimizerShape'
  <2>1. Stops = unvisited' \cup {ordered'[k] : k \in DOMAIN ordered'}
    <3>1. ASSUME NEW j \in Stops  PROVE j \in unvisited' \cup {ordered'[k] : k \in DOMAIN ordered'}
      <4>1. CASE j \in unvisited
        BY <1>1, <1>4, <4>1
      <4>2. CASE j \notin unvisited
        <5>1. PICK k \in DOMAIN ordered : j = ordered[k]
          BY <1>5, <4>2
        <5>. QED  BY <1>4, <5>1
      <4>. QED  BY <4>1, <4>2
    <3>2. unvisited' \subseteq Stops /\ \A k \in DOMAIN ordered' : ordered'[k] \in Stops
      BY <1>1, <1>2, <1>4
    <3>. QED  BY <3>1, <3>2
  <2>2. optimized' \in Seq(Stops') /\ looked' \in 0..Len(ordered')
    BY <1>2, <1>3, <1>4
  <2>3. ordered' \in Seq(Stops') /\ unvisited' \subseteq Stops' /\ trip' \in Bodies'
    BY <1>1, <1>2, <1>3, <1>4
  <2>4. OptimizerTypeOK'
    BY <1>2, <1>3, <2>1, <2>2, <2>3
  <2>. HIDE DEF OptimizerTypeOK, n
  <2>. QED  BY <1>2, <1>4, <2>4
<1>8. VisitedOnce'
  BY <1>1, <1>4 DEF VisitedOnce
<1>9. OrderIsGreedy'
  <2>1. /\ \A k \in 1..n : \A l \in (k + 2)..n :
              Km(ordered[k], ordered[k + 1]) <= Km(ordered[k], ordered[l])
        /\ \A k \in 1..(n - 1) : \A j \in unvisited :
              Km(ordered[k], ordered[k + 1]) <= Km(ordered[k], j)
    BY <1>2, <1>4 DEF OrderIsGreedy
  <2>2. \A j \in unvisited : Km(ordered[n], i) <= Km(ordered[n], j)
    BY <1>1, <1>4 DEF Nearest
  <2>3. \A k \in 1..(n + 1) : \A l \in (k + 2)..(n + 1) :
              Km(ordered'[k], ordered'[k + 1]) <= Km(ordered'[k], ordered'[l])
    <3>. SUFFICES ASSUME NEW k \in 1..(n + 1), NEW l \in (k + 2)..(n + 1)
                  PROVE  Km(ordered'[k], ordered'[k + 1]) <= Km(ordered'[k], ordered'[l])
      OBVIOUS
    <3>. HIDE DEF n
    <3>1. CASE l = n + 1
      BY <1>4, <2>1, <3>1
    <3>2. CASE l # n + 1
      BY <1>4, <2>1, <3>2
    <3>. QED  BY <3>1, <3>2
  <2>4. \A k \in 1..n : \A j \in unvisited' :
              Km(ordered'[k], ordered'[k + 1]) <= Km(ordered'[k], j)
    <3>. SUFFICES ASSUME NEW k \in 1..n, NEW j \in unvisited'
                  PROVE  Km(ordered'[k], ordered'[k + 1]) <= Km(ordered'[k], j)
      OBVIOUS
    <3>. HIDE DEF n
    <3>1. CASE k = n
      BY <1>1, <1>4, <2>2, <3>1
    <3>2. CASE k # n
      BY <1>1, <1>4, <2>1, <3>2
    <3>. QED  BY <3>1, <3>2
  <2>5. (\E j \in unvisited : IsOrigin(j)) => \A k \in 1..(n + 1) : AtOrigin(ordered'[k])
    <3>. SUFFICES ASSUME NEW j \in unvisited, IsOrigin(j)
                  PROVE  \A k \in 1..(n + 1) : AtOrigin(ordered'[k])
      OBVIOUS
    <3>1. \A k \in 1..n : AtOrigin(ordered[k])
      <4>1. CASE n = 1
        BY <1>2, <1>4, <4>1 DEF AtOrigin, Stop
      <4>2. CASE n > 1
        BY <1>2, <1>4, <4>2 DEF OrderIsGreedy
      <4>. HIDE DEF n
      <4>. QED  BY <1>4, <4>1, <4>2
    <3>2. Km(Last, j) = 0
      <4>1. trip.origem.place \in Places /\ Stop(j).place = trip.origem.place
        BY <1>2, <1>6 DEF IsOrigin, Readable
      <4>. QED  BY <1>4, <3>1, <4>1, RouteOptimizerConstants DEF AtOrigin, Km
    <3>3. Km(Last, i) = 0
      <4>1. Km(Last, i) \in Nat
        BY <1>2, <1>4, <1>6, KmIsNat
      <4>2. Km(Last, i) <= Km(Last, j)
        BY <1>4, <2>2
      <4>. HIDE DEF n
      <4>. QED  BY <3>2, <4>1, <4>2
    <3>4. AtOrigin(i)
      BY <1>2, <1>4, <1>6, <3>1, <3>3, AlsoAtOrigin
    <3>. QED  BY <1>4, <3>1, <3>4
  <2>6. \A l \in 1..(n + 1) : IsOrigin(ordered'[l]) => \A k \in 1..l : AtOrigin(ordered'[k])
    <3>. SUFFICES ASSUME NEW l \in 1..(n + 1), IsOrigin(ordered'[l])
                  PROVE  \A k \in 1..l : AtOrigin(ordered'[k])
      OBVIOUS
    <3>. HIDE DEF n
    <3>1. CASE l = n + 1
      BY <1>4, <2>5, <3>1
    <3>2. CASE l # n + 1 /\ n > 1
      BY <1>2, <1>4, <3>2 DEF OrderIsGreedy
    <3>3. CASE l # n + 1 /\ n = 1
      BY <1>2, <1>4, <3>3 DEF AtOrigin, Stop
    <3>. QED  BY <1>4, <3>1, <3>2, <3>3
  <2>7. (\E j \in unvisited' : IsOrigin(j)) => \A k \in 1..(n + 1) : AtOrigin(ordered'[k])
    BY <1>1, <2>5
  <2>. HIDE DEF n
  <2>. QED
    BY <1>2, <1>3, <1>4, <1>6, <2>3, <2>4, <2>6, <2>7 DEF OrderIsGreedy
<1>. QED
  BY <1>2, <1>7, <1>8, <1>9 DEF KeptSoFar, KeptIsGreedy, EachWaypointOnce, NearestFirst

\* Steps that leave the request alone leave what is computed from it.
LEMMA SameTrip ==
  ASSUME trip' = trip
  PROVE  /\ Stops' = Stops /\ Bodies' = Bodies /\ (\A j : Stop(j)' = Stop(j))
         /\ (\A j, k : Km(j, k)' = Km(j, k)) /\ (\A j : AtOrigin(j)' = AtOrigin(j))
         /\ (\A j : IsOrigin(j)' = IsOrigin(j)) /\ (\A j : Readable(j)' = Readable(j))
  BY DEF Stops, Bodies, Stop, Km, AtOrigin, IsOrigin, Readable

LEMMA EndOrderKeeps ==
  ASSUME OptimizerInv, EndOrder
  PROVE  OptimizerInv'
<1>1. /\ stage = "order" /\ stage' = "drop" /\ UNCHANGED <<trip, ordered, unvisited, optimized, looked>>
      /\ unvisited = {} /\ optimized = <<>> /\ looked = 0
  BY DEF EndOrder, OptimizerInv, OptimizerShape
<1>3. OptimizerShape'
  BY <1>1, SameTrip DEF OptimizerInv, OptimizerShape, OptimizerTypeOK
<1>4. OrderIsGreedy'
  BY <1>1, SameTrip DEF OptimizerInv, OrderIsGreedy
<1>5. VisitedOnce'
  BY <1>1 DEF OptimizerInv, VisitedOnce
<1>. QED
  BY <1>1, <1>3, <1>4, <1>5 DEF OptimizerInv, KeptSoFar, KeptIsGreedy, EachWaypointOnce, NearestFirst

\* What the comprehension has at hand.
LEMMA Dropping ==
  ASSUME OptimizerInv, DropOrigin
  PROVE  /\ stage = "drop" /\ looked < Len(ordered) /\ looked' = looked + 1
         /\ UNCHANGED <<stage, trip, ordered, unvisited>>
         /\ ordered \in Seq(Stops) /\ looked \in Nat /\ optimized \in Seq(Stops)
         /\ Len(optimized) \in Nat /\ DOMAIN optimized = 1..Len(optimized)
         /\ Len(ordered) \in Nat /\ DOMAIN ordered = 1..Len(ordered)
         /\ looked + 1 \in DOMAIN ordered /\ ordered[1] = 1 /\ ordered[looked + 1] \in Stops
         /\ OrderIsGreedy /\ VisitedOnce /\ KeptSoFar /\ KeptIsGreedy
  BY DEF DropOrigin, OptimizerInv, OptimizerShape, OptimizerTypeOK

\* Whether the stop is dropped or kept, the shape of the state and the order stay.
LEMMA DroppingKeepsOrder ==
  ASSUME OptimizerInv, DropOrigin, optimized' \in Seq(Stops)
  PROVE  OptimizerShape' /\ OrderIsGreedy' /\ VisitedOnce'
<1>1. OptimizerShape'
  BY Dropping, SameTrip DEF OptimizerInv, OptimizerShape, OptimizerTypeOK
<1>2. OrderIsGreedy'
  BY Dropping, SameTrip DEF OrderIsGreedy
<1>. QED  BY <1>1, <1>2, Dropping DEF VisitedOnce

LEMMA OriginIsDropped ==
  ASSUME OptimizerInv, DropOrigin, IsOrigin(ordered[looked + 1])
  PROVE  OptimizerInv'
<1>. DEFINE i == ordered[looked + 1]
            m == Len(optimized)
<1>1. optimized' = optimized
  BY DEF DropOrigin
<1>2. KeptSoFar'
  <2>1. \A n \in 1..looked' : n \in 1..looked \/ n = looked + 1
    BY Dropping
  <2>2. \A n \in 1..looked : n \in 1..looked'
    BY Dropping
  <2>3. \A k \in DOMAIN optimized' :
           ~IsOrigin(optimized'[k]) /\ \E n \in 1..looked' : optimized'[k] = ordered'[n]
    BY <1>1, <2>2, Dropping, SameTrip DEF KeptSoFar
  <2>4. \A n \in 1..looked' :
           IsOrigin(ordered'[n]) \/ \E k \in DOMAIN optimized' : optimized'[k] = ordered'[n]
    BY <1>1, <2>1, Dropping, SameTrip DEF KeptSoFar
  <2>. QED  BY <1>1, <2>3, <2>4, Dropping, SameTrip DEF KeptSoFar
<1>3. KeptIsGreedy'
  <2>. SUFFICES ASSUME Len(trip.waypoints) > 1  PROVE KeptIsGreedy'
    BY Dropping DEF KeptIsGreedy
  <2>1. \A k \in 1..(looked + 1) : AtOrigin(ordered[k])
    <3>1. CASE Len(ordered) = 1
      BY <3>1, Dropping DEF AtOrigin, Stop
    <3>2. CASE Len(ordered) # 1
      BY <3>2, Dropping DEF OrderIsGreedy
    <3>. QED  BY <3>1, <3>2
  <2>2. AtOrigin(Front)
    <3>1. CASE m = 0
      BY <3>1, Dropping DEF Front, Before, AtOrigin, Stop
    <3>2. CASE m # 0
      <4>1. Front = optimized[m] /\ m \in DOMAIN optimized
        BY <3>2, Dropping DEF Front, Before
      <4>2. PICK k \in 1..looked : Front = ordered[k]
        BY <4>1, Dropping DEF KeptSoFar
      <4>3. k \in 1..(looked + 1)
        BY <4>2, Dropping
      <4>. QED  BY <2>1, <4>2, <4>3
    <3>. QED  BY <3>1, <3>2
  <2>3. Front' = Front /\ \A k : Before(k)' = Before(k)
    BY <1>1 DEF Front, Before
  <2>4. \A c \in Places : HaversineKm[Stop(Front).place][c] = HaversineKm[Stop(i).place][c]
    BY <2>1, <2>2, Dropping DEF AtOrigin
  <2>5. \A c \in Places : HaversineKm[Stop(Front').place][c] = HaversineKm[Stop(ordered'[looked']).place][c]
    BY <2>3, <2>4, Dropping, SameTrip
  <2>6. \A k \in DOMAIN optimized : \A n \in (looked' + 1)..Len(ordered) :
           Km(Before(k), optimized[k]) <= Km(Before(k), ordered[n])
    BY Dropping DEF KeptIsGreedy
  <2>7. \A k \in DOMAIN optimized' : \A n \in (looked' + 1)..Len(ordered') :
           Km(Before(k)', optimized'[k]) <= Km(Before(k)', ordered'[n])
    BY <1>1, <2>3, <2>6, Dropping, SameTrip
  <2>8. \A k \in DOMAIN optimized' : \A l \in (k + 1)..Len(optimized') :
           Km(Before(k)', optimized'[k]) <= Km(Before(k)', optimized'[l])
    BY <1>1, <2>3, Dropping, SameTrip DEF KeptIsGreedy
  <2>. QED  BY <2>5, <2>7, <2>8, Dropping, SameTrip DEF KeptIsGreedy
<1>. QED
  BY <1>1, <1>2, <1>3, Dropping, DroppingKeepsOrder DEF OptimizerInv, EachWaypointOnce, NearestFirst

LEMMA StopIsKept ==
  ASSUME OptimizerInv, DropOrigin, ~IsOrigin(ordered[looked + 1])
  PROVE  OptimizerInv'
<1>. DEFINE i == ordered[looked + 1]
            m == Len(optimized)
<1>1. /\ optimized' = Append(optimized, i) /\ Len(optimized') = m + 1 /\ optimized'[m + 1] = i
      /\ DOMAIN optimized' = 1..(m + 1) /\ optimized' \in Seq(Stops)
      /\ \A k \in 1..m : optimized'[k] = optimized[k]
  BY Dropping DEF DropOrigin
<1>2. /\ m \in Nat /\ DOMAIN optimized = 1..m /\ m + 1 \in 1..(m + 1)
      /\ \A k \in 1..(m + 1) : k = m + 1 \/ k \in 1..m
      /\ \A k \in 1..m : k \in 1..(m + 1)
  BY Dropping
<1>3. KeptSoFar'
  <2>1. /\ \A n \in 1..looked' : n \in 1..looked \/ n = looked + 1
        /\ (\A n \in 1..looked : n \in 1..looked') /\ looked + 1 \in 1..looked'
    BY Dropping
  <2>. HIDE DEF m
  <2>2. \A k \in 1..(m + 1) :
           ~IsOrigin(optimized'[k]) /\ \E n \in 1..looked' : optimized'[k] = ordered'[n]
    <3>. SUFFICES ASSUME NEW k \in 1..(m + 1)
                  PROVE  ~IsOrigin(optimized'[k]) /\ \E n \in 1..looked' : optimized'[k] = ordered'[n]
      OBVIOUS
    <3>1. CASE k = m + 1
      BY <1>1, <2>1, <3>1, Dropping
    <3>2. CASE k \in 1..m
      <4>1. ~IsOrigin(optimized[k]) /\ \E n \in 1..looked : optimized[k] = ordered[n]
        BY <1>2, <3>2, Dropping DEF KeptSoFar
      <4>2. optimized'[k] = optimized[k] /\ ordered' = ordered
        BY <1>1, <3>2, Dropping
      <4>. QED  BY <2>1, <4>1, <4>2
    <3>. QED  BY <1>2, <3>1, <3>2
  <2>3. \A n \in 1..looked' :
           IsOrigin(ordered'[n]) \/ \E k \in 1..(m + 1) : optimized'[k] = ordered'[n]
    BY <1>1, <1>2, <2>1, Dropping DEF KeptSoFar
  <2>4. \A k \in 1..m : optimized[k] # i
    <3>. SUFFICES ASSUME NEW k \in 1..m  PROVE optimized[k] # i
      OBVIOUS
    <3>1. PICK l \in 1..looked : optimized[k] = ordered[l]
      BY <1>2, Dropping DEF KeptSoFar
    <3>. QED  BY <3>1, Dropping DEF VisitedOnce
  <2>5. \A k, l \in 1..(m + 1) : optimized'[k] = optimized'[l] => k = l
    <3>1. \A k, l \in 1..m : optimized[k] = optimized[l] => k = l
      BY <1>2, Dropping DEF KeptSoFar
    <3>. HIDE DEF i
    <3>. QED  BY <1>1, <1>2, <2>4, <3>1
  <2>. QED  BY <1>1, <2>2, <2>3, <2>5, Dropping, SameTrip DEF KeptSoFar
<1>4. KeptIsGreedy'
  <2>. SUFFICES ASSUME Len(trip.waypoints) > 1  PROVE KeptIsGreedy'
    BY Dropping DEF KeptIsGreedy
  <2>1. Front' = i /\ \A k \in 1..(m + 1) : Before(k)' = Before(k)
    BY <1>1, <1>2, Dropping DEF Front, Before
  <2>2. looked >= 1
    BY Dropping DEF IsOrigin, Stop
  <2>3. /\ \A l \in (looked + 2)..Len(ordered) :
             Km(ordered[looked], i) <= Km(ordered[looked], ordered[l])
        /\ \A j \in Stops : Readable(j)
    BY <2>2, Dropping DEF OrderIsGreedy
  <2>4. \A j \in Stops : Km(Front, j) = Km(ordered[looked], j)
    BY <2>2, <2>3, Dropping DEF KeptIsGreedy, Km, Readable
  <2>5. \A l \in (looked + 2)..Len(ordered) : Km(Front, i) <= Km(Front, ordered[l])
    BY <2>3, <2>4, Dropping
  <2>6. Front = Before(m + 1)
    BY DEF Front
  <2>7. /\ \A n \in (looked' + 1)..Len(ordered) : n \in (looked + 2)..Len(ordered)
        /\ \A n \in (looked + 2)..Len(ordered) : n \in (looked + 1)..Len(ordered)
        /\ looked + 1 \in (looked + 1)..Len(ordered)
    BY Dropping
  <2>8. \A k \in 1..m :
           /\ \A l \in (k + 1)..m : Km(Before(k), optimized[k]) <= Km(Before(k), optimized[l])
           /\ \A n \in (looked + 1)..Len(ordered) :
                 Km(Before(k), optimized[k]) <= Km(Before(k), ordered[n])
    BY <1>2, Dropping DEF KeptIsGreedy
  <2>9. \A k \in 1..(m + 1) : \A n \in (looked' + 1)..Len(ordered') :
           Km(Before(k)', optimized'[k]) <= Km(Before(k)', ordered'[n])
    <3>. HIDE DEF i, m
    <3>. QED  BY <1>1, <1>2, <2>1, <2>5, <2>6, <2>7, <2>8, Dropping
  <2>10. \A k \in 1..(m + 1) : \A l \in (k + 1)..(m + 1) :
           Km(Before(k)', optimized'[k]) <= Km(Before(k)', optimized'[l])
    <3>. SUFFICES ASSUME NEW k \in 1..(m + 1), NEW l \in (k + 1)..(m + 1)
                  PROVE  Km(Before(k), optimized'[k]) <= Km(Before(k), optimized'[l])
      BY <2>1
    <3>. HIDE DEF m
    <3>1. k \in 1..m /\ (l = m + 1 \/ (l \in (k + 1)..m /\ l \in 1..m))
      <4>1. m \in Nat
        BY <1>2
      <4>. QED  BY <4>1
    <3>. QED  BY <1>1, <2>7, <2>8, <3>1
  <2>11. \A c \in Places :
            HaversineKm[Stop(Front').place][c] = HaversineKm[Stop(ordered'[looked']).place][c]
    BY <2>1, Dropping
  <2>. HIDE DEF i, m
  <2>. QED  BY <1>1, <2>9, <2>10, <2>11, Dropping, SameTrip DEF KeptIsGreedy
<1>. QED
  BY <1>1, <1>3, <1>4, Dropping, DroppingKeepsOrder DEF OptimizerInv, EachWaypointOnce, NearestFirst

LEMMA RouteAnswerKeeps ==
  ASSUME OptimizerInv, AnswerRoute
  PROVE  OptimizerInv'
<1>1. /\ stage = "drop" /\ looked = Len(ordered) /\ stage' = "answered"
      /\ UNCHANGED <<trip, ordered, unvisited, optimized, looked>> /\ unvisited = {}
      /\ ordered \in Seq(Stops) /\ optimized \in Seq(Stops)
      /\ Stops = {ordered[k] : k \in DOMAIN ordered} /\ trip \in Bodies
      /\ KeptSoFar /\ KeptIsGreedy /\ VisitedOnce
  BY DEF AnswerRoute, OptimizerInv, OptimizerShape, OptimizerTypeOK
<1>2. OptimizerShape'
  BY <1>1, SameTrip DEF OptimizerInv, OptimizerShape, OptimizerTypeOK
<1>4. /\ {optimized[k] : k \in DOMAIN optimized} = {i \in Stops : Stop(i) # trip.origem}
      /\ \A k, l \in DOMAIN optimized : optimized[k] = optimized[l] => k = l
  <2>1. \A k \in DOMAIN optimized : optimized[k] \in Stops /\ Stop(optimized[k]) # trip.origem
    BY <1>1 DEF KeptSoFar, IsOrigin
  <2>2. ASSUME NEW j \in Stops, Stop(j) # trip.origem
        PROVE  \E k \in DOMAIN optimized : j = optimized[k]
    <3>1. PICK n \in DOMAIN ordered : j = ordered[n]
      BY <1>1
    <3>2. n \in 1..looked
      BY <1>1, <3>1
    <3>. QED  BY <1>1, <2>2, <3>1, <3>2 DEF KeptSoFar, IsOrigin
  <2>. QED  BY <1>1, <2>1, <2>2 DEF KeptSoFar
<1>5. EachWaypointOnce'
  BY <1>1, <1>4, SameTrip DEF EachWaypointOnce
<1>6. \A k \in DOMAIN optimized : \A l \in (k + 1)..Len(optimized) :
          Km(Before(k), optimized[k]) <= Km(Before(k), optimized[l])
  <2>1. CASE Len(trip.waypoints) > 1
    BY <1>1, <2>1 DEF KeptIsGreedy
  <2>2. CASE ~(Len(trip.waypoints) > 1)
    <3>. SUFFICES ASSUME NEW k \in DOMAIN optimized, NEW l \in (k + 1)..Len(optimized)  PROVE FALSE
      OBVIOUS
    <3>1. k \in DOMAIN optimized /\ l \in DOMAIN optimized /\ k # l
      BY <1>1
    <3>2. \A j \in Stops : j = 1 \/ j = 2
      <4>1. PICK n \in Nat : n = Len(trip.waypoints)  BY <1>1, TripParts
      <4>2. n <= 1 /\ Stops = 1..(n + 1)  BY <2>2, <4>1 DEF Stops
      <4> QED  BY <4>2
    <3>3. optimized[k] # 1 /\ optimized[l] # 1
      BY <1>4, <3>1 DEF Stop
    <3>. QED  BY <1>1, <1>4, <3>1, <3>2, <3>3
  <2>. QED  BY <2>1, <2>2
<1>7. NearestFirst'
  <2>1. \A k : Before(k)' = Before(k)
    BY <1>1 DEF Before
  <2>. QED  BY <1>1, <1>6, <2>1, SameTrip DEF NearestFirst
<1>. QED
  BY <1>1, <1>2, <1>5, <1>7 DEF OptimizerInv, VisitedOnce, OrderIsGreedy, KeptSoFar, KeptIsGreedy

LEMMA OptimizerSteps == OptimizerInv /\ [OptimizerNext]_optimizerVars => OptimizerInv'
<1>. SUFFICES ASSUME OptimizerInv, [OptimizerNext]_optimizerVars  PROVE OptimizerInv'
  OBVIOUS
<1>1. CASE UNCHANGED optimizerVars
  <2>1. UNCHANGED <<stage, trip, ordered, unvisited, optimized, looked>>
    BY <1>1 DEF optimizerVars
  <2>2. Front' = Front /\ \A k : Before(k)' = Before(k)
    BY <2>1 DEF Front, Before
  <2>. QED
    BY <2>1, <2>2, SameTrip DEF OptimizerInv, OptimizerShape, OptimizerTypeOK, VisitedOnce, OrderIsGreedy,
       KeptSoFar, KeptIsGreedy, EachWaypointOnce, NearestFirst
<1>2. CASE DropOrigin
  BY <1>2, OriginIsDropped, StopIsKept
<1>. QED
  BY <1>1, <1>2, RefuseOrRaiseKeeps, StartOrderKeeps, VisitNearestKeeps, EndOrderKeeps, RouteAnswerKeeps
     DEF OptimizerNext

LEMMA OptimizerInvariant == OptimizerSpec => []OptimizerInv
  BY OptimizerStarts, OptimizerSteps, PTL DEF OptimizerSpec

(* Whatever the distances and however many points repeat a body, an answer of      *)
(* optimize visits each waypoint once and each from the nearest point before it.  *)
THEOREM AnswersAreGreedyTours == OptimizerSpec => []GreedyTour
  BY OptimizerInvariant, PTL DEF OptimizerInv, GreedyTour

(* For any places, bodies and distances: a stop is kept, being ordered or       *)
(* unvisited until the order is complete, and looked up within the order only. *)
THEOREM OptimizerTypes == OptimizerSpec => []OptimizerTypeOK
  <1>1. OptimizerInv => OptimizerTypeOK  BY DEF OptimizerInv, OptimizerShape
  <1> QED  BY <1>1, OptimizerInvariant, PTL
=============================================================================
