------------------------------ MODULE RowCache ------------------------------
(***************************************************************************)
(* The Redis entries backend-fastapi keeps beside its rows: routers orders,  *)
(* products, routes and trucks with RedisCache and FinanceService.           *)
(*                                                                         *)
(* A call that changes a row commits, reads the row again (refresh) and then *)
(* writes the entry; a call that reads a row fills the entry with what it has *)
(* read.  Nothing orders the entry writes of two calls, and an error of Redis *)
(* or a crash after the commit loses them.  Every entry has a lifetime.      *)
(***************************************************************************)
EXTENDS Naturals, Sequences, FiniteSets

CONSTANTS
    CachedRows,    \* identifiers of rows
    RowCalls,      \* calls being served, each slot reused for the next one
    EntryTtl,      \* lifetime of an entry, in ticks
    MaxCommits     \* bound: commits on a row

ASSUME RowCacheConstants ==
    IsFiniteSet(RowCalls) /\ EntryTtl \in Nat \ {0} /\ MaxCommits \in Nat \ {0}

Kinds == {"order", "product", "route", "truck"}
Keys == {"finance", "plain"}
NoEntry == [version |-> 0, left |-> 0]
Entry == [version : 1..MaxCommits, left : 1..EntryTtl]
Reads == {"finance", "show"}
OpsOf == [order   |-> {"create", "update", "delete", "finance"},
          product |-> {"create", "update", "delete", "finance", "show"},
          route   |-> {"create", "update", "optimize", "delete", "show"},
          truck   |-> {"create", "update", "status", "delete"}]
\* Keys in the order a call sets them, and in the order a delete removes them.
SavedKeys == [order |-> <<"finance">>, product |-> <<"finance", "plain">>,
              route |-> <<"plain">>, truck |-> <<"plain">>]
DeletedKeys == [SavedKeys EXCEPT !["product"] = <<"plain", "finance">>]
FilledKeys == [SavedKeys EXCEPT !["product"] = <<"finance">>]

VARIABLES
    kind,      \* table a row belongs to
    rows,      \* version of each row, 0 when there is none
    commits,   \* commits on each row so far; versions are numbered by them
    entries,   \* Redis
    calls,     \* each call: next await, operation, row, version in hand, keys to write
    strayed    \* history: rows whose entries nobody promises to follow

rowCacheVars == <<kind, rows, commits, entries, calls, strayed>>

---------------------------------------------------------------------------
IdleRowCall == [step |-> "idle", op |-> "none", row |-> "none", version |-> 0, todo |-> <<>>]
Serving(c) == calls[c].step # "idle"
Writes(c) == Serving(c) /\ calls[c].op \notin Reads
EndRowCall(c) == calls' = [calls EXCEPT ![c] = IdleRowCall]
ToWrite(c, version, keys) ==
    calls' = [calls EXCEPT ![c].step = "write", ![c].version = version, ![c].todo = keys]

RowCacheInit ==
    /\ kind \in [CachedRows -> Kinds]
    /\ commits \in [CachedRows -> {0, 1}]
    /\ rows = commits
    /\ entries = [r \in CachedRows |-> [k \in Keys |-> NoEntry]]
    /\ calls = [c \in RowCalls |-> IdleRowCall]
    /\ strayed = {}

\* A call and its first SELECT; without the row it ends at once with a 404.
BeginRowCall(c) ==
    \E r \in CachedRows : \E op \in OpsOf[kind[r]] :
       /\ ~Serving(c)
       /\ IF op = "create"
            THEN commits[r] = 0 /\ \A d \in RowCalls : calls[d].row # r
            ELSE rows[r] # 0
       /\ op \notin Reads =>
             commits[r] + Cardinality({d \in RowCalls : Writes(d) /\ calls[d].row = r}) < MaxCommits
       /\ calls' = [calls EXCEPT ![c] = [step |-> IF op \in Reads THEN "lookup" ELSE "commit",
                      op |-> op, row |-> r, version |-> rows[r], todo |-> <<>>]]
       /\ strayed' = IF \E d \in RowCalls \ {c} : /\ Serving(d) /\ calls[d].row = r
                                                  /\ op \notin Reads \/ calls[d].op \notin Reads
                       THEN strayed \cup {r} ELSE strayed
       /\ UNCHANGED <<kind, rows, commits, entries>>

\* Mutant of LookUpEntry: a hit is stored again, with a new lifetime.
LookUpEntrySliding(c) ==
    LET r == calls[c].row  hit == entries[r]["finance"] # NoEntry IN
    /\ calls[c].step = "lookup"
    /\ IF calls[c].op = "finance" /\ hit
         THEN /\ entries' = [entries EXCEPT ![r]["finance"].left = EntryTtl]
              /\ EndRowCall(c)
         ELSE ToWrite(c, calls[c].version, FilledKeys[kind[r]]) /\ UNCHANGED entries
    /\ UNCHANGED <<kind, rows, commits, strayed>>

\* The finance endpoints answer a hit; the others ignore what they find.
LookUpEntry(c) ==
    LET r == calls[c].row  hit == entries[r]["finance"] # NoEntry IN
    /\ calls[c].step = "lookup"
    /\ IF calls[c].op = "finance" /\ hit
         THEN EndRowCall(c)
         ELSE ToWrite(c, calls[c].version, FilledKeys[kind[r]])
    /\ UNCHANGED <<kind, rows, commits, entries, strayed>>

\* The code, plate or SKU is taken, a key refers to nothing, or an order still
\* has the product: checked before, or refused by PostgreSQL.
RefuseRow(c) ==
    /\ calls[c].step = "commit"
    /\ \/ calls[c].op \in {"create", "update"}
       \/ calls[c].op = "delete" /\ kind[calls[c].row] = "product"
    /\ EndRowCall(c)
    /\ UNCHANGED <<kind, rows, commits, entries, strayed>>

\* UPDATE or INSERT and COMMIT.  An UPDATE of a row that is gone raises; one that
\* changes no column is not sent.  PATCH status writes no entry.
CommitRow(c) ==
    LET r == calls[c].row  op == calls[c].op  next == commits[r] + 1 IN
    /\ calls[c].step = "commit" /\ op # "delete"
    /\ \/ /\ op = "create" \/ rows[r] # 0
          /\ rows' = [rows EXCEPT ![r] = next] /\ commits' = [commits EXCEPT ![r] = next]
       \/ /\ op \in {"update", "status"} /\ rows[r] # 0
          /\ UNCHANGED <<rows, commits>>
       \/ /\ op # "create" /\ rows[r] = 0
          /\ UNCHANGED <<rows, commits>>
    /\ IF op = "status" \/ rows'[r] = 0
         THEN EndRowCall(c) ELSE calls' = [calls EXCEPT ![c].step = "refresh"]
    /\ strayed' = IF op = "status" THEN strayed \cup {r} ELSE strayed
    /\ UNCHANGED <<kind, entries>>

\* DELETE and COMMIT; for a row that is gone already this is only a warning.
DeleteRow(c) ==
    LET r == calls[c].row IN
    /\ calls[c].step = "commit" /\ calls[c].op = "delete"
    /\ rows' = [rows EXCEPT ![r] = 0]
    /\ commits' = [commits EXCEPT ![r] = IF rows[r] = 0 THEN @ ELSE @ + 1]
    /\ ToWrite(c, 0, DeletedKeys[kind[r]])
    /\ UNCHANGED <<kind, entries, strayed>>

\* ON DELETE SET NULL: the deletion of a truck changes the routes it was on, and
\* delete_truck deletes the truck's own entry only.
UnlinkTruck(r) ==
    /\ kind[r] = "route" /\ rows[r] # 0
    /\ commits[r] + Cardinality({d \in RowCalls : Writes(d) /\ calls[d].row = r}) < MaxCommits
    /\ commits' = [commits EXCEPT ![r] = @ + 1]
    /\ rows' = [rows EXCEPT ![r] = commits'[r]]
    /\ strayed' = strayed \cup {r}
    /\ UNCHANGED <<kind, entries, calls>>

\* Mutant of Refreshed: the entity as it was read by the first SELECT.
RefreshedNot(c) == calls[c].version

\* db.refresh, or the SELECT with the items after create_order.
Refreshed(c) == rows[calls[c].row]

RefreshRow(c) ==
    /\ calls[c].step = "refresh"
    /\ IF rows[calls[c].row] = 0
         THEN EndRowCall(c)
         ELSE ToWrite(c, Refreshed(c), SavedKeys[kind[calls[c].row]])
    /\ UNCHANGED <<kind, rows, commits, entries, strayed>>

\* RedisCache.set with ex=ttl, or delete, one key after the other.
WriteEntry(c) ==
    LET r == calls[c].row  version == calls[c].version IN
    /\ calls[c].step = "write"
    /\ entries' = [entries EXCEPT ![r][Head(calls[c].todo)] =
                     IF version = 0 THEN NoEntry ELSE [version |-> version, left |-> EntryTtl]]
    /\ IF Len(calls[c].todo) = 1
         THEN EndRowCall(c) ELSE calls' = [calls EXCEPT ![c].todo = Tail(@)]
    /\ UNCHANGED <<kind, rows, commits, strayed>>

\* Nothing catches an error of Redis: the call ends with a 500 after its commit.
RedisFails(c) ==
    /\ calls[c].step \in {"lookup", "write"}
    /\ EndRowCall(c)
    /\ strayed' = IF Writes(c) THEN strayed \cup {calls[c].row} ELSE strayed
    /\ UNCHANGED <<kind, rows, commits, entries>>

EntryTick ==
    /\ \E r \in CachedRows, k \in Keys : entries[r][k] # NoEntry
    /\ entries' = [r \in CachedRows |-> [k \in Keys |->
                     IF entries[r][k].left <= 1 THEN NoEntry ELSE [entries[r][k] EXCEPT !.left = @ - 1]]]
    /\ UNCHANGED <<kind, rows, commits, calls, strayed>>

CrashFastApi ==
    /\ \E c \in RowCalls : Serving(c)
    /\ calls' = [c \in RowCalls |-> IdleRowCall]
    /\ strayed' = strayed \cup
         {calls[c].row : c \in {d \in RowCalls : Writes(d) /\ calls[d].step # "commit"}}
    /\ UNCHANGED <<kind, rows, commits, entries>>

ServeRowCall(c) ==
    \/ LookUpEntry(c) \/ RefuseRow(c) \/ CommitRow(c) \/ DeleteRow(c) \/ RefreshRow(c)
    \/ WriteEntry(c) \/ RedisFails(c)

RowCacheNext ==
    \/ \E c \in RowCalls : BeginRowCall(c) \/ ServeRowCall(c)
    \/ \E r \in CachedRows : UnlinkTruck(r)
    \/ EntryTick \/ CrashFastApi

\* The event loop runs every handler, and Redis expires entries.
RowCacheFairness ==
    /\ \A c \in RowCalls : WF_rowCacheVars(ServeRowCall(c))
    /\ WF_rowCacheVars(EntryTick)

RowCacheSpec == RowCacheInit /\ [][RowCacheNext]_rowCacheVars /\ RowCacheFairness

---------------------------------------------------------------------------
(* Types; a call that writes entries has keys left to write. *)
RowCacheTypeOK ==
    /\ kind \in [CachedRows -> Kinds]
    /\ commits \in [CachedRows -> 0..MaxCommits]
    /\ \A r \in CachedRows : rows[r] \in {0, commits[r]}
    /\ entries \in [CachedRows -> [Keys -> Entry \cup {NoEntry}]]
    /\ strayed \subseteq CachedRows
    /\ \A c \in RowCalls :
          /\ calls[c].step \in {"idle", "commit", "lookup", "refresh", "write"}
          /\ Serving(c) => calls[c].row \in CachedRows /\ calls[c].op \in OpsOf[kind[calls[c].row]]
          /\ (calls[c].step = "write") = (calls[c].todo # <<>>)

(* While nobody works on a row, an entry there is holds what the row holds,   *)
(* and a deleted row has none, unless a call that changes the row overlapped   *)
(* another call on it, or lost its entry write to Redis or a crash, or was a   *)
(* PATCH of a truck's status, or the truck of a route was deleted.            *)
EntryFollowsRow ==
    \A r \in CachedRows :
       r \notin strayed /\ (\A c \in RowCalls : Serving(c) => calls[c].row # r) =>
          \A k \in Keys : entries[r][k] # NoEntry => entries[r][k].version = rows[r]

(* Once a row has stopped changing, its entries sooner or later only hold the *)
(* row, for good: whatever order the entry writes of overlapping calls took,  *)
(* whichever of them were lost, and however often the entries are read.      *)
EntriesSettle ==
    <>[](\A r \in CachedRows, k \in Keys :
            entries[r][k] # NoEntry => entries[r][k].version = rows[r])
===========================================================================
