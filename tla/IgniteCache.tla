----------------------------- MODULE IgniteCache -----------------------------
(***************************************************************************)
(* The response cache of backend-nest: IgniteCacheInterceptor over          *)
(* IgniteCacheService.                                                      *)
(*                                                                         *)
(* The service decides once, when the module starts, whether it uses Ignite  *)
(* or maps in memory.  With Ignite a failed put falls back to the maps,      *)
(* which get never reads then; entries in Ignite have no expiry.  A miss     *)
(* calls the handler and stores its answer after the response has gone out.  *)
(***************************************************************************)
EXTENDS Naturals, FiniteSets

CONSTANTS
    Urls,          \* cached URLs; the key is "GET:" and the URL
    Readers,       \* requests being served, each slot reused for the next one
    Ttl,           \* lifetime of an entry of the maps, in ticks
    MaxChanges,    \* bound: changes of the data behind a URL
    MaxRestarts    \* bound: restarts of the Nest process

ASSUME CacheConstants == Urls # {} /\ Ttl \in Nat \ {0} /\ MaxChanges \in Nat /\ MaxRestarts \in Nat

Scopes == {"user", "admin"}
Versions == 0..MaxChanges
Missing == MaxChanges + 1
\* left = 0: Date.now() > expiresAt.
MapEntry == [value : Versions, left : 0..Ttl]
NoMapEntry == [value |-> Missing, left |-> 0]
IdleReader == [step |-> "idle", url |-> CHOOSE u \in Urls : TRUE, scope |-> "user", value |-> Missing]

VARIABLES
    mode,      \* "boot", "ignite", "detached" (connected, no cache handles) or "memory"
    ignite,    \* the two caches in the Ignite cluster
    maps,      \* memUserCache and memAdminCache
    origin,    \* version of the data a handler would answer with
    reader,    \* each request: next await, key, scope and the answer in hand
    restarts

cacheVars == <<mode, ignite, maps, origin, reader, restarts>>

---------------------------------------------------------------------------
Put(store, s, u, v) == [store EXCEPT ![s][u] = v]
ReaderAt(r, step, value) == reader' = [reader EXCEPT ![r].step = step, ![r].value = value]
\* The request is over: the slot is free for the next one.
Answered(r) == reader' = [reader EXCEPT ![r] = IdleReader]

CacheInit ==
    /\ mode = "boot"
    /\ ignite = [s \in Scopes |-> [u \in Urls |-> Missing]]
    /\ maps = [s \in Scopes |-> [u \in Urls |-> NoMapEntry]]
    /\ origin = [u \in Urls |-> 0]
    /\ reader = [r \in Readers |-> IdleReader]
    /\ restarts = 0

\* onModuleInit: connect may fail, and the client may offer no cache handle.
ConnectIgnite ==
    /\ mode = "boot"
    /\ mode' \in {"ignite", "detached", "memory"}
    /\ UNCHANGED <<ignite, maps, origin, reader, restarts>>

\* A GET.  The scope comes from the header or from the role.
AskCached(r) ==
    /\ mode # "boot" /\ reader[r].step = "idle"
    /\ \E u \in Urls, s \in Scopes :
          reader' = [reader EXCEPT ![r] = [step |-> "asked", url |-> u, scope |-> s, value |-> Missing]]
    /\ UNCHANGED <<mode, ignite, maps, origin, restarts>>

\* get in Ignite: the value, or null when there is none or the call fails.
LookUpIgnite(r) ==
    LET found == ignite[reader[r].scope][reader[r].url] IN
    /\ mode \in {"ignite", "detached"} /\ reader[r].step = "asked"
    /\ \/ mode = "ignite" /\ found # Missing /\ Answered(r)
       \/ found = Missing /\ ReaderAt(r, "missed", Missing)
    /\ UNCHANGED <<mode, ignite, maps, origin, restarts>>

\* Mutant of LookUpFails: the error of a cache access reaches the request.
LookUpThrows(r) ==
    /\ mode = "ignite" /\ reader[r].step = "asked"
    /\ ReaderAt(r, "failed", Missing)
    /\ UNCHANGED <<mode, ignite, maps, origin, restarts>>

\* igniteGet logs the error, or finds no handle, and answers null.
LookUpFails(r) ==
    /\ mode \in {"ignite", "detached"} /\ reader[r].step = "asked"
    /\ ReaderAt(r, "missed", Missing)
    /\ UNCHANGED <<mode, ignite, maps, origin, restarts>>

\* Mutant of LookUpMap: a hit extends the life of the entry.
LookUpMapSliding(r) ==
    LET s == reader[r].scope  u == reader[r].url  entry == maps[s][u] IN
    /\ mode = "memory" /\ reader[r].step = "asked"
    /\ IF entry.left = 0
         THEN maps' = Put(maps, s, u, NoMapEntry) /\ ReaderAt(r, "missed", Missing)
         ELSE maps' = Put(maps, s, u, [entry EXCEPT !.left = Ttl]) /\ Answered(r)
    /\ UNCHANGED <<mode, ignite, origin, restarts>>

\* get in the maps deletes an expired entry.
LookUpMap(r) ==
    LET s == reader[r].scope  u == reader[r].url  entry == maps[s][u] IN
    /\ mode = "memory" /\ reader[r].step = "asked"
    /\ IF entry.left = 0
         THEN maps' = Put(maps, s, u, NoMapEntry) /\ ReaderAt(r, "missed", Missing)
         ELSE UNCHANGED maps /\ Answered(r)
    /\ UNCHANGED <<mode, ignite, origin, restarts>>

\* The handler answers; tap() starts the store, which the response does not await.
Handle(r) ==
    /\ reader[r].step = "missed"
    /\ ReaderAt(r, "store", origin[reader[r].url])
    /\ UNCHANGED <<mode, ignite, maps, origin, restarts>>

StoreInMap(r) ==
    LET s == reader[r].scope  u == reader[r].url IN
    maps' = Put(maps, s, u, [value |-> reader[r].value, left |-> Ttl])

\* set: into Ignite, or into the map when Ignite is off or its put fails.
Store(r) ==
    LET s == reader[r].scope  u == reader[r].url IN
    /\ reader[r].step = "store"
    /\ \/ mode = "ignite" /\ ignite' = Put(ignite, s, u, reader[r].value) /\ UNCHANGED maps
       \/ mode \in {"ignite", "memory"} /\ StoreInMap(r) /\ UNCHANGED ignite
       \/ mode = "detached" /\ UNCHANGED <<ignite, maps>>
    /\ Answered(r)
    /\ UNCHANGED <<mode, origin, restarts>>

\* A request of another method changes the data; the interceptor only logs it.
ChangeOrigin(u) ==
    /\ mode # "boot" /\ origin[u] < MaxChanges
    /\ origin' = [origin EXCEPT ![u] = @ + 1]
    /\ UNCHANGED <<mode, ignite, maps, reader, restarts>>

\* del and clear of the service, which no other class calls yet.
Forget(s, us) ==
    /\ mode # "boot"
    /\ \/ /\ mode = "ignite"
          /\ ignite' = [ignite EXCEPT ![s] = [u \in Urls |-> IF u \in us THEN Missing ELSE @[u]]]
          /\ UNCHANGED maps
       \/ mode \in {"ignite", "detached"} /\ UNCHANGED <<ignite, maps>>  \* errors are swallowed
       \/ /\ mode = "memory"
          /\ maps' = [maps EXCEPT ![s] = [u \in Urls |-> IF u \in us THEN NoMapEntry ELSE @[u]]]
          /\ UNCHANGED ignite
    /\ UNCHANGED <<mode, origin, reader, restarts>>

DelOrClear == \E s \in Scopes : Forget(s, Urls) \/ \E u \in Urls : Forget(s, {u})

\* Time passes for the entries of the maps.
Tick ==
    /\ \E s \in Scopes, u \in Urls : maps[s][u].left > 0
    /\ maps' = [s \in Scopes |-> [u \in Urls |->
                  [maps[s][u] EXCEPT !.left = IF @ = 0 THEN 0 ELSE @ - 1]]]
    /\ UNCHANGED <<mode, ignite, origin, reader, restarts>>

\* cleanupMem, an interval that exists in memory mode only.
CleanupMem ==
    /\ mode = "memory"
    /\ maps' = [s \in Scopes |-> [u \in Urls |->
                  IF maps[s][u].left = 0 THEN NoMapEntry ELSE maps[s][u]]]
    /\ UNCHANGED <<mode, ignite, origin, reader, restarts>>

RestartNest ==
    /\ restarts < MaxRestarts
    /\ restarts' = restarts + 1
    /\ mode' = "boot"
    /\ maps' = [s \in Scopes |-> [u \in Urls |-> NoMapEntry]]
    /\ reader' = [r \in Readers |-> IdleReader]
    /\ UNCHANGED <<ignite, origin>>

ServeReader(r) ==
    LookUpIgnite(r) \/ LookUpFails(r) \/ LookUpMap(r) \/ Handle(r) \/ Store(r)

CacheNext ==
    \/ ConnectIgnite
    \/ \E r \in Readers : AskCached(r) \/ ServeReader(r)
    \/ \E u \in Urls : ChangeOrigin(u)
    \/ DelOrClear \/ Tick \/ CleanupMem \/ RestartNest

\* The event loop runs every pending callback, and time passes.
CacheFairness ==
    /\ \A r \in Readers : WF_cacheVars(ServeReader(r))
    /\ WF_cacheVars(Tick)

CacheSpec == CacheInit /\ [][CacheNext]_cacheVars /\ CacheFairness

---------------------------------------------------------------------------
(* Types; only a service in memory mode ever holds what it answers from.     *)
CacheTypeOK ==
    /\ mode \in {"boot", "ignite", "detached", "memory"}
    /\ ignite \in [Scopes -> [Urls -> Versions \cup {Missing}]]
    /\ maps \in [Scopes -> [Urls -> MapEntry \cup {NoMapEntry}]]
    /\ origin \in [Urls -> Versions]
    /\ reader \in [Readers -> [step : {"idle", "asked", "missed", "store", "failed"}, url : Urls,
                               scope : Scopes, value : Versions \cup {Missing}]]
    /\ restarts \in 0..MaxRestarts

(* Whatever Ignite does, and whichever mode the service is in, every GET is  *)
(* answered, from the cache or by its handler, unless the process restarts:  *)
(* the failure of a cache access never becomes the failure of the request.   *)
EveryGetAnswers ==
    \A r \in Readers : []<>(reader[r].step \in {"store", "idle"})

(* In memory mode, once the data behind a URL has stopped changing, the cache *)
(* sooner or later only holds that data for good, however many readers keep   *)
(* hitting and refilling it and although no writer invalidates anything.      *)
StaleExpires ==
    <>[](\A s \in Scopes, u \in Urls :
            mode = "memory" /\ maps[s][u].left > 0 => maps[s][u].value = origin[u])
===========================================================================
