---------------------------- MODULE MCComponents ----------------------------
(* Ten components that share no state, in one TLC instance: a behaviour     *)
(* exercises the component it has in focus, so the reachable states are the   *)
(* sum of theirs.                                                           *)
EXTENDS WarehouseStorage, Accounts, IgniteCache, OrderEvents,
        Storefront, DashboardTracking, DashboardSettings,
        RowCache, ShopPages, RouteOptimizer

CONSTANT Focuses   \* components the run exercises

ASSUME FocusConstant ==
    Focuses \subseteq {"storage", "accounts", "cache", "events", "store", "tracking", "settings",
                 "rows", "pages", "optimizer", "stock"}   \* stock: see MCProgress

VARIABLE focus

componentVars == <<focus, storageVars, accountVars, cacheVars, eventVars, storefrontVars,
                   trackingVars, settingsVars, rowCacheVars, pageVars, optimizerVars>>

MCFirstWarehouses == [w \in Warehouses |->
    IF w = "w1" THEN [code |-> "A", total |-> 2, used |-> 1, active |-> TRUE] ELSE NoWarehouse]
MCQuantities == {-1, 1, 2}
MCFirstAccounts == [i \in Ids |->
    CASE i = "u1" -> [mark |-> "m1", role |-> "admin", company |-> "k1"]
      [] i = "k1" -> [mark |-> "m1", role |-> "consumidor", company |-> "none"]
      [] OTHER -> NoRow]
MCPatches == {[role |-> "consumidor"], [password |-> TRUE], [mark |-> "m2", company |-> "k1"]}
MCRounds == {{"created", "poison"}, {"status", "poison"}}
MCEventKind == [e \in Events |-> e]
MCAddressee == [e \in Events |-> IF e = "created" THEN "k1" ELSE "admin"]
MCPartition == [e \in Events |-> 1]
MCRooms == [s \in Sockets |-> {"k1"}]
MCLeast == [g \in Goods |-> 2]
MCProdutos == [p \in Produtos |->
    [categoria |-> IF p = "p1" THEN "Bebidas" ELSE "Embalagens", marca |-> "Pepsi",
     quantidadeMinima |-> 2]]
MCContem == [b \in Buscas |-> {"p1"}]
\* Three places on a road, two bodies at one of them, and one whose lat is null.
Mile == [a |-> 0, b |-> 2, c |-> 3]
MCHaversineKm == [p \in Places |-> [q \in Places |->
    IF Mile[p] < Mile[q] THEN Mile[q] - Mile[p] ELSE Mile[p] - Mile[q]]]
At(n, p) == [name |-> n, place |-> p]
MCPoints == {At("CD", "a"), At("CD", "b"), At("Parada", "b"), At("Parada", "c"),
             At("Parada", "unreadable"), At("Parada", "missing")}

ComponentsInit ==
    /\ focus \in Focuses
    /\ StorageInit /\ AccountInit /\ CacheInit /\ EventInit
    /\ StorefrontInit /\ TrackingInit /\ SettingsInit /\ RowCacheInit
    /\ ShopPagesInit /\ OptimizerInit
    \* the other components have one initial state each
    /\ focus # "events" => publish["created"] = "idle"
    /\ focus # "tracking" => ~strict /\ usable
    /\ focus # "rows" => \A r \in CachedRows : kind[r] = "order" /\ commits[r] = 0
    /\ focus # "optimizer" => trip.waypoints = <<>> /\ {trip.origem, trip.destino} = {At("CD", "a")}

Keep(f, v) == IF focus = f THEN TRUE ELSE UNCHANGED v

\* A step of component f.
Of(f, A) ==
    /\ focus = f /\ A /\ UNCHANGED focus
    /\ Keep("storage", storageVars) /\ Keep("accounts", accountVars)
    /\ Keep("cache", cacheVars) /\ Keep("events", eventVars)
    /\ Keep("store", storefrontVars) /\ Keep("tracking", trackingVars)
    /\ Keep("settings", settingsVars) /\ Keep("rows", rowCacheVars)
    /\ Keep("pages", pageVars) /\ Keep("optimizer", optimizerVars)

ComponentsNext ==
    \/ Of("storage", StorageNext) \/ Of("accounts", AccountNext)
    \/ Of("cache", CacheNext) \/ Of("events", EventNext)
    \/ Of("store", StorefrontNext) \/ Of("tracking", TrackingNext)
    \/ Of("settings", SettingsNext) \/ Of("rows", RowCacheNext)
    \/ Of("pages", ShopPagesNext) \/ Of("optimizer", OptimizerNext)

ComponentsSpec == ComponentsInit /\ [][ComponentsNext]_componentVars

\* The fairness of the components, each conjunct as its module states it.
ComponentsFairness ==
    /\ \A r \in Readers : WF_componentVars(Of("cache", ServeReader(r)))
    /\ WF_componentVars(Of("cache", Tick))
    /\ WF_componentVars(Of("events", Reconnect))
    /\ WF_componentVars(Of("events", JoinGroup))
    /\ WF_componentVars(Of("events", SetNotificationDeps))
    /\ \A e \in Events : WF_componentVars(Of("events", PublishStep(e)))
    /\ \A p \in Partitions : WF_componentVars(Of("events", EachMessage(p)))
    /\ WF_componentVars(Of("tracking", SocketEvent))
    /\ WF_componentVars(Of("tracking", ReconnectTimer))
    /\ \A c \in RowCalls : WF_componentVars(Of("rows", ServeRowCall(c)))
    /\ WF_componentVars(Of("rows", EntryTick))

FairComponentsSpec == ComponentsSpec /\ ComponentsFairness

(* The types of the components, and that every cart, stored, shown or sent,   *)
(* has one line per product with at least its minimum.                       *)
ComponentsTypeOK ==
    /\ StorageTypeOK /\ AccountTypeOK /\ CacheTypeOK /\ EventTypeOK
    /\ StorefrontTypeOK /\ TrackingTypeOK /\ SettingsTypeOK
    /\ RowCacheTypeOK /\ ShopPagesTypeOK /\ OptimizerTypeOK
    /\ CartWellFormed
===========================================================================
