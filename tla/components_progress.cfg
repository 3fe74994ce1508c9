\* What must eventually happen in the cache, the order events, the entries beside the rows
\* and the stock calls, one at a time.  Faults, edits and calls are bounded.
SPECIFICATION FairProgressSpec
CONSTANTS
    Focuses = {"cache", "events", "rows", "stock"}
    StorageCalls = {c1}
    Warehouses = {"w1", "w2"}
    Codes = {"A", "B"}
    Totals = {1, 3}
    StorageQuantities <- MCQuantities
    FirstWarehouses <- MCFirstWarehouses
    MaxStorageCalls = 2
    Users = {"u1", "u2"}
    Companies = {"k1"}
    Marks = {"m1", "m2"}
    Patches <- MCPatches
    FirstAccounts <- MCFirstAccounts
    AdminCalls = {a1, a2}
    MaxAccountCalls = 2
    Urls = {"url"}
    Readers = {g1, g2}
    Ttl = 2
    MaxChanges = 1
    MaxRestarts = 0
    Events = {"created", "status", "poison"}
    Rounds <- MCRounds
    EventKind <- MCEventKind
    Addressee <- MCAddressee
    Partition <- MCPartition
    Partitions = {1}
    Sockets = {}
    Rooms <- MCRooms
    MaxLog = 3
    MaxFaults = 1
    Tabs = {"t1"}
    Goods = {"g1"}
    Least <- MCLeast
    MaxQty = 3
    MaxPending = 2
    MaxSockets = 3
    SettingsTabs = {"t1"}
    Galpoes = {"gA"}
    Usuarios = {"u1"}
    Textos = {"v0", "v1"}
    Padrao = "v0"
    MaxEdits = 1
    MaxToastTimers = 2
    CachedRows = {"r1"}
    RowCalls = {h1, h2}
    EntryTtl = 2
    MaxCommits = 3
    Produtos = {"p1", "p2"}
    produtosMock <- MCProdutos
    Categorias = {"Todos", "Bebidas", "Embalagens"}
    Marcas = {"Todas", "Pepsi"}
    Buscas = {"pepsi"}
    Contem <- MCContem
    Ceps = {"cep"}
    MaxQtd = 3
    MaxWaiting = 2
    Places = {"a", "b", "c"}
    Points <- MCPoints
    HaversineKm <- MCHaversineKm
    MaxWaypoints = 0
    Requests = {r1, r2}
    Products = {p1, p2}
    Quantities = {1}
    Puts <- MCFewPuts
    Minimum <- MCMinimum
    InitQuantity = 2
    MaxItems = 2
    Ops = {"order", "consume", "put", "post", "delete", "unorder"}
    MaxInFlight = 2
    MaxCrashes = 0
CHECK_DEADLOCK FALSE
PROPERTIES
    EveryGetAnswers
    StaleExpires
    PublishEnds
    PoisonNeverBlocks
    EntriesSettle
    EveryCallEnds
    ShortageAlerted
