\* The real-time tracking the page promises, with its sockets served fairly.
SPECIFICATION FairComponentsSpec
CONSTANTS
    Focuses = {"tracking"}
    StorageCalls = {c1, c2, c3}
    Warehouses = {"w1", "w2"}
    Codes = {"A", "B"}
    Totals = {1, 3}
    StorageQuantities <- MCQuantities
    FirstWarehouses <- MCFirstWarehouses
    MaxStorageCalls = 2
    Users = {"u1", "u2"}
    Companies = {"k1"}
    Marks = {"m1", "m2"}
    Patches <- MCPatches
    FirstAccounts <- MCFirstAccounts
    AdminCalls = {a1, a2}
    MaxAccountCalls = 2
    Urls = {"url"}
    Readers = {g1, g2}
    Ttl = 1
    MaxChanges = 1
    MaxRestarts = 1
    Events = {"created", "status", "poison"}
    Rounds <- MCRounds
    EventKind <- MCEventKind
    Addressee <- MCAddressee
    Partition <- MCPartition
    Partitions = {1}
    Sockets = {"s1"}
    Rooms <- MCRooms
    MaxLog = 3
    MaxFaults = 1
    Tabs = {"t1", "t2"}
    Goods = {"g1"}
    Least <- MCLeast
    MaxQty = 3
    MaxPending = 2
    MaxSockets = 2
    SettingsTabs = {"t1", "t2"}
    Galpoes = {"gA"}
    Usuarios = {"u1"}
    Textos = {"v0", "v1"}
    Padrao = "v0"
    MaxEdits = 2
    MaxToastTimers = 1
    CachedRows = {"r1"}
    RowCalls = {h1, h2}
    EntryTtl = 1
    MaxCommits = 3
    Produtos = {"p1", "p2"}
    produtosMock <- MCProdutos
    Categorias = {"Todos", "Bebidas", "Embalagens"}
    Marcas = {"Todas", "Pepsi"}
    Buscas = {"pepsi"}
    Contem <- MCContem
    Ceps = {"cep"}
    MaxQtd = 3
    MaxWaiting = 2
    Places = {"a", "b", "c"}
    Points <- MCPoints
    HaversineKm <- MCHaversineKm
    MaxWaypoints = 3
CHECK_DEADLOCK FALSE
PROPERTY RealTime
