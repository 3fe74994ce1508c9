\* Create and change of status at once, with a disconnection, a rebalance or a restart; and
\* a driver, a watcher and a post on one truck, over two processes, with a fault.
SPECIFICATION ProcessesSpec
CONSTANTS
    Requests = {"c1", "s1"}
    Foreign = {"x1"}
    Products = {"p1"}
    Prices <- MCPrices
    Markup <- MCMarkup
    Quantities = {1}
    MinQuantities = {1}
    Patches <- MCPatches
    StatusInputs = {"shipped"}
    InitStock = 1
    MaxItems = 1
    Ops = {"create", "status", "cancel", "update", "remove"}
    MaxInFlight = 2
    MaxCrashes = 1
    EventKind <- MCKind
    Addressee <- MCAddressee
    Partition <- MCPartition
    Partitions <- MCPartitions
    Sockets = {"k1"}
    Rooms <- MCRooms
    MaxLog = 2
    MaxFaults = 1
    Workers = {w1, w2}
    Trucks = {t1}
    GpsSockets = {s1, s2}
    Drivers = {s1}
    Posts = {q1}
    Truck <- MCTruck
    HistoryMax = 1
    MaxUpdates = 1
    MaxGpsFaults = 1
CHECK_DEADLOCK FALSE
INVARIANTS
    MessagesAreAboutOrders
    AcceptedIsHeld
    LogFollowsAnswers
    GpsTypeOK
    ClientsKnowLast
    ConnectedIsRegistered
    GoneIsUnregistered
