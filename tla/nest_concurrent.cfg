\* Three calls at a time, every operation, one crash.
SPECIFICATION Spec
CONSTANTS
    Requests = {r1, r2, r3}
    Products = {p1}
    Prices <- MCPrices
    Markup <- MCMarkup
    Quantities = {1, 2}
    MinQuantities = {1, 2}
    Patches <- MCPatches
    StatusInputs = {"shipped"}
    InitStock = 2
    MaxItems = 2
    Ops = {"create", "status", "cancel", "update", "restock", "remove"}
    MaxInFlight = 3
    MaxCrashes = 1
SYMMETRY Symmetry
INVARIANTS TypeOK StockNonNegative PriceConsistent
