\* Three calls, one at a time, two products, every operation, one crash.
SPECIFICATION Spec
CONSTANTS
    Requests = {r1, r2, r3}
    Products = {p1, p2}
    Prices <- MCOnePrice
    Markup <- MCOneMarkup
    Quantities = {1, 2}
    MinQuantities = {1, 2}
    Patches <- MCShelfPatches
    StatusInputs = {"shipped", "pending"}
    InitStock = 2
    MaxItems = 2
    Ops = {"create", "status", "cancel", "update", "restock", "remove"}
    MaxInFlight = 1
    MaxCrashes = 1
SYMMETRY Symmetry
INVARIANT LedgerExact
PROPERTY ImplementsOrderBook
