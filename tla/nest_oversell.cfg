\* Two concurrent creates over one product.
SPECIFICATION Spec
CONSTANTS
    Requests = {r1, r2}
    Products = {p1}
    Prices <- MCOnePrice
    Markup <- MCOneMarkup
    Quantities = {1, 2}
    MinQuantities = {1}
    Patches <- MCNoPatches
    StatusInputs = {"shipped"}
    InitStock = 2
    MaxItems = 1
    Ops = {"create"}
    MaxInFlight = 2
    MaxCrashes = 0
SYMMETRY Symmetry
INVARIANT NoOversell
