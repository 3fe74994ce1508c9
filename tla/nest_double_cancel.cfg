\* One create and two cancels, one after the other.
SPECIFICATION Spec
CONSTANTS
    Requests = {r1, r2, r3}
    Products = {p1}
    Prices <- MCOnePrice
    Markup <- MCOneMarkup
    Quantities = {1, 2}
    MinQuantities = {1}
    Patches <- MCNoPatches
    StatusInputs = {"shipped"}
    InitStock = 2
    MaxItems = 1
    Ops = {"create", "cancel"}
    MaxInFlight = 1
    MaxCrashes = 0
SYMMETRY Symmetry
INVARIANT CancelRestoresOnce
