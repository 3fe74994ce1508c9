\* Two overlapping reserve calls are promised the same units.
SPECIFICATION OverlapSpec
CONSTANTS
    Requests = {r1, r2}
    Products = {p1}
    Quantities = {2}
    Puts <- MCNoPuts
    Minimum <- MCMinimum
    InitQuantity = 2
    MaxItems = 1
    Ops = {"reserve"}
    MaxInFlight = 2
    MaxCrashes = 0
SYMMETRY Symmetry
INVARIANT NoOverPromise
