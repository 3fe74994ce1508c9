\* Three orders, reservations and consumptions, overlapping or not; one crash.
SPECIFICATION OverlapSpec
CONSTANTS
    Requests = {r1, r2, r3}
    Products = {p1, p2}
    Quantities = {1, 2}
    Puts <- MCNoPuts
    Minimum <- MCMinimum
    InitQuantity = 3
    MaxItems = 2
    Ops = {"order", "reserve", "consume"}
    MaxInFlight = 3
    MaxCrashes = 1
SYMMETRY Symmetry
INVARIANTS
    TypeOK
    WithinQuantityUntilOverlap
    ExactUntilOverlap
    NoPhantomReservation
    NoSilentShortage
