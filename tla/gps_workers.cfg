\* A client of one process, a POST to another.
SPECIFICATION GpsSpec
CONSTANTS
    Workers = {w1, w2}
    Trucks = {t1}
    GpsSockets = {s1}
    Drivers = {}
    Posts = {q1}
    Truck <- MCTruck
    HistoryMax = 1
    MaxUpdates = 1
    MaxGpsFaults = 0
CHECK_DEADLOCK FALSE
INVARIANT EveryClientKnowsLast
