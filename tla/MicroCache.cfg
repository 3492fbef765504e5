\* Three keys in a cache of two, two loads at a time.
SPECIFICATION Spec
CONSTANTS
    Keys = {k1, k2, k3}
    Loads = {l1, l2}
    None = None
    TTL = 2
    MaxEntries = 2
    MaxLoad = 1
    MaxTime = 3
    MaxWrites = 1
    MaxClears = 1
CHECK_DEADLOCK FALSE
SYMMETRY Symmetry
INVARIANTS
    SingleFlight
    NeverBack
    FreshHits
PROPERTIES
    EvictsOldest
