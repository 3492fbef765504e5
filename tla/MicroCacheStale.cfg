\* One key; queries of up to two ticks.
SPECIFICATION Spec
CONSTANTS
    Keys = {k1}
    Loads = {l1}
    None = None
    TTL = 2
    MaxEntries = 1
    MaxLoad = 2
    MaxTime = 5
    MaxWrites = 1
    MaxClears = 0
CHECK_DEADLOCK FALSE
INVARIANTS
    StaleWithinTTL
