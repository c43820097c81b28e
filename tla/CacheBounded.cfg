SPECIFICATION Spec
CONSTANTS
    r1 = r1  r2 = r2
    Readers = {r1, r2}
    TTL = 2
    ReqTime = 1
    Intervals = {1, 3}
    MaxLoads = 2
    MaxTime = 6
CHECK_DEADLOCK FALSE
SYMMETRY ReaderSymmetry
INVARIANTS StaleBounded StaleOnlyByCrossing RefreshDelayed
