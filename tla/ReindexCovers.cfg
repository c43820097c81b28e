SPECIFICATION SpecReindex
CONSTANTS
    e1 = e1  e2 = e2  w = w
    Workers = {w}
    Cards = {1, 2}
    EventIds = {e1, e2}
    NoTask = NoTask
    BatchLimit = 2
    MaxTasks = 3
    MaxFaults = 0
    PageSize = 1
    MaxWalks = 2
CHECK_DEADLOCK FALSE
SYMMETRY EventSymmetry
INVARIANTS ReindexCovers
