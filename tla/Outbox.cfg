SPECIFICATION FairSpec
CONSTANTS
    c1 = c1  c2 = c2  e1 = e1  e2 = e2  w1 = w1  w2 = w2
    Workers = {w1, w2}
    Cards = {c1, c2}
    EventIds = {e1, e2}
    NoTask = NoTask
    BatchLimit = 2
    MaxTasks = 5
    MaxFaults = 1
CHECK_DEADLOCK FALSE
INVARIANTS StaleHasEvent
PROPERTIES Converges
