SPECIFICATION FairSpec
CONSTANTS
    c1 = c1  c2 = c2  j1 = j1  j2 = j2
    p1 = p1  p2 = p2  s1 = s1  s2 = s2  q1 = q1
    NoJob = NoJob  NoSlot = NoSlot
    Cards = {c1}
    JobIds = {j1, j2}
    Procs = {p1, p2}
    Slots = {s1, s2}
    ProcOf <- TwoProcs
    Clients = {q1}
    Lease = 3
    JobTimeout = 1
    LoadBudget = 1
    LoadsMayStall = FALSE
    MaxAttempts = 2
    RetryDelays = {1}
    ScheduleDelays = {0, 1}
    MaxAge = 0
    MaxClaims = 4
    MaxDeaths = 1
INVARIANTS TypeOK UniqueActiveJob JoinIsSafe ExclusiveHolder DisabledIsQuiet AttemptsBounded
PROPERTIES TerminalIsFinal IsWorkQueue ActiveSettles
