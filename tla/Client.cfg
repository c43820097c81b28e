SPECIFICATION FairSpec
CONSTANTS
    a = a  b = b
    Callers = {a, b}
    MaxConcurrency = 1
    MaxRetries = 2
    TaskTimeout = 2
    Poll = 1
    Owns = TRUE
PROPERTIES ClosedIsSaid CallsEnd
INVARIANTS ConcurrencyBounded WritesOnce WaitKeepsDeadline
