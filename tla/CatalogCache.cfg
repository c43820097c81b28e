SPECIFICATION Spec
CONSTANTS
    q1 = q1  q2 = q2
    Requests = {q1, q2}
    Fields = {"name", "desc"}
    TTL = 1
    ReqTime = 1
    MaxWrites = 2
    MaxTime = 3
CHECK_DEADLOCK FALSE
SYMMETRY RequestSymmetry
INVARIANTS FieldsRecent ShownOnlyByCrossing
PROPERTIES FieldsForward
