SPECIFICATION FairSpec
CONSTANTS
    Services = 3
    Grace = 2
    Codes = {0, 1, 2}
CHECK_DEADLOCK FALSE
PROPERTIES EndsContainer
INVARIANTS NoneLeft SignalsOwn SuccessWasAsked
