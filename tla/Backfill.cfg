SPECIFICATION FairSpec
CONSTANTS
    Catalogue = 3
    BatchSize = 2
    MinGap = 1
    MaxGap = 1
    Modes = {"missing", "all_disabled"}
    MaxTime = 1
    MaxRuns = 2
    MaxErrors = 1
    MaxCrashes = 1
CHECK_DEADLOCK FALSE
INVARIANTS NothingPassedOver
PROPERTIES BatchesSpaced RunEnds
