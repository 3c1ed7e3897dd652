SPECIFICATION FairSpec
CONSTANTS
    Width <- TwoLines
    MaxBytes = 4
    Faults <- AllFaults
    MaxFaults = 2
INVARIANTS
    TypeOK
    SettledShowsWholeLog
PROPERTIES
    PollingEnds
CHECK_DEADLOCK FALSE
