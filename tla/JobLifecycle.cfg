SPECIFICATION Spec
CONSTANTS
    j1 = j1
    w1 = w1
    w2 = w2
    j2 = j2
    NoJob = NoJob
    Jobs = {j1}
    Workers = {w1, w2}
    Faults <- AllFaults
    MaxFaults = 3
INVARIANTS
    TypeOK
    KnownStatusIsTrue
    ArchiveBeforeResult
    RejectionLeavesNoAccess
PROPERTIES
    RejectedJobNeverStarts
    ImplementsHistory
SYMMETRY Alike
CHECK_DEADLOCK FALSE
