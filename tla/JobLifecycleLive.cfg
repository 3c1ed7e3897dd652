SPECIFICATION FairSpec
CONSTANTS
    j1 = j1
    j2 = j2
    w1 = w1
    w2 = w2
    NoJob = NoJob
    Jobs = {j1, j2}
    Workers = {w1}
    Faults <- CrashOnly
    MaxFaults = 1
INVARIANTS
    KnownRunningIsOutstanding
PROPERTIES
    AcceptedJobsSettle
CHECK_DEADLOCK FALSE
