SPECIFICATION Spec
CONSTANTS
    j1 = j1
    j2 = j2
    w1 = w1
    w2 = w2
    NoJob = NoJob
    Jobs = {j1}
    Workers = {w1}
    Faults <- NoFaults
    MaxFaults = 0
PROPERTIES
    OnlyQueuedJobsAreCancelled
CHECK_DEADLOCK FALSE
