SPECIFICATION Spec
CONSTANTS
    r1 = r1
    r2 = r2
    r3 = r3
    h1 = h1
    h2 = h2
    w1 = w1
    w2 = w2
    NoRun = NoRun
    NoTask = NoTask
    NoHuc = NoHuc
    Runs = {r1, r2}
    Hucs = {h1, h2}
    Batches <- TwoBatches
    Workers = {w1}
    Cancellable = {r1}
    Faults = {}
    MaxFaults = 0
INVARIANTS
    OneRunAtATime
SYMMETRY Alike
CHECK_DEADLOCK FALSE
