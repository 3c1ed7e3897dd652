--------------------------- MODULE MCPreparation ---------------------------
EXTENDS Preparation, TLC

CONSTANTS r1, r2, r3, h1, h2, w1, w2

TwoBatches == {{h1}, {h2}}
AllFaults == FaultKinds
LiveFaults == {"workerCrash", "sendError", "apiCrash"}

\* Workers are interchangeable, and so are the HUCs of batches of one HUC.
Alike == Permutations(Workers) \cup Permutations(Hucs)

\* So are runs that nobody cancels.
Interchangeable == Alike \cup Permutations(Runs)
=============================================================================
