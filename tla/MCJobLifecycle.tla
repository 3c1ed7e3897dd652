--------------------------- MODULE MCJobLifecycle ---------------------------
(* Instances of JobLifecycle for TLC: the sets of faults each run admits. *)
EXTENDS JobLifecycle, TLC

CONSTANTS j1, j2, w1, w2

NoFaults == {}
AllFaults == FaultKinds
CrashOnly == {"workerCrash"}

\* Workers are interchangeable.
Alike == Permutations(Workers)
=============================================================================
