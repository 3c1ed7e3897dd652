--------------------------- MODULE MCSharedStores ---------------------------
EXTENDS SharedStores, TLC

CONSTANTS
    p1, p2, r1, r2, v1, v2,    \* the collection: preparers, reaches, versions
    a1, a2, s1, s2, t1, t2,    \* the outputs: attempts, scenarios, tiles
    tab1, tab2, poll1, poll2   \* the login

TwoReaches == <<r1, r2>>
TwoVersions == (p1 :> v1) @@ (p2 :> v2)

AllHucFaults == HucFaultKinds
AllFaults == FaultKinds
AllLoginFaults == LoginFaultKinds

\* Scenarios and tiles are interchangeable.
Alike == Permutations(Scenarios) \cup Permutations(Tiles)
=============================================================================
