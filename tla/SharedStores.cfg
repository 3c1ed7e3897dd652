SPECIFICATION Spec
CONSTANTS
    p1 = p1
    p2 = p2
    r1 = r1
    r2 = r2
    v1 = v1
    v2 = v2
    None = None
    Preparers = {p1, p2}
    Version <- TwoVersions
    Reaches <- TwoReaches
    PageSize = 2
    HucFaults <- AllHucFaults
    MaxHucFaults = 2
    a1 = a1
    a2 = a2
    s1 = s1
    s2 = s2
    t1 = t1
    t2 = t2
    NoAttempt = NoAttempt
    NoScenario = NoScenario
    Attempts = {a1, a2}
    Scenarios = {s1, s2}
    Tiles = {t1, t2}
    Faults <- AllFaults
    MaxFaults = 3
    tab1 = tab1
    tab2 = tab2
    poll1 = poll1
    poll2 = poll2
    Tabs = {tab1, tab2}
    Polls = {poll1, poll2}
    NoTab = NoTab
    MaxTries = 2
    LoginFaults <- AllLoginFaults
    MaxLoginFaults = 1
INVARIANTS
    HucTypeOK
    MarkedHucIsComplete
    ReplacementIsWhole
    FoundHucIsWhole
    PublishTypeOK
    PublishedTilesExist
    LoginTypeOK
    TokenIsHandedOnce
    NoOrphanSession
PROPERTIES
    SuccessIsPublished
    RollbackRestores
SYMMETRY Alike
CHECK_DEADLOCK FALSE
