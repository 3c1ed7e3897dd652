SPECIFICATION FairSpec
CONSTANTS
    l1 = l1
    l2 = l2
    Readers = {1, 2}
    Manifests = {1, 2}
    Contents = {1, 2}
    CacheSize = 1
    MaxPublishes = 3
    Lookups = {l1, l2}
    Span <- MCSpan
    Reaches <- MCReaches
    RetroReaches = {"a", "b"}
    LastRetro = 4
    TimeChunk = 2
    ArchiveHours = {5, 6}
    Layout <- MCLayout
    Masked <- MCMasked
    Chunk = 2
    Limits <- MCLimits
    NoLookup = NoLookup
    MaxChanges = 1
    Creators = {"c1", "c2", "c3"}
    NoCreator = "none"
    MaxLost = 1
INVARIANTS
    TypeOK
    ServedWasCurrent
    SamplesAreTheHours
    OneCreator
PROPERTIES
    LookupsEnd
CHECK_DEADLOCK FALSE
