\* Two runs, of which one may be the refresh behind a row write; a cache of
\* one buffer and a log of two entries.
CONSTANTS
    Conn = {c1}
    Obj = {t1}
    AdHoc = AdHoc
    None = None
    ChainLen = 2
    LogMax = 2
    CacheOn = TRUE
    CacheSize = 1
    MaxRuns = 2
    MaxOpens = 1
    MaxOffset = 1
SPECIFICATION Spec
INVARIANTS
    TypeOK
    CachedCallsLive
    KeptBuffersBounded
    TotalOfOwnOrigin
    ChainOrdered
PROPERTY OffsetOfOwnCall
