CONSTANTS
    Conn = {c1}
    Obj = {t1}
    AdHoc = AdHoc
    None = None
    ChainLen = 2
    LogMax = 2
    CacheOn = FALSE
    CacheSize = 1
    MaxRuns = 2
    MaxOpens = 1
    MaxOffset = 1
SPECIFICATION Spec
INVARIANT OneBufferAlive
