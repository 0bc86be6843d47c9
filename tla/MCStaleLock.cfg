CONSTANTS
    Conn = {c1}
    Obj = {t1, t2}
    AdHoc = AdHoc
    None = None
    ChainLen = 2
    LogMax = 2
    CacheOn = TRUE
    CacheSize = 1
    MaxRuns = 3
    MaxOpens = 1
    MaxOffset = 1
SPECIFICATION Spec
INVARIANT WriteAddressesOwnObject
