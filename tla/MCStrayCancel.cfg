\* Two statements on one connection, whose driver has a cancel_token.
CONSTANTS
    MaxConns = 1
    MaxCalls = 2
    MaxOps = 0
    Cancels = {1}
    Tunneled = {1}
    BrokenPipe = TRUE
SPECIFICATION Spec
INVARIANT CancelHitsOwnCall
