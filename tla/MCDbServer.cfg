\* Two statements and one schema request contend for one connection that is
\* dialled through a tunnel and can be cancelled.
CONSTANTS
    MaxConns = 1
    MaxCalls = 2
    MaxOps = 1
    Cancels = {1}
    Tunneled = {1}
    BrokenPipe = TRUE
SPECIFICATION Spec
INVARIANTS
    TypeOK
    OneStatementPerConnection
    NoUseAfterClose
    ResponseFirst
    OneTerminalState
    NoStaleHandle
    ExitDrained
PROPERTY QueuedCancelHarmless
