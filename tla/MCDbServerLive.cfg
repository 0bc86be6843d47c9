\* Two statements and one schema request on one connection, with fairness. The
\* driver has no cancel_token here: firing a cancel never waits for a task.
CONSTANTS
    MaxConns = 1
    MaxCalls = 2
    MaxOps = 1
    Cancels = {}
    Tunneled = {1}
    BrokenPipe = FALSE
SPECIFICATION FairSpec
PROPERTIES
    ImplementsFairLifecycle
    EveryLinkReleased
    EofLeadsToExit
