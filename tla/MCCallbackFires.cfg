\* One process that shakes hands well and is never stopped; the first request's
\* callback raises an error.
CONSTANTS
    Req = {r1, r2}
    Hello = Hello
    NoCb = NoCb
    MaxJobs = 1
    MaxStops = 0
    BadHello = {}
    Throws = {r1}
SPECIFICATION FairSpec
PROPERTY CallbackFires
CHECK_DEADLOCK FALSE
