\* Two processes that shake hands well; the first is stopped.
CONSTANTS
    Req = {r1, r2, r3}
    Hello = Hello
    NoCb = NoCb
    MaxJobs = 2
    MaxStops = 1
    BadHello = {}
    Throws = {}
SPECIFICATION Spec
INVARIANT OneEngine
CHECK_DEADLOCK FALSE
