\* Three requests and three processes, the second of which fails its handshake
\* and keeps running, and one stop.
CONSTANTS
    Req = {r1, r2, r3}
    Hello = Hello
    NoCb = NoCb
    MaxJobs = 3
    MaxStops = 1
    BadHello = {2}
    Throws = {r3}
SPECIFICATION FairSpec
INVARIANTS
    TypeOK
    CallbackCustody
    NobodyStranded
    AnswerFromOwnProcess
PROPERTY EveryRequestAnswered
CHECK_DEADLOCK FALSE
