CONSTANTS
    w1 = w1
    c1 = c1
    Writers <- OneWriter
    Consumers <- OneClient
    NoWriter = NoWriter
    MaxSeq = 2
    MaxTime = 1
    Window = 0
    BatchSize = 1
    BufSize = 1
    ClockSteps = FALSE
    PowerFails = FALSE
    ReadsFail = FALSE
SPECIFICATION RelaySpec
INVARIANT
    YoungIsNotMissed
PROPERTIES
    ImplementsEndpoint
    TooSlowIsGenuine
CHECK_DEADLOCK FALSE
