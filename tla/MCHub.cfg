CONSTANTS
    w1 = w1
    w2 = w2
    s1 = s1
    s2 = s2
    Writers <- TwoWriters
    NoWriter = NoWriter
    Subscribers <- Two
    LiveSize = 1
    MaxSeq = 4
    MaxTime = 1
    Window = 0
    BatchSize = 2
    ClockSteps = FALSE
    PowerFails = FALSE
SPECIFICATION HubSpec
INVARIANTS
    ContiguousRetention
    ClosedOnce
PROPERTIES
    BroadcastAscending
    ImplementsLog
    PersistReturns
CHECK_DEADLOCK FALSE
