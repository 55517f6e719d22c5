CONSTANTS
    c1 = c1
    Consumers <- One
    BufSize = 1
    MaxSeq = 3
    ReadsFail = TRUE
SPECIFICATION FairSpec
INVARIANTS
    InOrder
    NoGap
    NoLeak
PROPERTIES
    Delivered
    ConnectionEnds
CHECK_DEADLOCK FALSE
