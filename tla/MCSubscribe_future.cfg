CONSTANTS
    c1 = c1
    Consumers <- One
    BufSize = 1
    MaxSeq = 2
    ReadsFail = FALSE
SPECIFICATION SubSpec
PROPERTY
    ReturningIsNotFuture
CHECK_DEADLOCK FALSE
