CONSTANTS
    c1 = c1
    Consumers <- One
    BufSize = 2
    MaxSeq = 4
    ReadsFail = TRUE
SPECIFICATION Spec
PROPERTY
    TooSlowIsGenuine
CHECK_DEADLOCK FALSE
