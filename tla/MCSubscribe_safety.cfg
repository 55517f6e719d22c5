CONSTANTS
    c1 = c1
    Consumers <- One
    BufSize = 2
    MaxSeq = 3
    ReadsFail = TRUE
SPECIFICATION SubSpec
INVARIANTS
    SubTypeOK
    ResumesWithoutGap
    OutdatedIsTrue
PROPERTY
    NeverAgain
CHECK_DEADLOCK FALSE
