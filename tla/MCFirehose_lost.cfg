SPECIFICATION Spec
CONSTANTS
    MaxCommits = 2
    MaxRecords = 2
    Contents <- MCOne
    FlushEvery = 2
    Failures = {}
    Signals = TRUE
INVARIANTS NothingMissed
CHECK_DEADLOCK FALSE
