SPECIFICATION FairSpec
CONSTANTS
    MaxCommits = 3
    MaxRecords = 2
    Contents <- MCContents
    FlushEvery = 2
    Failures = {"store", "network", "meta"}
    Signals = TRUE
INVARIANTS RedialRepeatsNothing ReplayIsBounded
PROPERTIES CursorPassesTheTried EveryCommitIsDealtWith ImplementsAtLeastOnce
CHECK_DEADLOCK FALSE
