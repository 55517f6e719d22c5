SPECIFICATION FairSpec
CONSTANTS
    MaxUp = 2
    MaxSubs = 2
    Contents <- MCContents
    Overrides <- MCOverrides
    SigDefault = TRUE
    PowerFails = TRUE
INVARIANT OneLateFrame
PROPERTIES PolicyInForce NothingLost ImplementsAtLeastOnce
CHECK_DEADLOCK FALSE
