CONSTANTS
    Writers <- Ids
    NoWriter = NoWriter
    MaxSeq = 2
    MaxTime = 1
    Window = 0
    BatchSize = 1
    ClockSteps = TRUE
    PowerFails = TRUE
    MaxUp = 2
    MaxSubs = 2
    Contents <- MCContents
    Overrides = {"default"}
    SigDefault = TRUE
SPECIFICATION IngestSpec
INVARIANTS
    FrameCarriesSeq
    CursorIsStored
    KeepsUpstreamOrder
CHECK_DEADLOCK FALSE
