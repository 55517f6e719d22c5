SPECIFICATION FairSpec
CONSTANTS
    l1 = l1
    e1 = e1
    a1 = a1
    noEndpoint = noEndpoint
    noRow = noRow
    Labelers = {l1}
    Endpoints = {e1}
    NoEndpoint = noEndpoint
    NoRow = noRow
    Overrides = {"default"}
    Admins = {a1}
    AutoSubscribe = TRUE
    MaxSlots = 2
INVARIANTS OneSubscription PokeIsNotLost OperatorDecides StoreOutlives
PROPERTIES Converges ShutdownEnds
CHECK_DEADLOCK FALSE
