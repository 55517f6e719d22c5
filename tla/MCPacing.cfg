SPECIFICATION FairSpec
CONSTANTS
    SecondTicks = 2
    HourTicks = 6
    MaxPerSec = 2
    MaxPerHour = 3
    InitialDelay = 1
    MaxDelay = 5
    ResetAfter = 5
    JitterShare = 2
INVARIANTS BudgetIsKept HourIsNotWasted PatienceGrows
PROPERTIES WaitEnds CancelEnds
CHECK_DEADLOCK FALSE
