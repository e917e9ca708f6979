SPECIFICATION FairSpec
CONSTANTS
    i1 = i1
    i2 = i2
    Instance = {i1, i2}
    Hours = 3
    Days = 2
    ShiftAt = 4
    Slow = 1
    MaxNow = 6
    MaxFaults = 1
    MaxHand = 1
INVARIANT OnePerPeriod
INVARIANT ServedHasRun
PROPERTY InOrder
PROPERTY ComesToHaveRun
CHECK_DEADLOCK FALSE
