SPECIFICATION FairSpec
CONSTANTS
    p1 = p1
    p2 = p2
    Proc = {p1, p2}
    Orphan = Orphan
    TTL = 6
    Beat = 1
    Retry = 1
    Jitter = 0
    MaxAttempts = 2
    ReAttempts = 2
    MaxFails = 2
    Call = 1
    MaxFaults = 1
INVARIANT OneScheduler
INVARIANT StraysBounded
PROPERTY JobsRunAgain
