SPECIFICATION FairSpec
CONSTANTS
    a = a
    b = b
    s1 = s1
    s2 = s2
    q1 = q1
    q2 = q2
    Job = {a, b}
    Sched = {s1}
    Request = {q1}
    MaxRetries = 1
    MaxActive = 2
    MaxQueued = 2
    Burst = 2
    MaxFaults = 1
PROPERTY ImplementsExclusiveRetry
PROPERTY JobDecided
CHECK_DEADLOCK FALSE
