SPECIFICATION FairJobSpec
CONSTANTS
    a = a
    b = b
    k1 = k1
    w1 = w1
    w2 = w2
    s1 = s1
    q1 = q1
    q2 = q2
    Job = {a, b}
    Key = {k1}
    KeyOf <- MCKeyOf
    Worker = {w1, w2}
    Sweeper = {s1}
    Requester = {q1, q2}
    MaxAttempts = 2
    MayBeUnready = TRUE
INVARIANT OneWorkerPerJob
INVARIANT OneResultPerJob
INVARIANT DuplicateJobExplained
PROPERTY ImplementsExclusiveRetry
PROPERTY JobSettles
CHECK_DEADLOCK FALSE
