SPECIFICATION Spec
CONSTANTS
    a = a
    b = b
    s1 = s1
    s2 = s2
    q1 = q1
    q2 = q2
    Job = {a}
    Sched = {s1, s2}
    Request = {q1}
    MaxRetries = 2
    MaxActive = 2
    MaxQueued = 2
    Burst = 2
    MaxFaults = 2
INVARIANT OneProcessorPerJob
INVARIANT BegunBounded
INVARIANT ActiveCoversWorking
INVARIANT QueuedIsSomewhere
CHECK_DEADLOCK FALSE
