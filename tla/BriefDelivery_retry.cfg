SPECIFICATION FairSpec
CONSTANTS
    r1 = r1
    r2 = r2
    s1 = s1
    s2 = s2
    w1 = w1
    w2 = w2
    Recipient = {r1}
    Early = {r1}
    Sched = {s1}
    Web = {w1}
    MaxRunAttempts = 3
    MaxSendAttempts = 3
    ScheduledAt = 0
    Stuck = 1
    Stale = 1
    Expiry = 3
    Answer = {"accepted", "refused", "invalid", "unanswered"}
    Punctual = TRUE
    MaxNow = 12
    MaxFaults = 1
    MaxRequests = 1
    CalmAfter = 0
INVARIANT SendsBounded
INVARIANT DuplicateNeedsLostRecord
PROPERTY ImplementsLedger
PROPERTY RunResolves
PROPERTY ClaimsResolve
CHECK_DEADLOCK FALSE
