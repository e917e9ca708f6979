SPECIFICATION Spec
CONSTANTS
    r1 = r1
    r2 = r2
    s1 = s1
    s2 = s2
    w1 = w1
    w2 = w2
    Recipient = {r1, r2}
    Early = {r1, r2}
    Sched = {s1}
    Web = {w1}
    MaxRunAttempts = 2
    MaxSendAttempts = 3
    ScheduledAt = 0
    Stuck = 1
    Stale = 1
    Expiry = 9
    Answer = {"accepted", "refused", "invalid", "unanswered"}
    Punctual = FALSE
    MaxNow = 2
    MaxFaults = 0
    MaxRequests = 1
    CalmAfter = 4
INVARIANT OneSenderPerRecipient
INVARIANT EmailsSentCountsRows
INVARIANT SentRunTriedEveryone
SYMMETRY Symmetry
CHECK_DEADLOCK FALSE
