SPECIFICATION FairSpec
CONSTANTS
    e1 = e1
    e2 = e2
    r1 = r1
    s = s
    Event = {e1, e2}
    NoEvent = NoEvent
    Request = {r1}
    Scheduler = s
    MaxAttempts = 2
    Minute = 2
    MaxEvents = 1
INVARIANT OpenIsDue
INVARIANT GivenUpAfterAttempts
INVARIANT AcceptedOnce
PROPERTY Resolves
