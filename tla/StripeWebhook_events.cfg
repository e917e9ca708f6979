SPECIFICATION FairSpec
CONSTANTS
    Workers = 2
    MaxSpent = 5
INVARIANTS
    AckedIsHandled
    HandledOnce
PROPERTIES
    Converges
    BriefingsFollow
CHECK_DEADLOCK FALSE
