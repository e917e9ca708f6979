SPECIFICATION FairSpec
CONSTANTS
    b1 = b1
    b2 = b2
    x1 = x1
    i1 = i1
    i2 = i2
    Bsky = {b1, b2}
    X = {x1}
    Instance = {i1, i2}
    XInstance = {i1}
    MaxPerDay = 1
    MaxFaults = 1
INVARIANT CopiesPaidFor
INVARIANT LimitKept
PROPERTY Settles
