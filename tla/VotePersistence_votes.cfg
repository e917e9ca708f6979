SPECIFICATION FairSpec
CONSTANTS
    u1 = u1
    f1 = f1
    v1 = v1
    v2 = v2
    v3 = v3
    d1 = d1
    d2 = d2
    m1 = m1
    m2 = m2
    yes = yes
    no = no
    User = {u1}
    Browser = {f1}
    VoteReq = {v1, v2}
    DailyReq = {d1}
    MergeReq = {m1}
    Value = {yes, no}
INVARIANT CountsExact
PROPERTY OpinionKept
PROPERTY Converges
CHECK_DEADLOCK FALSE
