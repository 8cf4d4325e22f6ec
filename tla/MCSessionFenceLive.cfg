SPECIFICATION FairSpec
CONSTANTS
    Requests = {r1, r2}
    r1 = r1
    r2 = r2
    None = None
    MaxTime = 1
    MaxGen = 3
    Deadline = 3
    Lifetime = 3
    Idle = 2
    Skew = 1
    RetryWindow = 1
    Grant = 2
    InitialExpiry = 2
CHECK_DEADLOCK FALSE
PROPERTY EveryRequestEnds
