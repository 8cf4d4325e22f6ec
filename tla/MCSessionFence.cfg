SPECIFICATION Spec
CONSTANTS
    Requests = {r1, r2}
    r1 = r1
    r2 = r2
    None = None
    MaxTime = 4
    MaxGen = 3
    Deadline = 4
    Lifetime = 4
    Idle = 2
    Skew = 1
    RetryWindow = 1
    Grant = 2
    InitialExpiry = 2
SYMMETRY Symmetry
CHECK_DEADLOCK FALSE
INVARIANT NoResurrection
INVARIANT RotationIsDurable
PROPERTY AuthorityIsLive
PROPERTY NoOkAfterEnd
PROPERTY ImplementsRegister
