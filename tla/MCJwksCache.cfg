SPECIFICATION Spec
CONSTANTS
    Callers = {c1, c2}
    Kids = {k1, k2}
    Shared = shared
    NoStore304 = TRUE
    Headers <- AllHeaders
    MaxCalls = 2
    MaxTime = 3
    MaxRev = 2
    DefaultFresh = 1
    MaxFresh = 1
    MaxStale = 1
    Window = 1
    Timeout = 1
CHECK_DEADLOCK FALSE
SYMMETRY Symmetry
INVARIANT TrustIsRecent
INVARIANT ThrottleIsBrief
INVARIANT CancelIsHarmless
