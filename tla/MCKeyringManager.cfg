SPECIFICATION FairSpec
CONSTANTS
    Callers = {c1, c2}
    c1 = c1
    c2 = c2
    c3 = c3
    Poller = Poller
    None = None
    k1 = k1
    k2 = k2
    Keys = {k1, k2}
    Unreadable = Unreadable
    FirstDoc <- MCFirstDoc
    MaxWrites = 2
    CounterSize = 2
CHECK_DEADLOCK FALSE
INVARIANT KeyringIsGenuine
PROPERTY SwapsAdvance
PROPERTY CloseEnds
PROPERTY CatchesUp
