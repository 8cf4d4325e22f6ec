SPECIFICATION FairSpec
CONSTANTS
    Requests = {q1, q2}
    q1 = q1
    q2 = q2
    Calls = {c1, c2}
    c1 = c1
    c2 = c2
    NoCall = NoCall
    Capacity = 1
CHECK_DEADLOCK FALSE
INVARIANT SlotsAccounted
INVARIANT GaugeAccounted
INVARIANT WorkIsLeased
PROPERTY SlotsComeBack
