SPECIFICATION Spec
CONSTANTS
    Browsers = {b1, b2}
    b1 = b1
    b2 = b2
    Requests = {r1, r2, r3}
    r1 = r1
    r2 = r2
    r3 = r3
    None = None
    Earlier = Earlier
    MaxTokens = 3
    MaxLogins = 1
SYMMETRY Symmetry
CHECK_DEADLOCK FALSE
INVARIANT SpentStaysSpent
INVARIANT BoundBrowser
INVARIANT UnfencedIsPrivate
