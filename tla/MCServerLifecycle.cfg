CONSTANTS
    Requests = {r1, r2}
    Steps <- MCSteps
    Closable = {"redis", "keyring"}
    ShutdownLimit = 2
SPECIFICATION ProcessSpec
CHECK_DEADLOCK FALSE
INVARIANT StopIsOrderly
PROPERTY SignalStops
