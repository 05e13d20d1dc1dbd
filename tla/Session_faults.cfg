SPECIFICATION Spec
CONSTANTS
    MaxCalls = 3
    Tools = {"exec", "install"}
    Timeouts = {1, 12}
    HardTimeout = 2
    UvTimeout = 48
    RecvTimeout = 4
    MaxFrames = 2
    Faults = {"attach", "sendall", "network", "restart", "death", "hang", "input", "garble", "stderr"}
INVARIANT TypeOK DrainedOnReturn NetworkClosed
PROPERTY EveryCallReturns ServesCalls
CHECK_DEADLOCK FALSE
