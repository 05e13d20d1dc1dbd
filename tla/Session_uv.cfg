SPECIFICATION Spec
CONSTANTS
    MaxCalls = 1
    Tools = {"install"}
    Timeouts = {1}
    HardTimeout = 2
    UvTimeout = 48
    RecvTimeout = 4
    MaxFrames = 2
    Faults = {}
INVARIANT InstallHasNetwork
CHECK_DEADLOCK FALSE
