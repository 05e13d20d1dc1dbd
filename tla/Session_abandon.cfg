SPECIFICATION Spec
CONSTANTS
    MaxCalls = 2
    Tools = {"exec"}
    Timeouts = {12}
    HardTimeout = 2
    UvTimeout = 48
    RecvTimeout = 4
    MaxFrames = 2
    Faults = {}
INVARIANT NoUseAfterAbandon
CHECK_DEADLOCK FALSE
