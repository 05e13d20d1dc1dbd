SPECIFICATION Spec
CONSTANTS
    MaxCalls = 4
    Tools = {"exec"}
    Timeouts = {0, 1}
    HardTimeout = 2
    UvTimeout = 48
    RecvTimeout = 4
    MaxFrames = 2
    Faults = {"attach", "death", "stderr"}
INVARIANT NoUseAfterAbandon
CHECK_DEADLOCK FALSE
