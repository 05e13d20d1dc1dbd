SPECIFICATION Spec
CONSTANTS
    MaxRequests = 2
    Methods = {"exec", "install", "reset", "ping", "shutdown", "unknown", "garbled"}
    CodeEffects = {"bind", "input", "holdGIL", "kill"}
INVARIANT AbandonedReported ResetHolds
PROPERTY ServesInOrder
CHECK_DEADLOCK FALSE
