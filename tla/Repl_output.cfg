SPECIFICATION Spec
CONSTANTS
    MaxRequests = 3
    Methods = {"exec"}
    CodeEffects = {"print", "show", "kill"}
CONSTRAINT NothingAbandoned
INVARIANT TypeOK
INVARIANT OutputExact
INVARIANT ChannelClean
CHECK_DEADLOCK FALSE
