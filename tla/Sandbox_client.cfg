SPECIFICATION Spec
CONSTANTS
    MaxRequests = 2
    Methods = {"exec"}
    CodeEffects = {"print", "bind", "kill"}
INVARIANT TypeOK ReportExact BindingsStay
PROPERTY ServesCalls
CHECK_DEADLOCK FALSE
