SPECIFICATION Spec
CONSTANTS
    Name = {f, g}
    Text = {t, u}
    Blob = {b}
    MaxCalls = 2
    MaxInodes = 2
INVARIANT TypeOK KnownHolds RoundTrip ListExact
PROPERTY CallsReturn
CHECK_DEADLOCK FALSE
