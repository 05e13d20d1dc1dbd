SPECIFICATION Spec
CONSTANTS
    MaxSessions = 1
    MaxContainers = 1
    File = {f}
INVARIANT EndedIsRemoved
