SPECIFICATION Spec
CONSTANTS
    MaxSessions = 2
    MaxContainers = 3
    File = {f}
INVARIANT TypeOK NoSilentOrphans RegisteredExists OneOwner
PROPERTY HandlersReturn SessionsIndependent
