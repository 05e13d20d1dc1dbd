SPECIFICATION Spec
CONSTANTS
    Version = {v1, v2}
    Image = {base, custom}
    DefaultVersions = {v1}
    BaseImage = base
    DefaultVersion = v1
    MaxLoads = 3
    MaxServers = 2
INVARIANT TypeOK AlwaysUsable ListedAreServed
PROPERTY ServersFrozen
CHECK_DEADLOCK FALSE
