SPECIFICATION Spec
CONSTANTS
    h1 = h1
    h2 = h2
    c1 = c1
    None = None
    Handles <- MCHandles
    Cleaners <- MCCleaners
    Versions <- MCVersions
    Inodes <- MCInodes
    MaxOpens = 2
    MaxCleans = 1
    MaxCrashes = 1
    Timeouts = TRUE
CHECK_DEADLOCK FALSE
INVARIANTS
    IdentityReadsAreWhole
    StoreIsGuarded
