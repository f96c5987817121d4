SPECIFICATION Spec
CONSTANTS
    Procs = {p1}
    Readers = {r1}
    MaxNumber = 2
    MaxExtractor = 1
    DirSyncMayFail = TRUE
    None = None
    ForeignFiles <- MCForeignFiles
INVARIANT ReadersNeverPartial
