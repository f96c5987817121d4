\* Two processes; flushing a directory may fail.
SPECIFICATION FairSpec
CONSTANTS
    Procs = {p1, p2}
    Readers = {}
    MaxNumber = 2
    MaxExtractor = 1
    DirSyncMayFail = TRUE
    None = None
    ForeignFiles <- MCForeignFiles
INVARIANTS
    LeftoversAreOurs
PROPERTIES
    NoLatePublish
    CallsEnd
