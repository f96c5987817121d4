SPECIFICATION Spec
CONSTANTS
    Procs = {p1, p2}
    Readers = {r1}
    MaxNumber = 2
    MaxExtractor = 2
    DirSyncMayFail = FALSE
    None = None
    ForeignFiles <- MCForeignFiles
SYMMETRY MCSymmetry
INVARIANTS
    PublishedIsWhole
    ReadersNeverPartial
PROPERTIES
    ImplementsPublished
