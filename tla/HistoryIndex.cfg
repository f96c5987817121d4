SPECIFICATION Spec
CONSTANTS
    Commits <- MCCommits
    Chain <- MCChain
    Branches = {"main", "other"}
    MainBranch = "main"
    Verified = {v1}
    After <- MCAfter
    Procs = {p, q}
    Binary <- MCBinary
    SyncLimit = 1
    RebuildLimit = 3
    Texts = {"t1"}
CONSTRAINT ImportsOnMain
SYMMETRY Symmetry
INVARIANTS
    CursorCoversRows
    ReadableIsCurrent
PROPERTIES
    VerifiedStay
