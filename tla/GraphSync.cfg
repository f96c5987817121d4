\* Two files, one sync at a time, two edits, crashes anywhere.
SPECIFICATION Spec
CONSTANTS
    f1 = f1
    f2 = f2
    def = def
    use = use
    big = big
    x = x
    Files = {f1, f2}
    Contents = {def, use, big}
    Names = {x}
    Absent = Absent
    Pending = Pending
    ByteLen <- McByteLen
    MaxFileBytes = 2
    Defines <- McDefines
    Uses <- McUses
    Aliases <- McAliases
    Manifests <- NoFiles
    EpochFiles <- NoFiles
    MaxClock = 3
SYMMETRY Symmetry
INVARIANTS
    CurrentRowsAreWhole
    RefsMatchFullRebuild
    FastPathSound
    PendingNeverSkipped
    CompletedSyncIsCurrent
