\* Two versions of the binary and a clean; kills and failures anywhere.
SPECIFICATION Spec
CONSTANTS
    old = old
    new = new
    cleaner = cleaner
    Users = {old, new}
    Cleaners = {cleaner}
    Version <- MCVersion
    MaxDirs = 2
    MaxLocks = 2
CONSTRAINT
    Unspoiled
INVARIANTS
    NothingHeldIsRemoved
PROPERTIES
    NewerStays
