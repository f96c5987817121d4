\* A watched worktree, a channel of one event; syncs fail, panic and wait in
\* vain, and the handle is dropped at any time.
SPECIFICATION WatchSpec
CONSTANTS
    watcher = watcher
    opener = opener
    Threads = {watcher, opener}
    Modes = {"auto"}
    MaxEdits = 1
    MayFail = TRUE
    LockContended = TRUE
    FollowersTimeOut = TRUE
    Capacity = 1
CHECK_DEADLOCK FALSE
INVARIANTS
    DropLeavesNothing
PROPERTIES
    ChangesReachIndexAlone
    WatcherRests
