\* Three threads and another process; leaders fail and panic, waits time out.
SPECIFICATION SyncSpec
CONSTANTS
    t1 = t1
    t2 = t2
    t3 = t3
    Threads = {t1, t2, t3}
    Modes = {"auto"}
    MaxEdits = 1
    MayFail = TRUE
    LockContended = TRUE
    FollowersTimeOut = TRUE
INVARIANTS
    OneLiveRun
    LeadersAreFresh
PROPERTIES
    EveryCallReturns
