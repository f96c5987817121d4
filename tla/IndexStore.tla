----------------------------- MODULE IndexStore -----------------------------
(***************************************************************************)
(* One database family of the index directory (`<db>`, `-wal`, `-shm`,     *)
(* `.lock`, `.close.lock`) and the processes that open, sync, close and    *)
(* clean it.  A handle opens the database of its own schema version; a     *)
(* cleaner belongs to a binary for which the family is obsolete.           *)
(*                                                                         *)
(* Three advisory locks are taken in one order: the sync (or setup) lock   *)
(* on the inode named `.lock`, the observation lock on the directory and   *)
(* the close lock.  A lock file can be unlinked and re-created, so the     *)
(* sync lock is held on an inode, not on a name; the directory is never    *)
(* unlinked; the close lock is only ever taken under the observation lock, *)
(* so its inode does not matter and its holder is enough.                  *)
(*                                                                         *)
(* SQLite is modelled by how the store uses it: opening read-write creates *)
(* a missing file, a WAL database's writer publishes both sidecars, the    *)
(* last close of a database still at its path checkpoints it and unlinks   *)
(* `-shm`, then `-wal`; an opener waits while that close runs.             *)
(***************************************************************************)
EXTENDS Naturals, FiniteSets

CONSTANTS
    Handles,    \* processes with a graph handle
    Cleaners,   \* processes running clean_old_databases
    None,       \* nobody
    Versions,   \* the [Handles -> schema version] to consider, each a binary's own
    Inodes,     \* inode numbers, reused once nothing refers to one
    MaxOpens,   \* bound: opens in a behaviour
    MaxCleans,  \* bound: cleans in a behaviour
    MaxCrashes, \* bound: crashes in a behaviour
    Timeouts    \* whether a lock wait may run into its timeout

Procs == Handles \union Cleaners

\* Nothing at a path: no inode has this number.
Nil == 0

ASSUME StoreAssumption ==
    /\ IsFiniteSet(Procs) /\ Handles \intersect Cleaners = {} /\ None \notin Procs
    /\ Versions \subseteq [Handles -> Nat \ {0}]
    /\ Inodes \subseteq Nat \ {0} /\ IsFiniteSet(Inodes)
    \* There is room for one more file than the paths and the processes can refer to.
    /\ Cardinality(Inodes) > 2 + Cardinality(Procs) + 2 * Cardinality(Handles)
    /\ MaxOpens \in Nat /\ MaxCleans \in Nat /\ MaxCrashes \in Nat /\ Timeouts \in BOOLEAN

VARIABLES
    dir,      \* holder of the observation lock
    lock,     \* inode named `.lock`
    lockBy,   \* [Inodes -> holder of the lock on that inode]
    closeBy,  \* holder of the close lock
    db,       \* inode named by the database path
    version,  \* [Handles -> SCHEMA_VERSION of its binary]
    file,     \* [Inodes -> [schema, wal]]: stored identity and WAL header
    side,     \* the sidecars at the path: [wal |-> none/header/frames, shm]
    pc,       \* [Procs -> where the process is]
    job,      \* [Handles -> what a connection is being closed for]
    fd,       \* [Procs -> inode of the opened `.lock`]
    via,      \* [Handles -> how the identity is being read]
    conn,     \* [Handles -> inode of the handle's connection]
    sconn,    \* [Handles -> inode of the sync's connection]
    res,      \* [Handles -> how the last open ended]
    opens,    \* opens so far
    cleans,   \* cleans so far
    crashes,  \* crashes so far
    torn,     \* ghost: identity reads a checkpoint ran under
    stray,    \* ghost: a teardown ran unguarded or was cut by a crash
    swept     \* ghost: clean removed the database while a handle had or sought it

locks == <<dir, lock, lockBy, closeBy>>
disk == <<db, file, side, version>>
bounds == <<opens, cleans, crashes>>
ghosts == <<torn, stray, swept>>
vars == <<locks, disk, pc, job, fd, via, conn, sconn, res, bounds, ghosts>>

Empty == [schema |-> 0, wal |-> FALSE]
NoSide == [wal |-> "none", shm |-> FALSE]

Places == {"idle", "precheck", "inspect", "header", "lockfile", "wantlock", "observe", "recheck",
           "create", "init", "close", "checkpoint", "shm", "wal", "opened", "ready", "write",
           "drop", "trydir", "tryclose", "db", "side", "lock", "release"}

Results == {"none", "ok", "timeout", "incompatible", "unreadable", "broken"}

TypeOK ==
    /\ dir \in Procs \union {None} /\ closeBy \in Procs \union {None}
    /\ lock \in Inodes \union {Nil} /\ db \in Inodes \union {Nil}
    /\ lockBy \in [Inodes -> Procs \union {None}]
    /\ file \in [Inodes -> [schema : Nat, wal : BOOLEAN]]
    /\ version \in Versions
    /\ side \in [wal : {"none", "header", "frames"}, shm : BOOLEAN]
    /\ pc \in [Procs -> Places]
    /\ job \in [Handles -> {"open", "sync", "drop", "fail"}]
    /\ fd \in [Procs -> Inodes \union {Nil}]
    /\ via \in [Handles -> {"none", "live", "main"}]
    /\ conn \in [Handles -> Inodes \union {Nil}] /\ sconn \in [Handles -> Inodes \union {Nil}]
    /\ res \in [Handles -> Results]
    /\ opens \in 0 .. MaxOpens /\ cleans \in 0 .. MaxCleans /\ crashes \in 0 .. MaxCrashes
    /\ torn \subseteq Handles /\ stray \in BOOLEAN /\ swept \in BOOLEAN

\* The directory before any of these processes: no database, one an opener
\* left empty, or one that some binary initialized and closed.
Init ==
    /\ dir = None /\ closeBy = None /\ lock = Nil
    /\ lockBy = [i \in Inodes |-> None]
    /\ version \in Versions
    /\ \E i \in Inodes, s \in {0} \union {version[p] : p \in Handles} :
          \/ db = Nil /\ s = 0 /\ file = [x \in Inodes |-> Empty]
          \/ /\ db = i /\ \A x \in Inodes : i <= x
             /\ file = [x \in Inodes |-> IF x = i THEN [Empty EXCEPT !.schema = s, !.wal = s # 0]
                                                  ELSE Empty]
    /\ side = NoSide
    /\ pc = [p \in Procs |-> "idle"] /\ fd = [p \in Procs |-> Nil]
    /\ job = [p \in Handles |-> "open"] /\ via = [p \in Handles |-> "none"]
    /\ conn = [p \in Handles |-> Nil] /\ sconn = [p \in Handles |-> Nil]
    /\ res = [p \in Handles |-> "none"] /\ opens = 0
    /\ cleans = 0 /\ crashes = 0 /\ torn = {} /\ stray = FALSE /\ swept = FALSE

-----------------------------------------------------------------------------
(* Inodes and SQLite *)

\* An inode nothing refers to any more, for a file about to be created.
Fresh ==
    CHOOSE i \in Inodes :
        /\ i # db /\ i # lock /\ lockBy[i] = None
        /\ \A p \in Procs : fd[p] # i
        /\ \A p \in Handles : conn[p] # i /\ sconn[p] # i

\* Opening the database read-write: a missing file is created, a WAL database
\* gets its sidecars.  It waits while a last close holds the database.
Target(p) == IF job[p] = "sync" THEN sconn[p] ELSE conn[p]
Closing(i) == \E p \in Handles : pc[p] \in {"checkpoint", "shm", "wal"} /\ Target(p) = i
Opened == IF db = Nil THEN Fresh ELSE db
Create ==
    /\ db' = Opened
    /\ file' = IF db = Nil THEN [file EXCEPT ![Fresh] = Empty] ELSE file
Publish(i) == IF file[i].wal THEN [wal |-> IF side.wal = "none" THEN "header" ELSE side.wal,
                                   shm |-> TRUE]
                             ELSE side

\* The close of a connection to inode i checkpoints and unlinks the sidecars
\* when it is the last one and the database still has its path.
LastClose(p, i) ==
    /\ i = db /\ file[i].wal
    /\ \A q \in Handles \ {p} : conn[q] # i /\ sconn[q] # i
    /\ ~(conn[p] = i /\ sconn[p] = i)

\* A checkpoint into the main file under a reader of the main file alone.
TornBy == {q \in Handles : pc[q] \in {"inspect", "recheck"} /\ via[q] = "main"}

Holds(p) == fd[p] # Nil /\ lockBy[fd[p]] = p
Freed(p) == [i \in Inodes |-> IF lockBy[i] = p THEN None ELSE lockBy[i]]
FreedDir(p) == IF dir = p THEN None ELSE dir
FreedClose(p) == IF closeBy = p THEN None ELSE closeBy

To(p, s) == pc' = [pc EXCEPT ![p] = s]

\* Leaving an open or a drop: every guard on the stack is released.
Leave(p, s, r) ==
    /\ To(p, s)
    /\ res' = [res EXCEPT ![p] = r]
    /\ lockBy' = Freed(p) /\ fd' = [fd EXCEPT ![p] = Nil]
    /\ dir' = FreedDir(p) /\ closeBy' = FreedClose(p)
    /\ via' = [via EXCEPT ![p] = "none"]

\* The process is done with Target(p): the guards go with it.
Closed(p) ==
    /\ conn' = IF job[p] = "sync" THEN conn ELSE [conn EXCEPT ![p] = Nil]
    /\ sconn' = [sconn EXCEPT ![p] = Nil]
    /\ CASE job[p] = "open" -> Leave(p, "opened", res[p])
         [] job[p] = "sync" -> Leave(p, "ready", res[p])
         [] job[p] = "drop" -> Leave(p, "idle", res[p])
         [] job[p] = "fail" -> Leave(p, "idle", "incompatible")

\* Dropping a connection, given what has to be done for it besides.
DropConnection(p) ==
    IF LastClose(p, Target(p))
    THEN To(p, "checkpoint") /\ UNCHANGED <<lockBy, fd, dir, closeBy, via, res, conn, sconn>>
    ELSE Closed(p)

-----------------------------------------------------------------------------
(* Graph::open, first half: open_at_path *)

BeginOpen(p) ==
    /\ pc[p] = "idle" /\ opens < MaxOpens
    /\ opens' = opens + 1
    /\ job' = [job EXCEPT ![p] = "open"] /\ res' = [res EXCEPT ![p] = "none"]
    /\ To(p, IF db = Nil THEN "lockfile" ELSE "precheck")
    /\ UNCHANGED <<locks, disk, fd, via, conn, sconn, cleans, crashes, ghosts>>

\* How an observational connection may read the database, from its header
\* and the sidecars present.
ReadCurrency ==
    CASE db = Nil \/ ~file[db].wal -> "live"
      [] side.wal # "none" /\ side.shm -> "live"
      [] side.wal = "none" /\ side.shm -> "error"
      [] side.wal = "frames" /\ ~side.shm -> "error"
      [] OTHER -> "main"

\* Takes the observation lock and decides the currency of the identity read.
StartRead(p, next) ==
    IF ReadCurrency = "error"
    THEN /\ Leave(p, "idle", "unreadable") /\ UNCHANGED lock
    ELSE /\ dir' = p /\ via' = [via EXCEPT ![p] = ReadCurrency]
         /\ To(p, next)
         /\ UNCHANGED <<lock, lockBy, closeBy, fd, res>>

Precheck(p) ==
    /\ pc[p] = "precheck" /\ dir = None
    /\ StartRead(p, "inspect")
    /\ UNCHANGED <<disk, job, conn, sconn, bounds, ghosts>>

NeedsInit == db = Nil \/ file[db].schema = 0

ValidIdentity(p, i) == file[i].schema = version[p]

\* The read of the precheck, and the release of the observation lock.
Inspect(p) ==
    /\ pc[p] = "inspect"
    /\ CASE NeedsInit -> Leave(p, "lockfile", res[p])
         [] ~NeedsInit /\ ValidIdentity(p, db) -> Leave(p, "header", res[p])
         [] OTHER -> Leave(p, "idle", "incompatible")
    /\ UNCHANGED <<lock, disk, job, conn, sconn, bounds, ghosts>>

\* An initialized WAL database needs no setup lock.
CheckHeader(p) ==
    /\ pc[p] = "header"
    /\ To(p, IF db # Nil /\ file[db].wal THEN "observe" ELSE "lockfile")
    /\ UNCHANGED <<locks, disk, job, fd, via, conn, sconn, res, bounds, ghosts>>

\* Opening `.lock` creates it; the lock is then taken on that inode, which
\* may have lost its name by then.
OpenLockFile(p) ==
    /\ pc[p] = "lockfile"
    /\ lock' = IF lock = Nil THEN Fresh ELSE lock
    /\ fd' = [fd EXCEPT ![p] = lock']
    /\ To(p, "wantlock")
    /\ UNCHANGED <<dir, lockBy, closeBy, disk, job, via, conn, sconn, res, bounds, ghosts>>

TakeSetupLock(p) ==
    /\ pc[p] = "wantlock" /\ job[p] = "open" /\ lockBy[fd[p]] = None
    /\ lockBy' = [lockBy EXCEPT ![fd[p]] = p]
    /\ To(p, "observe")
    /\ UNCHANGED <<dir, lock, closeBy, disk, job, fd, via, conn, sconn, res, bounds, ghosts>>

\* The observation lock, held from here to the end of open_at_path; a first
\* opener reads the identity again under it.
Observe(p) ==
    /\ pc[p] = "observe" /\ dir = None
    /\ IF Holds(p)
       THEN StartRead(p, "recheck")
       ELSE /\ dir' = p /\ To(p, "create")
            /\ UNCHANGED <<lock, lockBy, closeBy, fd, via, res>>
    /\ UNCHANGED <<disk, job, conn, sconn, bounds, ghosts>>

Recheck(p) ==
    /\ pc[p] = "recheck"
    /\ IF NeedsInit \/ ValidIdentity(p, db)
       THEN /\ To(p, "create") /\ via' = [via EXCEPT ![p] = "none"]
            /\ UNCHANGED <<lockBy, fd, dir, closeBy, res>>
       ELSE Leave(p, "idle", "incompatible")
    /\ UNCHANGED <<lock, disk, job, conn, sconn, bounds, ghosts>>

CreateFile(p) ==
    /\ pc[p] = "create" /\ (db # Nil => ~Closing(db))
    /\ Create
    /\ conn' = [conn EXCEPT ![p] = Opened]
    /\ To(p, "init")
    /\ UNCHANGED <<locks, side, version, job, fd, via, sconn, res, bounds, ghosts>>

\* The switch to WAL, the schema transaction of an empty database, and the
\* check of the identity, which drops the connection when it fails.
Initialize(p) ==
    LET i == conn[p]
        mine == file[i].schema = 0 \/ ValidIdentity(p, i)
    IN
    /\ pc[p] = "init"
    /\ file' = [file EXCEPT ![i].wal = TRUE,
                            ![i].schema = IF @ = 0 THEN version[p] ELSE @]
    /\ side' = [wal |-> IF file[i].schema = 0 THEN "frames"
                        ELSE IF side.wal = "none" THEN "header" ELSE side.wal,
                shm |-> TRUE]
    /\ job' = [job EXCEPT ![p] = IF mine THEN "open" ELSE "fail"]
    /\ To(p, "close")
    /\ UNCHANGED <<locks, db, version, fd, via, conn, sconn, res, bounds, ghosts>>

-----------------------------------------------------------------------------
(* Closing a connection, and the handle's own connection *)

\* The connection is dropped under the observation lock and, unless the
\* identity was refused, the close lock.
Close(p) ==
    /\ pc[p] = "close"
    /\ \/ job[p] = "fail" /\ DropConnection(p)
       \/ /\ job[p] # "fail" /\ closeBy = None
          /\ IF LastClose(p, conn[p])
             THEN /\ closeBy' = p /\ To(p, "checkpoint")
                  /\ UNCHANGED <<lockBy, fd, dir, via, res, conn, sconn>>
             ELSE Closed(p)
    /\ UNCHANGED <<lock, disk, job, bounds, ghosts>>

Checkpoint(p) ==
    /\ pc[p] = "checkpoint"
    /\ torn' = torn \union TornBy
    /\ stray' = (stray \/ dir # p)
    /\ To(p, "shm")
    /\ UNCHANGED <<locks, disk, job, fd, via, conn, sconn, res, bounds, swept>>

UnlinkShm(p) ==
    /\ pc[p] = "shm"
    /\ side' = [side EXCEPT !.shm = FALSE]
    /\ To(p, "wal")
    /\ UNCHANGED <<locks, db, version, file, job, fd, via, conn, sconn, res, bounds, ghosts>>

UnlinkWal(p) ==
    /\ pc[p] = "wal"
    /\ side' = [side EXCEPT !.wal = "none"]
    /\ Closed(p)
    /\ UNCHANGED <<lock, db, file, version, job, bounds, ghosts>>

\* Seeded bug: the handle's connection is left lazy, its sidecars unpublished.
OpenWriterLazily(p) ==
    /\ pc[p] = "opened" /\ dir = None /\ (db # Nil => ~Closing(db))
    /\ Create
    /\ conn' = [conn EXCEPT ![p] = Opened]
    /\ LET broken == file'[db'].schema = 0 IN
       /\ res' = [res EXCEPT ![p] = IF broken THEN "broken" ELSE "ok"]
       /\ job' = [job EXCEPT ![p] = "drop"]
       /\ To(p, IF broken THEN "drop" ELSE "ready")
    /\ UNCHANGED <<locks, side, version, fd, via, sconn, bounds, ghosts>>

\* from_opened: the handle's connection is opened and its sidecars published
\* under the observation lock; a database without metadata is closed again.
OpenWriter(p) ==
    /\ pc[p] = "opened" /\ dir = None /\ (db # Nil => ~Closing(db))
    /\ Create
    /\ conn' = [conn EXCEPT ![p] = Opened]
    /\ side' = IF db = Nil THEN side ELSE Publish(db)
    /\ LET broken == file'[db'].schema = 0 IN
       /\ res' = [res EXCEPT ![p] = IF broken THEN "broken" ELSE "ok"]
       /\ job' = [job EXCEPT ![p] = "drop"]
       /\ To(p, IF broken THEN "drop" ELSE "ready")
    /\ UNCHANGED <<locks, version, fd, via, sconn, bounds, ghosts>>

DropHandle(p) ==
    /\ pc[p] = "ready"
    /\ job' = [job EXCEPT ![p] = "drop"]
    /\ To(p, "drop")
    /\ UNCHANGED <<locks, disk, fd, via, conn, sconn, res, bounds, ghosts>>

ObserveDrop(p) ==
    /\ pc[p] = "drop" /\ dir = None
    /\ dir' = p
    /\ To(p, "close")
    /\ UNCHANGED <<lock, lockBy, closeBy, disk, job, fd, via, conn, sconn, res, bounds, ghosts>>

-----------------------------------------------------------------------------
(* Sync: the lock and the connections it opens by path.  One connection      *)
(* stands for the scan's and the passes', none of which takes a guard.       *)

StartSync(p) ==
    /\ pc[p] = "ready"
    /\ job' = [job EXCEPT ![p] = "sync"]
    /\ To(p, "lockfile")
    /\ UNCHANGED <<locks, disk, fd, via, conn, sconn, res, bounds, ghosts>>

TakeSyncLock(p) ==
    /\ pc[p] = "wantlock" /\ job[p] = "sync" /\ lockBy[fd[p]] = None
    /\ db # Nil => ~Closing(db)
    /\ lockBy' = [lockBy EXCEPT ![fd[p]] = p]
    /\ Create
    /\ sconn' = [sconn EXCEPT ![p] = Opened]
    /\ side' = IF db = Nil THEN side ELSE Publish(db)
    /\ To(p, "write")
    /\ UNCHANGED <<dir, lock, closeBy, version, job, fd, via, conn, res, bounds, ghosts>>

\* Without tables the scan fails and nothing is written; otherwise rows go to
\* the WAL, from where SQLite may checkpoint them at any commit.
SyncWrite(p) ==
    LET i == sconn[p] IN
    /\ pc[p] = "write"
    /\ IF file[i].schema = 0
       THEN UNCHANGED <<side, torn>>
       ELSE /\ side' = IF i = db THEN [wal |-> "frames", shm |-> TRUE] ELSE side
            /\ torn' = IF i = db THEN torn \union TornBy ELSE torn
    /\ DropConnection(p)
    /\ UNCHANGED <<lock, db, file, version, job, bounds, stray, swept>>

-----------------------------------------------------------------------------
(* Lock timeouts and crashes *)

\* A timed out open returns its error; a timed out drop closes anyway.
Timeout(p) ==
    /\ Timeouts
    /\ \/ /\ pc[p] \in {"precheck", "observe", "opened"} /\ dir # None
          /\ Leave(p, "idle", "timeout")
          /\ UNCHANGED <<conn, sconn>>
       \/ /\ pc[p] = "wantlock" /\ lockBy[fd[p]] # None
          /\ IF job[p] = "sync" THEN Leave(p, "ready", res[p]) ELSE Leave(p, "idle", "timeout")
          /\ UNCHANGED <<conn, sconn>>
       \/ /\ pc[p] = "drop" /\ dir # None
          /\ DropConnection(p)
    /\ UNCHANGED <<lock, disk, job, bounds, ghosts>>

\* SQLite gives up waiting for a last close (busy_timeout).
Busy(p) ==
    /\ Timeouts /\ db # Nil /\ Closing(db)
    /\ \/ pc[p] \in {"create", "opened"} /\ Leave(p, "idle", "timeout")
       \/ pc[p] = "wantlock" /\ job[p] = "sync" /\ Leave(p, "ready", res[p])
    /\ UNCHANGED <<lock, disk, job, conn, sconn, bounds, ghosts>>

\* The kernel releases what a dead process held; its files stay as they are.
Crash(p) ==
    /\ pc[p] # "idle" /\ crashes < MaxCrashes
    /\ crashes' = crashes + 1
    /\ To(p, "idle")
    /\ lockBy' = Freed(p) /\ dir' = FreedDir(p) /\ closeBy' = FreedClose(p)
    /\ fd' = [fd EXCEPT ![p] = Nil]
    /\ IF p \in Handles
       THEN /\ conn' = [conn EXCEPT ![p] = Nil] /\ sconn' = [sconn EXCEPT ![p] = Nil]
            /\ via' = [via EXCEPT ![p] = "none"]
            /\ stray' = (stray \/ pc[p] = "wal")
       ELSE UNCHANGED <<conn, sconn, via, stray>>
    /\ UNCHANGED <<lock, disk, job, res, opens, cleans, torn, swept>>

-----------------------------------------------------------------------------
(* clean_old_databases on this family, judged obsolete *)

CleanOpenLock(c) ==
    /\ pc[c] = "idle" /\ cleans < MaxCleans /\ cleans' = cleans + 1
    /\ (db # Nil \/ side # NoSide \/ lock # Nil)
    /\ lock' = IF lock = Nil THEN Fresh ELSE lock
    /\ fd' = [fd EXCEPT ![c] = lock']
    /\ To(c, "wantlock")
    /\ UNCHANGED <<dir, lockBy, closeBy, disk, job, via, conn, sconn, res, opens, crashes,
                   ghosts>>

\* Nothing is waited for: a lock another process holds keeps the family.
Kept(c) ==
    /\ To(c, "idle") /\ fd' = [fd EXCEPT ![c] = Nil]
    /\ lockBy' = Freed(c) /\ dir' = FreedDir(c) /\ closeBy' = FreedClose(c)

\* Seeded bug: clean takes the sync lock only, as it once did.
TrySyncLock(c) ==
    /\ pc[c] = "wantlock"
    /\ IF lockBy[fd[c]] = None
       THEN /\ lockBy' = [lockBy EXCEPT ![fd[c]] = c] /\ To(c, "db")
            /\ UNCHANGED <<dir, closeBy, fd>>
       ELSE Kept(c)
    /\ UNCHANGED <<lock, disk, job, via, conn, sconn, res, bounds, ghosts>>

TryLocks(c) ==
    /\ CASE pc[c] = "wantlock" ->
               IF lockBy[fd[c]] = None
               THEN /\ lockBy' = [lockBy EXCEPT ![fd[c]] = c] /\ To(c, "trydir")
                    /\ UNCHANGED <<dir, closeBy, fd>>
               ELSE Kept(c)
         [] pc[c] = "trydir" ->
               IF dir = None
               THEN dir' = c /\ To(c, "tryclose") /\ UNCHANGED <<lockBy, closeBy, fd>>
               ELSE Kept(c)
         [] pc[c] = "tryclose" ->
               IF closeBy = None
               THEN closeBy' = c /\ To(c, "db") /\ UNCHANGED <<lockBy, dir, fd>>
               ELSE Kept(c)
         [] OTHER -> FALSE
    /\ UNCHANGED <<lock, disk, job, via, conn, sconn, res, bounds, ghosts>>

\* The files of the family go one by one, the lock files last.
Unlink(c) ==
    /\ \/ /\ pc[c] = "db" /\ To(c, "side") /\ db' = Nil
          /\ swept' = (swept \/ (db # Nil /\ \E p \in Handles : pc[p] # "idle"))
          /\ UNCHANGED <<side, lock>>
       \/ /\ pc[c] = "side" /\ To(c, "lock") /\ side' = NoSide
          /\ UNCHANGED <<db, lock, swept>>
       \/ /\ pc[c] = "lock" /\ To(c, "release") /\ lock' = Nil
          /\ UNCHANGED <<db, side, swept>>
    /\ UNCHANGED <<dir, lockBy, closeBy, file, version, job, fd, via, conn, sconn, res, bounds,
                   torn, stray>>

CleanRelease(c) ==
    /\ pc[c] = "release"
    /\ Kept(c)
    /\ UNCHANGED <<lock, disk, job, via, conn, sconn, res, bounds, ghosts>>

-----------------------------------------------------------------------------
\* What a process does without being asked again, once it has begun.
Step(p) ==
    \/ Precheck(p) \/ Inspect(p) \/ CheckHeader(p) \/ OpenLockFile(p) \/ TakeSetupLock(p)
    \/ Observe(p) \/ Recheck(p) \/ CreateFile(p) \/ Initialize(p) \/ Close(p)
    \/ Checkpoint(p) \/ UnlinkShm(p) \/ UnlinkWal(p) \/ OpenWriter(p) \/ ObserveDrop(p)
    \/ TakeSyncLock(p) \/ SyncWrite(p) \/ Timeout(p) \/ Busy(p)

CleanStep(c) == TryLocks(c) \/ Unlink(c) \/ CleanRelease(c)

Next ==
    \/ \E p \in Handles : BeginOpen(p) \/ DropHandle(p) \/ StartSync(p) \/ Step(p)
    \/ \E c \in Cleaners : CleanOpenLock(c) \/ CleanStep(c)
    \/ \E p \in Procs : Crash(p)

Spec == Init /\ [][Next]_vars

-----------------------------------------------------------------------------
(* Properties *)

\* An opener's identity check is never run over a checkpoint of the main file
\* it reads alone, and never finds half of a closing writer's sidecars: the
\* observation lock covers both.  Only a close that gave up on the lock, a
\* crash between the two unlinks, or clean taking the database from under a
\* handle (whose next sync then opens its connections unguarded) undo this.
IdentityReadsAreWhole ==
    ~stray /\ ~swept => /\ torn = {}
                        /\ \A p \in Handles : res[p] # "unreadable"

\* A handle stands on the database its path names, initialized with its own
\* schema, from the end of its open to the start of its close, and its syncs
\* write into that one: no binary writes an index of another schema version.
OwnSchemaOnly ==
    ~swept => \A p \in Handles :
        /\ pc[p] = "ready" => conn[p] = db /\ file[db].schema = version[p]
        /\ sconn[p] # Nil => sconn[p] = conn[p]

\* Two syncs of one database never run at once.
SyncsExclude ==
    ~swept => \A p, q \in Handles : p # q /\ sconn[p] # Nil => sconn[q] = Nil

\* The database an opener is creating or a closer is tearing down is not
\* replaced at its path meanwhile, whatever clean does: both hold the
\* observation lock clean must take.
GuardedStays ==
    \A p \in Handles : dir = p /\ pc[p] \in {"init", "close", "checkpoint", "shm", "wal"}
                       /\ job[p] \in {"open", "fail"} => conn[p] = db

\* Who waits for whom: for the lock on an inode, or for the directory.
WaitsFor(p) ==
    CASE pc[p] = "wantlock" /\ p \in Handles -> {lockBy[fd[p]]} \ {None}
      [] pc[p] \in {"precheck", "observe", "opened", "drop"} -> {dir} \ {None}
      [] pc[p] = "close" -> {closeBy} \ {None}
      [] OTHER -> {}

\* Everyone waiting is waiting for someone who is not: with three locks taken
\* in one order, following the waits twice more ends at a running process.
NoWaitCycle ==
    \A p \in Procs : \A q \in WaitsFor(p) : \A r \in WaitsFor(q) : WaitsFor(r) = {}

\* The close lock is never waited for, since its takers hold the directory.
CloseLockUncontended ==
    \A p \in Handles : pc[p] = "close" => closeBy = None

\* A database is used under its own schema by one sync at a time, and stays
\* where it is while anyone it is guarded against works on it; the setup,
\* observation, close and sync locks that guard it are waited for in one order.
StoreIsGuarded ==
    /\ TypeOK /\ OwnSchemaOnly /\ SyncsExclude /\ GuardedStays
    /\ NoWaitCycle /\ CloseLockUncontended

-----------------------------------------------------------------------------
(* The inductive invariant behind the two properties.                        *)

Opening == {"precheck", "inspect", "header", "observe", "recheck", "create", "init", "opened"}
Guarded == {"inspect", "recheck", "create", "init", "close"}
Teardown == {"checkpoint", "shm", "wal"}
Sweep == {"tryclose", "db", "side", "lock", "release"}
AtLock == {"lockfile", "wantlock"}

Syncing(p) == pc[p] = "write" \/ (pc[p] \in AtLock /\ job[p] = "sync")

\* What a process does tells what it does it for and which connections it has.
CleanerPlace(c) == pc[c] \in {"idle", "wantlock", "trydir"} \union Sweep

HandlePlace(p) ==
    /\ pc[p] \in Opening \union Guarded \union Teardown \union AtLock
                 \union {"idle", "ready", "write", "drop"}
    /\ pc[p] \in Opening => job[p] = "open"
    /\ pc[p] \in AtLock => job[p] \in {"open", "sync"}
    /\ pc[p] = "close" => job[p] # "sync"
    /\ pc[p] = "drop" => job[p] = "drop"
    /\ pc[p] = "write" => job[p] = "sync"
    /\ conn[p] # Nil <=> pc[p] \in {"init", "close", "drop", "ready"} \union Teardown
                         \/ Syncing(p)
    /\ sconn[p] # Nil <=> pc[p] = "write" \/ (pc[p] \in Teardown /\ job[p] = "sync")

\* Which locks a process holds, and where.
HoldOf(p) ==
    /\ \A i \in Inodes : lockBy[i] = p => fd[p] = i
    /\ (\E i \in Inodes : lockBy[i] = p)
       => pc[p] \in {"observe", "write", "trydir"} \union Guarded \union Teardown \union Sweep
    /\ pc[p] \in {"wantlock", "write"} => fd[p] # Nil
    /\ pc[p] = "write" => lockBy[fd[p]] = p
    /\ dir = p => pc[p] \in Guarded \union Teardown \union Sweep
    /\ pc[p] \in Guarded \union Sweep => dir = p
    /\ closeBy = p => dir = p /\ pc[p] \in Teardown \union (Sweep \ {"tryclose"})

PlaceInv ==
    /\ \A c \in Cleaners : CleanerPlace(c)
    /\ \A p \in Handles : HandlePlace(p)
    /\ \A p \in Procs : HoldOf(p)

\* Nobody else connects to a database that is being closed for the last time.
AloneAt(p, i) == \A q \in Handles \ {p} : conn[q] # i /\ sconn[q] # i
LastCloseInv == \A p \in Handles : pc[p] \in Teardown => AloneAt(p, Target(p))

FileInv == \A i \in Inodes : file[i].wal <=> file[i].schema # 0

\* Unless clean took it away: the database stays under everyone connected to it.
StandOf(p) ==
    /\ conn[p] # Nil => conn[p] = db
    /\ sconn[p] # Nil => sconn[p] = conn[p]
    /\ pc[p] \in Teardown => job[p] # "sync"
    /\ \/ pc[p] \in {"opened", "ready"} \/ Syncing(p)
       \/ pc[p] \in {"close"} \union Teardown /\ job[p] = "open"
       => db # Nil /\ file[db].schema = version[p]
    /\ pc[p] \in {"wantlock", "write"} /\ job[p] = "sync" => fd[p] = lock
StandInv ==
    ~swept => /\ \A c \in Cleaners : pc[c] \in {"side", "lock", "release"} => db = Nil
              /\ \A p \in Handles : StandOf(p)

\* Unless a teardown was unguarded besides: the sidecars are both there or both
\* not, they are there for everyone connected, and who reads the main file alone
\* does so while nobody is.
SidesOf(p) ==
    /\ pc[p] \in {"shm", "wal"} => dir = p
    /\ pc[p] = "wal" => ~side.shm
    /\ conn[p] # Nil /\ file[db].wal /\ pc[p] \notin {"init", "wal"}
       => side.wal # "none" /\ side.shm
    /\ pc[p] \in {"inspect", "recheck"} /\ via[p] = "main" => \A q \in Handles : conn[q] = Nil
    /\ res[p] # "unreadable"
SidesInv ==
    ~stray /\ ~swept => /\ \A p \in Handles : SidesOf(p)
                        /\ (\A p \in Handles : pc[p] # "wal") => (side.wal # "none" <=> side.shm)
                        /\ torn = {}

StoreInv ==
    /\ TypeOK /\ PlaceInv /\ LastCloseInv /\ FileInv /\ GuardedStays
    /\ StandInv /\ SidesInv
=============================================================================
