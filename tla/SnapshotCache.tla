--------------------------- MODULE SnapshotCache ---------------------------
(* The cache of comparison snapshots: one commit's entry, looked up, built,  *)
(* used and cleaned by several workers, in one process or in many.           *)
(*                                                                           *)
(*   src/crates/orbit-graph-changes/src/cache.rs                             *)
(*   src/crates/orbit-graph-changes/src/snapshot.rs  (prepare_cached)        *)
(*                                                                           *)
(* Every call addresses files by path, and a path may lead to another file   *)
(* or directory at the next call.  So directories and lock files are         *)
(* numbered, and a number is given again once nothing leads to it; 0 is none.*)
(* A lock file is known by the directory it was made in and a number.        *)
EXTENDS Integers, FiniteSets

CONSTANTS
    Users,      \* workers that need the commit's snapshot
    Cleaners,   \* workers that clean the cache
    Version,    \* the index identity of each worker's binary
    MaxDirs,    \* bound on directories that exist at once
    MaxLocks    \* bound on lock files of a name in a directory, open ones included

Workers == Users \cup Cleaners
Dirs == 1 .. MaxDirs
LockNames == {"in_use.lock", "building.lock"}
Locks == Dirs \X LockNames \X (1 .. MaxLocks)
NoLock == <<0, "none", 0>>

ASSUME CacheAssumption ==
    /\ MaxDirs \in Nat /\ MaxLocks \in Nat \ {0}
    /\ Version \in [Workers -> Nat \ {0}]

VARIABLES
    dirs,       \* every directory: where it is, who built it, what is in it
    worker,     \* every worker: its place in a call and the files it has open
    spoiled     \* whether a path has led a call to something it did not check

vars == <<dirs, worker, spoiled>>

\* entry.json, the tree's files, and what a lookup asks for: tree and database.
Parts == {"key", "files", "body"}

\* An entry that is readable by others has version 0.
Loose == 0

Gone == [place |-> "gone", by |-> Loose, lock |-> NoLock, building |-> NoLock,
         parts |-> {}]

\* A worker: where it is, the lock file it has open and how it holds it, the building.lock
\* it holds, the name it works on (0: the commit's), the directory it has looked at, what
\* it has still to unlink there, and where it goes on once the name is free.
Rest == [pc |-> "idle", fd |-> NoLock, mode |-> "none", building |-> NoLock,
         path |-> 0, dir |-> 0, left |-> {}, then |-> "idle"]

-----------------------------------------------------------------------------
(* Files and locks *)

\* The directory under the commit's name.
Entry ==
    IF \E d \in Dirs : dirs[d].place = "entry"
    THEN CHOOSE d \in Dirs : dirs[d].place = "entry" ELSE 0

\* What a worker's path leads to: the commit's name (0) or a staging name.
PathDir(w) ==
    LET d == worker[w].path
    IN IF d = 0 THEN Entry ELSE IF dirs[d].place = "staging" THEN d ELSE 0

\* The lock that guards what is under a worker's path.
GuardOf(w, d) == IF worker[w].path = 0 THEN dirs[d].lock ELSE dirs[d].building

NamesIn(d) ==
    dirs[d].parts \cup (IF dirs[d].lock # NoLock THEN {"in_use.lock"} ELSE {})
                  \cup (IF dirs[d].building # NoLock THEN {"building.lock"} ELSE {})

FreeDirs ==
    {d \in Dirs : /\ dirs[d].place = "gone"
                  /\ \A w \in Workers : d \notin {worker[w].dir, worker[w].path}}

FreeLocks ==
    {i \in Locks : /\ \A d \in Dirs : i \notin {dirs[d].lock, dirs[d].building}
                   /\ \A w \in Workers : i \notin {worker[w].fd, worker[w].building}}

\* The numbers a new directory and a new lock file get.
IsNewDir(d) == d \in FreeDirs /\ \A e \in FreeDirs : d <= e

IsNewLock(i, d, name) ==
    LET free == {j \in FreeLocks : j[1] = d /\ j[2] = name}
    IN i \in free /\ \A j \in free : i[3] <= j[3]

\* Holders of a lock file; a lock belongs to the file, whatever its name.
Exclusive(i) ==
    {w \in Workers : \/ worker[w].fd = i /\ worker[w].mode = "exclusive"
                     \/ worker[w].building = i}
Shared(i) == {w \in Workers : worker[w].fd = i /\ worker[w].mode = "shared"}

\* Seeded bug: shared holders do not keep an exclusive lock away.
TryLockOverShared(i) == Exclusive(i) = {}

\* File::try_lock.
TryLock(i) == Exclusive(i) = {} /\ Shared(i) = {}

Goto(w, pc) == worker' = [worker EXCEPT ![w].pc = pc]

\* A path leads to another directory, or another lock file, than the call has looked at.
Astray(w, d) ==
    d # 0 /\ (d # worker[w].dir \/ (worker[w].fd # NoLock /\ worker[w].fd # GuardOf(w, d)))

\* A call that ends, or a worker that dies: its files are closed.
Ends(w) == worker' = [worker EXCEPT ![w] = Rest]

\* The path is free: a lookup has found nothing, a removal is done.
Absent(w) == worker' = [worker EXCEPT ![w] = [Rest EXCEPT !.pc = worker[w].then]]

\* A removal of what is under a path begins.
BeginRemoval(w, path, judged, then) ==
    worker' = [worker EXCEPT ![w] = [Rest EXCEPT !.pc = "opening", !.path = path,
                                                 !.dir = judged, !.then = then]]

\* The cache is empty, or has a loose entry or one of version 1.
Init ==
    /\ LET published(v) == [place |-> "entry", by |-> v, lock |-> <<1, "in_use.lock", 1>>,
                            building |-> <<1, "building.lock", 1>>, parts |-> Parts]
       IN \E first \in {Gone, published(Loose), published(1)} :
             dirs = [d \in Dirs |-> IF d = 1 THEN first ELSE Gone]
    /\ worker = [w \in Workers |-> Rest]
    /\ spoiled = FALSE

-----------------------------------------------------------------------------
(* SnapshotCache::lookup *)

\* Seeded bug: any other version counts as older.
IsOther(w, d) == dirs[d].by = Loose \/ ("key" \in dirs[d].parts /\ dirs[d].by # Version[w])

\* EntryMetadata::key_match; an entry others can read is treated as an older one.
IsOlder(w, d) == dirs[d].by = Loose \/ ("key" \in dirs[d].parts /\ dirs[d].by < Version[w])
IsCurrent(w, d) == "key" \in dirs[d].parts /\ dirs[d].by = Version[w]

\* Where the entry comes from and what its key says.
ReadKey(w) ==
    /\ w \in Users
    /\ worker[w].pc \in {"idle", "adopting"}
    /\ LET then == IF worker[w].pc = "idle" THEN "missing" ELSE "idle"
       IN \/ /\ Entry = 0
             /\ Goto(w, then)
          \/ /\ Entry # 0 /\ IsOlder(w, Entry)
             /\ BeginRemoval(w, 0, Entry, then)
          \/ /\ Entry # 0 /\ IsCurrent(w, Entry)
             /\ worker' = [worker EXCEPT ![w].pc = "joining", ![w].dir = Entry,
                                         ![w].then = then]
          \/ /\ Entry # 0 /\ ~IsOlder(w, Entry) /\ ~IsCurrent(w, Entry)
             /\ Ends(w)
    /\ UNCHANGED <<dirs, spoiled>>

\* open_lock creates the lock file if its directory has none.
OpenLock(w) ==
    /\ worker[w].pc \in {"joining", "opening"}
    /\ \/ /\ PathDir(w) = 0
          /\ Absent(w)
          /\ UNCHANGED <<dirs, spoiled>>
       \/ /\ PathDir(w) # 0
          /\ LET d == PathDir(w)
                 found == GuardOf(w, d)
                 next == IF worker[w].pc = "joining" THEN "sharing" ELSE "claiming"
             IN \E i \in Locks :
                   /\ IF found # NoLock THEN i = found
                      ELSE IsNewLock(i, d, IF worker[w].path = 0 THEN "in_use.lock"
                                                                ELSE "building.lock")
                   /\ dirs' = IF worker[w].path = 0
                              THEN [dirs EXCEPT ![d].lock = i]
                              ELSE [dirs EXCEPT ![d].building = i]
                   /\ worker' = [worker EXCEPT ![w].fd = i, ![w].mode = "open",
                                               ![w].pc = next]
                   /\ spoiled' = (spoiled \/ Astray(w, d)
                                          \/ (found = NoLock /\ worker[w].path = 0))

\* lock_shared_within, and its bound.
ShareLock(w) ==
    /\ worker[w].pc = "sharing"
    /\ Exclusive(worker[w].fd) = {}
    /\ worker' = [worker EXCEPT ![w].mode = "shared", ![w].pc = "checkKey"]
    /\ UNCHANGED <<dirs, spoiled>>

LockTimesOut(w) ==
    /\ worker[w].pc = "sharing"
    /\ Exclusive(worker[w].fd) # {}
    /\ Ends(w)
    /\ UNCHANGED <<dirs, spoiled>>

\* "The entry may have been removed between reading its key and taking the lock."
CheckKey(w) ==
    /\ worker[w].pc = "checkKey"
    /\ IF Entry # 0 /\ "key" \in dirs[Entry].parts THEN Goto(w, "checkBody") ELSE Absent(w)
    /\ UNCHANGED <<dirs, spoiled>>

\* The tree, and the database under the name this binary gives it.  An incomplete
\* entry is removed; writing last_used may fail.
CheckBody(w) ==
    /\ worker[w].pc = "checkBody"
    /\ IF Entry # 0 /\ "body" \in dirs[Entry].parts /\ dirs[Entry].by = Version[w]
       THEN \/ worker' = [worker EXCEPT ![w].pc = "using", ![w].dir = Entry]
            \/ Ends(w)
       ELSE BeginRemoval(w, 0, Entry, worker[w].then)
    /\ spoiled' = (spoiled \/ Astray(w, Entry))
    /\ UNCHANGED dirs

\* The last clone of a CachedEntry is dropped.
Release(w) ==
    /\ worker[w].pc = "using"
    /\ Ends(w)
    /\ UNCHANGED <<dirs, spoiled>>

-----------------------------------------------------------------------------
(* remove_if_unlocked *)

ClaimLock(w) ==
    /\ worker[w].pc = "claiming"
    /\ IF TryLock(worker[w].fd)
       THEN worker' = [worker EXCEPT ![w].mode = "exclusive", ![w].pc = "removing"]
       ELSE Ends(w)
    /\ UNCHANGED <<dirs, spoiled>>

\* remove_dir_all opens the directory now under the path and lists it.
OpenDirectory(w) ==
    /\ worker[w].pc = "removing"
    /\ LET d == PathDir(w)
       IN \/ /\ d = 0
             /\ Absent(w)
             /\ UNCHANGED spoiled
          \/ /\ d # 0
             /\ worker' = [worker EXCEPT ![w].pc = "emptying", ![w].dir = d,
                                         ![w].left = NamesIn(d)]
             /\ spoiled' = (spoiled \/ Astray(w, d))
    /\ UNCHANGED dirs

\* It unlinks the names in the order it found them, whatever that is.
Unlink(w, name) ==
    /\ worker[w].pc = "emptying"
    /\ name \in worker[w].left
    /\ worker' = [worker EXCEPT ![w].left = @ \ {name}]
    /\ LET d == worker[w].dir
       IN dirs' = CASE name = "in_use.lock" -> [dirs EXCEPT ![d].lock = NoLock]
                    [] name = "building.lock" -> [dirs EXCEPT ![d].building = NoLock]
                    [] OTHER -> [dirs EXCEPT ![d].parts = @ \ {name}]
    /\ UNCHANGED spoiled

\* It removes the path's directory, which fails if that is not empty, and the lock
\* is released either way.
RemoveDirectory(w) ==
    /\ worker[w].pc = "emptying" /\ worker[w].left = {}
    /\ LET d == PathDir(w)
       IN \/ d = 0 /\ Absent(w) /\ UNCHANGED dirs
          \/ d # 0 /\ NamesIn(d) = {} /\ Absent(w) /\ dirs' = [dirs EXCEPT ![d] = Gone]
          \/ d # 0 /\ NamesIn(d) # {} /\ Ends(w) /\ UNCHANGED dirs
    /\ UNCHANGED spoiled

\* The removal stops at a file it cannot remove.
RemovalFails(w) ==
    /\ worker[w].pc = "emptying"
    /\ Ends(w)
    /\ spoiled' = TRUE
    /\ UNCHANGED dirs

-----------------------------------------------------------------------------
(* SnapshotCache::stage and ::publish *)

\* A directory under a name of its own.
Stage(w) ==
    /\ worker[w].pc = "missing"
    /\ \E d \in Dirs :
          /\ IsNewDir(d)
          /\ dirs' = [dirs EXCEPT ![d] = [Gone EXCEPT !.place = "staging",
                                                      !.by = Version[w]]]
          /\ worker' = [worker EXCEPT ![w].pc = "staged", ![w].dir = d]
    /\ UNCHANGED spoiled

Staged(w) == worker[w].dir
IsStaged(w) == dirs[Staged(w)].place = "staging"

\* create_locked: a new building.lock, then its lock.
CreateBuilding(w) ==
    /\ worker[w].pc = "staged"
    /\ IF IsStaged(w) /\ dirs[Staged(w)].building = NoLock
       THEN \E i \in Locks :
               /\ IsNewLock(i, Staged(w), "building.lock")
               /\ dirs' = [dirs EXCEPT ![Staged(w)].building = i]
               /\ worker' = [worker EXCEPT ![w].pc = "created", ![w].fd = i,
                                           ![w].mode = "open"]
       ELSE Goto(w, "failed") /\ UNCHANGED dirs
    /\ UNCHANGED spoiled

TakeBuilding(w) ==
    /\ worker[w].pc = "created"
    /\ IF Exclusive(worker[w].fd) = {}
       THEN worker' = [worker EXCEPT ![w].pc = "guarded", ![w].building = worker[w].fd,
                                     ![w].fd = NoLock, ![w].mode = "none"]
       ELSE Goto(w, "failed")
    /\ UNCHANGED <<dirs, spoiled>>

\* in_use.lock, locked shared, so that the lock moves with the directory.  The
\* building.lock taken before may have lost its name to a clean by then.
CreateInUse(w) ==
    /\ worker[w].pc = "guarded"
    /\ IF IsStaged(w)
       THEN \E i \in Locks :
               /\ IsNewLock(i, Staged(w), "in_use.lock")
               /\ dirs' = [dirs EXCEPT ![Staged(w)].lock = i]
               /\ worker' = [worker EXCEPT ![w].pc = "building", ![w].fd = i,
                                           ![w].mode = "shared"]
               /\ spoiled' = (spoiled \/ dirs[Staged(w)].building # worker[w].building)
       ELSE Goto(w, "failed") /\ UNCHANGED <<dirs, spoiled>>

\* materialize_commit and the index.
Build(w) ==
    /\ worker[w].pc = "building"
    /\ IsStaged(w)
    /\ dirs' = [dirs EXCEPT ![Staged(w)].parts = {"files", "body"}]
    /\ Goto(w, "built")
    /\ UNCHANGED spoiled

\* A build, or the writing of its metadata, that fails or is cancelled.
BuildFails(w) ==
    /\ worker[w].pc \in {"building", "built", "keyed"}
    /\ Goto(w, "failed")
    /\ UNCHANGED <<dirs, spoiled>>

\* write_metadata.
WriteKey(w) ==
    /\ worker[w].pc = "built"
    /\ IsStaged(w)
    /\ dirs' = [dirs EXCEPT ![Staged(w)].parts = @ \cup {"key"}]
    /\ Goto(w, "keyed")
    /\ UNCHANGED spoiled

LookAtDestination(w) ==
    /\ worker[w].pc = "keyed"
    /\ Goto(w, IF Entry = 0 THEN "renaming" ELSE "adopted")
    /\ UNCHANGED <<dirs, spoiled>>

\* A rename replaces an empty directory and fails over any other.
Rename(w) ==
    /\ worker[w].pc = "renaming"
    /\ \/ /\ IsStaged(w)
          /\ Entry # 0 => NamesIn(Entry) = {}
          /\ dirs' = [d \in Dirs |-> IF d = Staged(w) THEN [dirs[d] EXCEPT !.place = "entry"]
                                     ELSE IF d = Entry THEN Gone ELSE dirs[d]]
          /\ worker' = [worker EXCEPT ![w].pc = "using", ![w].building = NoLock]
       \/ /\ Entry # 0 /\ NamesIn(Entry) # {}
          /\ Goto(w, "adopted")
          /\ UNCHANGED dirs
       \/ /\ Goto(w, "failed")
          /\ UNCHANGED dirs
    /\ UNCHANGED spoiled

\* The staging directory is removed with its locks held, by discard or by the drop of
\* a StagedEntry, or is left for a clean.  adopt_published then looks the entry up.
Discard(w) ==
    /\ worker[w].pc \in {"adopted", "failed"}
    /\ \/ /\ dirs' = IF IsStaged(w) THEN [dirs EXCEPT ![Staged(w)] = Gone] ELSE dirs
          /\ worker' = [worker EXCEPT ![w] = [Rest EXCEPT !.pc =
                            IF worker[w].pc = "adopted" THEN "adopting" ELSE "idle"]]
       \/ /\ Ends(w)
          /\ UNCHANGED dirs
    /\ UNCHANGED spoiled

-----------------------------------------------------------------------------
(* SnapshotCache::clean_with_options *)

\* The entry is judged; any current one may have a commit that is gone or be outside the
\* retention policy.
CleanEntry(w) ==
    /\ w \in Cleaners
    /\ worker[w].pc = "idle"
    /\ Entry # 0
    /\ IsOlder(w, Entry) \/ IsCurrent(w, Entry)
    /\ BeginRemoval(w, 0, Entry, "idle")
    /\ UNCHANGED <<dirs, spoiled>>

\* A staging directory is listed.
CleanStaging(w) ==
    /\ w \in Cleaners
    /\ worker[w].pc = "idle"
    /\ \E d \in Dirs :
          /\ dirs[d].place = "staging"
          /\ BeginRemoval(w, d, d, "idle")
    /\ UNCHANGED <<dirs, spoiled>>

\* Without apply, a clean only asks whether a lock is held, and for that takes it.
Probe(w) ==
    /\ w \in Cleaners
    /\ worker[w].pc = "idle"
    /\ \E d \in Dirs :
          \E i \in {dirs[d].lock, dirs[d].building} \ {NoLock} :
             /\ dirs[d].place = IF i = dirs[d].lock THEN "entry" ELSE "staging"
             /\ TryLock(i)
             /\ worker' = [worker EXCEPT ![w].pc = "probing", ![w].fd = i,
                                         ![w].mode = "exclusive"]
    /\ UNCHANGED <<dirs, spoiled>>

ProbeEnds(w) ==
    /\ worker[w].pc = "probing"
    /\ Ends(w)
    /\ UNCHANGED <<dirs, spoiled>>

\* The process dies, or the call returns an error before it has made anything.
Kill(w) ==
    /\ worker[w].pc # "idle"
    /\ Ends(w)
    /\ spoiled' = (spoiled \/ worker[w].pc = "emptying")
    /\ UNCHANGED dirs

Next ==
    \E w \in Workers :
        \/ ReadKey(w) \/ OpenLock(w) \/ ShareLock(w) \/ LockTimesOut(w)
        \/ CheckKey(w) \/ CheckBody(w) \/ Release(w)
        \/ ClaimLock(w) \/ OpenDirectory(w) \/ RemoveDirectory(w) \/ RemovalFails(w)
        \/ \E name \in worker[w].left : Unlink(w, name)
        \/ Stage(w) \/ CreateBuilding(w) \/ TakeBuilding(w) \/ CreateInUse(w)
        \/ Build(w) \/ BuildFails(w) \/ WriteKey(w)
        \/ LookAtDestination(w) \/ Rename(w) \/ Discard(w)
        \/ CleanEntry(w) \/ CleanStaging(w) \/ Probe(w) \/ ProbeEnds(w)
        \/ Kill(w)

Spec == Init /\ [][Next]_vars

-----------------------------------------------------------------------------
(* Properties *)

Steps == {"idle", "missing", "adopting", "joining", "opening", "sharing", "checkKey",
          "checkBody", "using", "claiming", "removing", "emptying", "staged", "created",
          "guarded", "building", "built", "keyed", "renaming", "adopted", "failed", "probing"}

Directories == [place : {"gone", "staging", "entry"}, by : Nat, lock : Locks \cup {NoLock},
                building : Locks \cup {NoLock}, parts : SUBSET Parts]

Records == [pc : Steps, fd : Locks \cup {NoLock}, mode : {"none", "open", "shared", "exclusive"},
            building : Locks \cup {NoLock}, path : Dirs \cup {0}, dir : Dirs \cup {0},
            left : SUBSET (Parts \cup LockNames), then : {"idle", "missing"}]

\* Every variable holds a value of its kind.
TypeOK ==
    /\ dirs \in [Dirs -> Directories]
    /\ worker \in [Workers -> Records]
    /\ spoiled \in BOOLEAN

\* A comparison that has the entry open finds it whole under its name for as long as
\* it holds it, and built by its own version, if no path has led a call astray: lookup's
\* shared lock and the exclusive one of remove_if_unlocked exclude each other, and the
\* lock a build takes goes with the directory it publishes.
InUseStays ==
    ~spoiled =>
        \A w \in Workers :
            worker[w].pc = "using" =>
                /\ worker[w].dir = Entry
                /\ dirs[Entry].parts = Parts
                /\ dirs[Entry].by = Version[w]

\* A build that holds its building.lock keeps its staging directory and what it has put
\* there, although cleans list the directory from the moment it exists (stage,
\* create_locked), if no path has led a call astray.
BuildsStay ==
    ~spoiled =>
        \A w \in Workers :
            worker[w].pc \in {"building", "built", "keyed", "renaming"} =>
                /\ IsStaged(w)
                /\ dirs[Staged(w)].building = worker[w].building
                /\ dirs[Staged(w)].lock = worker[w].fd
                /\ worker[w].pc # "building" =>
                       {"files", "body"} \subseteq dirs[Staged(w)].parts

\* No binary takes anything from a newer binary's entry, if no path has led a call
\* astray (key_match and the order in which lookup and clean judge and lock).
NewerStays ==
    [][ ~spoiled' =>
            \A w \in Workers :
                /\ worker[w].pc = "emptying" /\ worker'[w].left # worker[w].left
                /\ dirs[worker[w].dir].place = "entry"
                => dirs[worker[w].dir].by <= Version[w] ]_vars

\* No removal takes what is open or under construction: entries that are held
\* and builds that are locked stay, except where `spoiled` says that a path led
\* a call to another file than the one it had looked at.
NothingHeldIsRemoved == TypeOK /\ InUseStays /\ BuildsStay

-----------------------------------------------------------------------------
(* The inductive invariant behind the properties.                            *)

Resting == {"idle", "missing", "adopting"}
Looking == {"joining", "sharing", "checkKey", "checkBody"}
Removing == {"opening", "claiming", "removing", "emptying"}
Starting == {"staged", "created", "guarded"}
Building == {"building", "built", "keyed", "renaming"}
Making == Starting \cup Building \cup {"adopted", "failed"}

\* What a worker's place tells of its record, and of the directory it makes or empties.
Shape(w) ==
    LET r == worker[w] IN
    /\ r.pc \in Resting => r.building = NoLock /\ r.dir = 0 /\ r.then = "idle"
    /\ r.pc \in Resting \cup {"joining", "opening", "staged", "guarded"}
          => r.fd = NoLock /\ r.mode = "none"
    /\ r.pc # "emptying" => r.left = {}
    /\ r.pc \notin Removing => r.path = 0
    /\ r.path # 0 => r.dir = r.path
    /\ r.building # NoLock => r.pc \in {"guarded", "adopted", "failed"} \cup Building
    /\ r.pc \in {"guarded"} \cup Building => r.building # NoLock
    /\ r.pc \in {"created", "claiming", "sharing"} => r.fd # NoLock /\ r.mode = "open"
    /\ r.pc \in {"removing", "emptying", "probing"} => r.fd # NoLock /\ r.mode = "exclusive"
    /\ r.mode = "exclusive" => r.pc \in {"removing", "emptying", "probing"}
    /\ r.pc \in {"checkKey", "checkBody", "using"} \cup Building
          => r.fd # NoLock /\ r.mode = "shared"
    /\ r.pc \in Making => r.dir # 0 /\ dirs[r.dir].place # "entry"
    /\ r.pc \in Looking \cup {"using"} => r.dir # 0
    /\ r.pc = "emptying" => r.dir # 0 /\ (r.path = 0 => dirs[r.dir].place # "staging")

\* Locks exclude, one directory has the name, and a directory has one maker.
Excludes(v, w) ==
    /\ worker[v].mode = "exclusive" /\ worker[w].fd = worker[v].fd
          => worker[w].mode \notin {"shared", "exclusive"}
    /\ worker[v].mode = "exclusive" => worker[w].building # worker[v].fd
OneEntry == \A d, e \in Dirs : dirs[d].place = "entry" /\ dirs[e].place = "entry" => d = e
ApartOf(v, w) ==
    worker[v].pc \in Making /\ worker[w].pc \in Making => worker[v].dir # worker[w].dir

FormInv ==
    /\ \A w \in Workers : Shape(w)
    /\ \A v, w \in Workers : v # w => Excludes(v, w) /\ ApartOf(v, w)
    /\ OneEntry

\* Unless a path has led a call astray.  An entry is whole, or someone empties it.
Empties(w, d) == worker[w].pc = "emptying" /\ worker[w].path = 0 /\ worker[w].dir = d
EntryOf(d) ==
    dirs[d].place = "entry" =>
        \/ dirs[d].parts = Parts /\ dirs[d].lock # NoLock
        \/ \E w \in Workers : Empties(w, d)

\* What a worker uses, makes and has judged is what it was.
StandOf(w) ==
    LET r == worker[w]
        d == dirs[r.dir]
    IN
    /\ r.pc = "using" => d.place = "entry" /\ d.lock = r.fd /\ d.by = Version[w]
    /\ r.pc \in Starting /\ d.place = "staging"
          => d.parts = {} /\ d.lock = NoLock /\ d.by = Version[w]
    /\ r.pc \in Building =>
          /\ d.place = "staging" /\ d.building = r.building /\ d.lock = r.fd
          /\ d.by = Version[w]
          /\ r.pc # "building" => {"files", "body"} \subseteq d.parts
          /\ r.pc \in {"keyed", "renaming"} => d.parts = Parts
    /\ r.pc \in Removing \cup Looking /\ r.path = 0 /\ r.dir # 0 => d.by <= Version[w]

\* Whoever empties an entry has listed what is in it, and its lock.
EmptiesEntry(w) ==
    worker[w].pc = "emptying" /\ worker[w].path = 0 /\ dirs[worker[w].dir].place = "entry" =>
        /\ worker[w].left = NamesIn(worker[w].dir)
        /\ dirs[worker[w].dir].lock \in {worker[w].fd, NoLock}

\* Whoever empties a staging directory has nothing of a build that goes on.
EmptiesStaging(w) ==
    LET r == worker[w] IN
    r.pc = "emptying" /\ r.path # 0 =>
        /\ dirs[r.path].place = "entry" => r.left = {}
        /\ dirs[r.path].place = "staging" /\ "building.lock" \in r.left
              => dirs[r.path].building = r.fd
        /\ \A v \in Workers : worker[v].dir = r.path =>
              /\ worker[v].pc \in Starting => r.left \subseteq {"building.lock"}
              /\ worker[v].pc \in Building => r.left = {}

OneEmptier(v, w) ==
    Empties(v, worker[v].dir) /\ Empties(w, worker[v].dir)
        => dirs[worker[v].dir].place # "entry"

HoldInv ==
    ~spoiled =>
        /\ \A d \in Dirs : EntryOf(d)
        /\ \A w \in Workers : StandOf(w) /\ EmptiesEntry(w) /\ EmptiesStaging(w)
        /\ \A v, w \in Workers : v # w => OneEmptier(v, w)

CacheInv == TypeOK /\ FormInv /\ HoldInv
=============================================================================
