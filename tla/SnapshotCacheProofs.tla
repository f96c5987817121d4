------------------------- MODULE SnapshotCacheProofs -------------------------
(* Proofs about SnapshotCache for every number of users, cleaners, versions,  *)
(* directories and lock files.                                                *)
EXTENDS SnapshotCache, TLAPS

\* A step of w leaves the other workers as they are.
Only(w) == \A v \in Workers \ {w} : worker'[v] = worker[v]

LEMMA Sorts ==
    /\ NoLock \notin Locks /\ 0 \notin Dirs
    /\ \A w \in Workers : Version[w] \in Nat \ {0}
  <1>1. 0 \notin Dirs
    BY CacheAssumption DEF Dirs
  <1>2. NoLock \notin Locks
    BY <1>1 DEF NoLock, Locks
  <1> QED  BY <1>1, <1>2, CacheAssumption

\* What Entry is: the directory under the commit's name, or none.
LEMMA EntryFacts ==
    /\ Entry \in Dirs \cup {0}
    /\ Entry # 0 => dirs[Entry].place = "entry"
    /\ Entry = 0 => \A d \in Dirs : dirs[d].place # "entry"
    /\ OneEntry => \A d \in Dirs : dirs[d].place = "entry" => d = Entry
  BY Sorts DEF Entry, OneEntry

-----------------------------------------------------------------------------
(* A worker's record after a step.                                           *)

LEMMA GotoFacts ==
    ASSUME TypeOK, NEW w \in Workers, NEW p \in Steps, Goto(w, p)
    PROVE  /\ worker' \in [Workers -> Records] /\ Only(w)
           /\ worker'[w].pc = p
           /\ worker'[w].fd = worker[w].fd /\ worker'[w].mode = worker[w].mode
           /\ worker'[w].building = worker[w].building /\ worker'[w].path = worker[w].path
           /\ worker'[w].dir = worker[w].dir /\ worker'[w].left = worker[w].left
           /\ worker'[w].then = worker[w].then
  BY DEF TypeOK, Goto, Records, Only

\* The record of a worker that has closed its files.
AtRest(w, p) ==
    /\ worker' \in [Workers -> Records] /\ Only(w)
    /\ worker'[w].pc = p /\ worker'[w].fd = NoLock /\ worker'[w].mode = "none"
    /\ worker'[w].building = NoLock /\ worker'[w].path = 0 /\ worker'[w].dir = 0
    /\ worker'[w].left = {} /\ worker'[w].then = "idle"

LEMMA RestFacts ==
    ASSUME TypeOK, NEW w \in Workers
    PROVE  /\ Ends(w) => AtRest(w, "idle")
           /\ Absent(w) => AtRest(w, worker[w].then)
           /\ \A p \in Steps : worker' = [worker EXCEPT ![w] = [Rest EXCEPT !.pc = p]]
                                => AtRest(w, p)
  <1>1. ASSUME NEW p \in Steps, worker' = [worker EXCEPT ![w] = [Rest EXCEPT !.pc = p]]
        PROVE  AtRest(w, p)
    BY <1>1 DEF TypeOK, Rest, Records, Only, AtRest
  <1>2. Rest = [Rest EXCEPT !.pc = "idle"] /\ "idle" \in Steps
    BY DEF Rest, Steps
  <1>3. ASSUME Ends(w) PROVE AtRest(w, "idle")
    BY <1>1, <1>2, <1>3 DEF Ends
  <1>4. ASSUME Absent(w) PROVE AtRest(w, worker[w].then)
    <2>1. worker[w].then \in Steps
      BY DEF TypeOK, Records, Steps
    <2> QED  BY <1>1, <1>4, <2>1 DEF Absent
  <1> QED  BY <1>1, <1>3, <1>4

LEMMA BeginFacts ==
    ASSUME TypeOK, NEW w \in Workers, NEW path \in Dirs \cup {0}, NEW d \in Dirs \cup {0},
           NEW then \in {"idle", "missing"}, BeginRemoval(w, path, d, then)
    PROVE  /\ worker' \in [Workers -> Records] /\ Only(w)
           /\ worker'[w].pc = "opening" /\ worker'[w].fd = NoLock /\ worker'[w].mode = "none"
           /\ worker'[w].building = NoLock /\ worker'[w].path = path /\ worker'[w].dir = d
           /\ worker'[w].left = {} /\ worker'[w].then = then
  BY DEF TypeOK, Rest, BeginRemoval, Records, Steps, Only

-----------------------------------------------------------------------------
(* What a step of one worker leaves of the invariant.                        *)

\* Locks still exclude each other when w has opened, kept or closed its own.
LEMMA LocksKept ==
    ASSUME CacheInv, NEW w \in Workers, Only(w),
           worker'[w].mode \in {"none", "open"}
              \/ (worker'[w].mode = worker[w].mode /\ worker'[w].fd = worker[w].fd),
           worker'[w].building \in {worker[w].building, NoLock}
    PROVE  \A v \in Workers \ {w} : Excludes(v, w)' /\ Excludes(w, v)'
  <1> SUFFICES ASSUME NEW v \in Workers \ {w} PROVE Excludes(v, w)' /\ Excludes(w, v)'
    OBVIOUS
  <1>1. worker'[v] = worker[v]
    BY DEF Only
  <1>2. Excludes(v, w) /\ Excludes(w, v) /\ Shape(v)
    BY DEF CacheInv, FormInv
  <1>3. worker[v].mode = "exclusive" => worker[v].fd # NoLock
    BY <1>2 DEF Shape
  <1> QED  BY <1>1, <1>2, <1>3 DEF Excludes

\* The workers' records and directories stay formed.
LEMMA FormStep ==
    ASSUME CacheInv, NEW w \in Workers, Only(w), Shape(w)', OneEntry',
           \A v \in Workers \ {w} : Excludes(v, w)' /\ Excludes(w, v)',
           worker'[w].pc \in Making
              => \/ worker[w].pc \in Making /\ worker'[w].dir = worker[w].dir
                 \/ worker'[w].dir \in FreeDirs,
           \A d \in Dirs : dirs'[d].place = "entry"
              => dirs[d].place = "entry" \/ (worker[w].pc \in Making /\ worker[w].dir = d),
           \A d \in Dirs : dirs'[d].place = "staging"
              => dirs[d].place = "staging" \/ d \in FreeDirs
    PROVE  FormInv'
  <1>1. ASSUME NEW v \in Workers \ {w} PROVE Shape(v)' /\ ApartOf(v, w)' /\ ApartOf(w, v)'
    <2>1. worker'[v] = worker[v] /\ Shape(v) /\ ApartOf(v, w) /\ worker[v] \in Records
      BY DEF Only, CacheInv, FormInv, TypeOK
    <2>2. worker[v].dir \notin FreeDirs
      BY DEF FreeDirs
    <2>3. worker[v].dir \in Dirs \/ worker[v].dir = 0
      BY <2>1 DEF Records
    <2>4. Shape(v)'
      <3>1. worker[v].pc \in Making => dirs'[worker[v].dir].place # "entry"
        BY <2>1, <2>3 DEF Shape, ApartOf
      <3>2. worker[v].pc = "emptying" /\ worker[v].path = 0
               => dirs'[worker[v].dir].place # "staging"
        BY <2>1, <2>2, <2>3 DEF Shape
      <3> QED  BY <2>1, <3>1, <3>2 DEF Shape
    <2> QED  BY <2>1, <2>2, <2>4 DEF ApartOf
  <1>2. ASSUME NEW u \in Workers, NEW v \in Workers, u # v PROVE Excludes(u, v)' /\ ApartOf(u, v)'
    <2>1. CASE u = w \/ v = w
      BY <1>1, <1>2, <2>1
    <2>2. CASE u # w /\ v # w
      BY <1>2, <2>2 DEF Only, CacheInv, FormInv, Excludes, ApartOf
    <2> QED  BY <2>1, <2>2
  <1> QED  BY <1>1, <1>2 DEF FormInv

\* A step that changes no directory and begins no emptying.
LEMMA QuietStep ==
    ASSUME CacheInv, NEW w \in Workers, dirs' = dirs, Only(w), worker' \in [Workers -> Records],
           spoiled' \in BOOLEAN, spoiled => spoiled', Shape(w)',
           \A v \in Workers \ {w} : Excludes(v, w)' /\ Excludes(w, v)',
           worker'[w].pc \in Making => worker[w].pc \in Making /\ worker'[w].dir = worker[w].dir,
           worker'[w].pc \in Starting => worker[w].pc \in Starting,
           worker'[w].pc \in Building => worker[w].pc \in Building,
           worker'[w].pc # "emptying",
           ~spoiled' => StandOf(w)'
                        /\ \A d \in Dirs : dirs[d].place = "entry" => ~Empties(w, d)
    PROVE  CacheInv'
  <1>1. TypeOK' /\ FormInv'
    <2>1. OneEntry'
      BY DEF CacheInv, FormInv, OneEntry
    <2> QED  BY <2>1, FormStep DEF CacheInv, TypeOK
  <1>2. ASSUME ~spoiled'
        PROVE  /\ \A d \in Dirs : EntryOf(d)'
               /\ \A v \in Workers : StandOf(v)' /\ EmptiesEntry(v)' /\ EmptiesStaging(v)'
               /\ \A u, v \in Workers : u # v => OneEmptier(u, v)'
    <2>1. ASSUME NEW d \in Dirs PROVE EntryOf(d)'
      <3>1. EntryOf(d)
        BY <1>2 DEF CacheInv, HoldInv
      <3>2. ASSUME NEW v \in Workers, dirs[d].place = "entry", Empties(v, d) PROVE Empties(v, d)'
        BY <1>2, <3>2 DEF Empties, Only
      <3> QED  BY <3>1, <3>2 DEF EntryOf
    <2>2. ASSUME NEW v \in Workers PROVE StandOf(v)' /\ EmptiesEntry(v)' /\ EmptiesStaging(v)'
      <3>1. StandOf(v) /\ EmptiesEntry(v) /\ EmptiesStaging(v)
        BY <1>2 DEF CacheInv, HoldInv
      <3>2. CASE v = w
        BY <1>2, <3>2 DEF EmptiesEntry, EmptiesStaging
      <3>3. CASE v # w
        <4>1. worker'[v] = worker[v]
          BY <3>3 DEF Only
        <4>2. StandOf(v)' /\ EmptiesEntry(v)'
          BY <3>1, <4>1 DEF StandOf, EmptiesEntry, NamesIn
        <4>3. ASSUME NEW u \in Workers
              PROVE  /\ worker'[u].pc \in Starting \cup Building => worker'[u].dir = worker[u].dir
                     /\ worker'[u].pc \in Starting => worker[u].pc \in Starting
                     /\ worker'[u].pc \in Building => worker[u].pc \in Building
          BY DEF Only, Making
        <4>4. EmptiesStaging(v)'
          BY <3>1, <4>1, <4>3 DEF EmptiesStaging
        <4> QED  BY <4>2, <4>4
      <3> QED  BY <3>2, <3>3
    <2>3. ASSUME NEW u \in Workers, NEW v \in Workers, u # v PROVE OneEmptier(u, v)'
      <3>1. OneEmptier(u, v)
        BY <1>2, <2>3 DEF CacheInv, HoldInv
      <3> QED  BY <3>1 DEF OneEmptier, Empties, Only
    <2> QED  BY <2>1, <2>2, <2>3
  <1> QED  BY <1>1, <1>2 DEF CacheInv, HoldInv

\* What the invariant says of one worker.
LEMMA OfWorker ==
    ASSUME CacheInv, NEW w \in Workers
    PROVE  /\ TypeOK /\ Shape(w) /\ OneEntry /\ worker[w] \in Records
           /\ worker[w].dir \in Dirs \cup {0} /\ worker[w].path \in Dirs \cup {0}
           /\ Entry \in Dirs \cup {0}
           /\ ~spoiled => StandOf(w) /\ EmptiesEntry(w) /\ EmptiesStaging(w)
  BY EntryFacts DEF CacheInv, FormInv, HoldInv, TypeOK, Records

\* A call ends or goes on with its files closed.
LEMMA RestStep ==
    ASSUME CacheInv, NEW w \in Workers, NEW p \in Resting, AtRest(w, p), dirs' = dirs,
           spoiled' \in BOOLEAN, spoiled => spoiled',
           ~spoiled' => \A d \in Dirs : dirs[d].place = "entry" => ~Empties(w, d)
    PROVE  CacheInv'
  <1>1. Shape(w)'
    BY DEF AtRest, Shape, Resting, Looking, Removing, Starting, Building, Making
  <1>2. StandOf(w)'
    BY DEF AtRest, StandOf, Resting, Looking, Removing, Starting, Building
  <1>3. \A v \in Workers \ {w} : Excludes(v, w)' /\ Excludes(w, v)'
    BY LocksKept DEF AtRest
  <1> QED
    BY <1>1, <1>2, <1>3, QuietStep DEF AtRest, Resting, Starting, Building, Making

\* A removal begins, of the directory under the name or of a staging directory.
LEMMA BeginStep ==
    ASSUME CacheInv, NEW w \in Workers, NEW path \in Dirs \cup {0}, NEW d \in Dirs \cup {0},
           NEW then \in {"idle", "missing"}, BeginRemoval(w, path, d, then), dirs' = dirs,
           spoiled' \in BOOLEAN, spoiled => spoiled', worker[w].pc # "emptying",
           path # 0 => d = path, ~spoiled' /\ path = 0 /\ d # 0 => dirs[d].by <= Version[w]
    PROVE  CacheInv'
  <1>1. /\ worker' \in [Workers -> Records] /\ Only(w)
        /\ worker'[w].pc = "opening" /\ worker'[w].fd = NoLock /\ worker'[w].mode = "none"
        /\ worker'[w].building = NoLock /\ worker'[w].path = path /\ worker'[w].dir = d
        /\ worker'[w].left = {} /\ worker'[w].then = then
    BY BeginFacts DEF CacheInv
  <1>2. Shape(w)'
    BY <1>1 DEF Shape, Resting, Looking, Removing, Starting, Building, Making
  <1>3. ~spoiled' => StandOf(w)'
    BY <1>1 DEF StandOf, Looking, Removing, Starting, Building
  <1>4. \A v \in Workers \ {w} : Excludes(v, w)' /\ Excludes(w, v)'
    BY <1>1, LocksKept
  <1> QED
    BY <1>1, <1>2, <1>3, <1>4, QuietStep DEF Starting, Building, Making, Empties

-----------------------------------------------------------------------------
(* SnapshotCache::lookup.                                                    *)

LEMMA ReadKeyKeeps ==
    ASSUME CacheInv, NEW w \in Workers, ReadKey(w)
    PROVE  CacheInv'
  <1> DEFINE then == IF worker[w].pc = "idle" THEN "missing" ELSE "idle"
  <1>1. /\ TypeOK /\ Shape(w) /\ worker[w] \in Records /\ Entry \in Dirs \cup {0}
        /\ worker[w].pc \in {"idle", "adopting"} /\ UNCHANGED <<dirs, spoiled>>
        /\ then \in {"idle", "missing"} /\ spoiled \in BOOLEAN
    BY OfWorker DEF ReadKey, TypeOK
  <1>2. /\ worker[w].building = NoLock /\ worker[w].dir = 0 /\ worker[w].fd = NoLock
        /\ worker[w].mode = "none" /\ worker[w].left = {} /\ worker[w].path = 0
        /\ worker[w].then = "idle"
    BY <1>1 DEF Shape, Resting, Removing
  <1>3. CASE Goto(w, then)
    <2>1. then \in Steps /\ then \in Resting
      BY DEF Steps, Resting
    <2>2. AtRest(w, then)
      BY <1>1, <1>2, <1>3, <2>1, GotoFacts DEF AtRest
    <2> QED  BY <1>1, <2>1, <2>2, RestStep DEF Empties
  <1>4. CASE Entry # 0 /\ IsOlder(w, Entry) /\ BeginRemoval(w, 0, Entry, then)
    <2>1. dirs[Entry].by <= Version[w]
      BY <1>1, <1>4, Sorts DEF IsOlder, Loose, TypeOK, Directories
    <2> QED  BY <1>1, <1>4, <2>1, BeginStep
  <1>5. CASE /\ Entry # 0 /\ IsCurrent(w, Entry)
             /\ worker' = [worker EXCEPT ![w].pc = "joining", ![w].dir = Entry, ![w].then = then]
    <2>1. /\ worker' \in [Workers -> Records] /\ Only(w)
          /\ worker'[w].pc = "joining" /\ worker'[w].dir = Entry
          /\ worker'[w].building = NoLock /\ worker'[w].fd = NoLock
          /\ worker'[w].mode = "none" /\ worker'[w].left = {} /\ worker'[w].path = 0
      <3>1. Only(w)
        BY <1>1, <1>2, <1>5 DEF TypeOK, Only
      <3>2. /\ worker'[w].pc = "joining" /\ worker'[w].dir = Entry
            /\ worker'[w].building = NoLock /\ worker'[w].fd = NoLock
            /\ worker'[w].mode = "none" /\ worker'[w].left = {} /\ worker'[w].path = 0
        BY <1>1, <1>2, <1>5 DEF TypeOK, Records
      <3>3. worker' \in [Workers -> Records]
        <4>1. worker'[w] \in Records
          BY <1>1, <1>2, <1>5 DEF TypeOK, Records, Steps
        <4> QED  BY <1>1, <1>2, <1>5, <3>1, <4>1 DEF TypeOK, Only
      <3> QED  BY <3>1, <3>2, <3>3
    <2>2. Shape(w)'
      BY <1>5, <2>1 DEF Shape, Resting, Looking, Removing, Starting, Building, Making
    <2>3. dirs[Entry].by <= Version[w]
      BY <1>1, <1>5, Sorts DEF IsCurrent, TypeOK, Directories
    <2>4. StandOf(w)'
      BY <1>1, <2>1, <2>3 DEF StandOf, Looking, Removing, Starting, Building
    <2>5. \A v \in Workers \ {w} : Excludes(v, w)' /\ Excludes(w, v)'
      BY <2>1, LocksKept
    <2> QED
      BY <1>1, <2>1, <2>2, <2>4, <2>5, QuietStep DEF Starting, Building, Making, Empties
  <1>6. CASE Ends(w)
    BY <1>1, <1>6, RestFacts, RestStep DEF Resting, Empties
  <1> QED  BY <1>3, <1>4, <1>5, <1>6 DEF ReadKey

LEMMA ShareLockKeeps ==
    ASSUME CacheInv, NEW w \in Workers, ShareLock(w)
    PROVE  CacheInv'
  <1>1. /\ TypeOK /\ Shape(w) /\ worker[w] \in Records /\ spoiled \in BOOLEAN
        /\ worker[w].pc = "sharing" /\ Exclusive(worker[w].fd) = {} /\ UNCHANGED <<dirs, spoiled>>
        /\ worker' = [worker EXCEPT ![w].mode = "shared", ![w].pc = "checkKey"]
    BY OfWorker DEF ShareLock, TypeOK
  <1>2. /\ worker' \in [Workers -> Records] /\ Only(w)
        /\ worker'[w].pc = "checkKey" /\ worker'[w].mode = "shared"
        /\ worker'[w].fd = worker[w].fd /\ worker'[w].building = worker[w].building
        /\ worker'[w].path = worker[w].path /\ worker'[w].dir = worker[w].dir
        /\ worker'[w].left = worker[w].left
    <2>1. Only(w)
      BY <1>1 DEF TypeOK, Only
    <2>2. /\ worker'[w].pc = "checkKey" /\ worker'[w].mode = "shared"
          /\ worker'[w].fd = worker[w].fd /\ worker'[w].building = worker[w].building
          /\ worker'[w].path = worker[w].path /\ worker'[w].dir = worker[w].dir
          /\ worker'[w].left = worker[w].left
      BY <1>1 DEF TypeOK, Records
    <2>3. worker' \in [Workers -> Records]
      <3>1. worker'[w] \in Records
        BY <1>1 DEF TypeOK, Records, Steps
      <3> QED  BY <1>1, <2>1, <3>1 DEF TypeOK, Only
    <2> QED  BY <2>1, <2>2, <2>3
  <1>3. worker[w].building = NoLock
    BY <1>1 DEF Shape, Building
  <1>4. Shape(w)'
    BY <1>1, <1>2 DEF Shape, Resting, Looking, Removing, Starting, Building, Making
  <1>5. ~spoiled => StandOf(w)'
    <2>1. ~spoiled => StandOf(w)
      BY OfWorker
    <2> QED  BY <1>1, <1>2, <2>1 DEF StandOf, Looking, Removing, Starting, Building
  <1>6. ASSUME NEW v \in Workers \ {w} PROVE Excludes(v, w)' /\ Excludes(w, v)'
    <2>1. worker'[v] = worker[v] /\ Shape(v)
      BY <1>2, OfWorker DEF Only
    <2>2. ~(worker[v].fd = worker[w].fd /\ worker[v].mode = "exclusive")
      BY <1>1 DEF Exclusive
    <2> QED  BY <1>2, <1>3, <2>1, <2>2 DEF Excludes, Shape
  <1> QED
    BY <1>1, <1>2, <1>4, <1>5, <1>6, QuietStep DEF Starting, Building, Making, Empties

\* The calls that only end.
LEMMA EndKeeps ==
    ASSUME CacheInv, NEW w \in Workers,
           LockTimesOut(w) \/ Release(w) \/ ProbeEnds(w) \/ RemovalFails(w) \/ Kill(w)
    PROVE  CacheInv'
  <1>1. TypeOK /\ spoiled \in BOOLEAN
    BY DEF CacheInv, TypeOK
  <1>2. /\ Ends(w) /\ dirs' = dirs /\ spoiled' \in BOOLEAN /\ (spoiled => spoiled')
    BY <1>1 DEF LockTimesOut, Release, ProbeEnds, RemovalFails, Kill
  <1>3. ~spoiled' => worker[w].pc # "emptying"
    BY <1>1 DEF LockTimesOut, Release, ProbeEnds, RemovalFails, Kill
  <1> QED  BY <1>1, <1>2, <1>3, RestFacts, RestStep DEF Resting, Empties

LEMMA CheckKeyKeeps ==
    ASSUME CacheInv, NEW w \in Workers, CheckKey(w)
    PROVE  CacheInv'
  <1>1. /\ TypeOK /\ Shape(w) /\ worker[w] \in Records /\ spoiled \in BOOLEAN
        /\ worker[w].pc = "checkKey" /\ UNCHANGED <<dirs, spoiled>>
        /\ worker[w].then \in Resting
    BY OfWorker DEF CheckKey, TypeOK, Records, Resting
  <1>2. CASE Absent(w)
    BY <1>1, <1>2, RestFacts, RestStep DEF Empties
  <1>3. CASE Goto(w, "checkBody")
    <2>1. /\ worker' \in [Workers -> Records] /\ Only(w)
          /\ worker'[w].pc = "checkBody" /\ worker'[w].mode = worker[w].mode
          /\ worker'[w].fd = worker[w].fd /\ worker'[w].building = worker[w].building
          /\ worker'[w].path = worker[w].path /\ worker'[w].dir = worker[w].dir
          /\ worker'[w].left = worker[w].left
      BY <1>1, <1>3, GotoFacts DEF Steps
    <2>2. Shape(w)'
      BY <1>1, <2>1 DEF Shape, Resting, Looking, Removing, Starting, Building, Making
    <2>3. ~spoiled => StandOf(w)'
      <3>1. ~spoiled => StandOf(w)
        BY OfWorker
      <3> QED  BY <1>1, <2>1, <3>1 DEF StandOf, Looking, Removing, Starting, Building
    <2>4. \A v \in Workers \ {w} : Excludes(v, w)' /\ Excludes(w, v)'
      BY <2>1, LocksKept
    <2> QED
      BY <1>1, <2>1, <2>2, <2>3, <2>4, QuietStep DEF Starting, Building, Making, Empties
  <1> QED  BY <1>2, <1>3 DEF CheckKey

LEMMA CheckBodyKeeps ==
    ASSUME CacheInv, NEW w \in Workers, CheckBody(w)
    PROVE  CacheInv'
  <1>1. /\ TypeOK /\ Shape(w) /\ worker[w] \in Records /\ spoiled \in BOOLEAN
        /\ Entry \in Dirs \cup {0} /\ worker[w].pc = "checkBody" /\ dirs' = dirs
        /\ spoiled' = (spoiled \/ Astray(w, Entry))
        /\ worker[w].then \in {"idle", "missing"}
    BY OfWorker DEF CheckBody, TypeOK, Records
  <1>2. spoiled' \in BOOLEAN /\ (spoiled => spoiled')
    BY <1>1 DEF Astray
  <1>3. /\ worker[w].fd # NoLock /\ worker[w].mode = "shared" /\ worker[w].path = 0
        /\ worker[w].building = NoLock /\ worker[w].left = {}
    BY <1>1 DEF Shape, Removing, Building
  <1>4. ~spoiled' /\ Entry # 0 => /\ Entry = worker[w].dir /\ worker[w].fd = dirs[Entry].lock
                                  /\ dirs[Entry].by <= Version[w]
    <2>1. ~spoiled => StandOf(w)
      BY OfWorker
    <2> QED  BY <1>1, <1>3, <2>1 DEF Astray, GuardOf, StandOf, Looking
  <1>5. CASE Ends(w)
    BY <1>1, <1>2, <1>5, RestFacts, RestStep DEF Resting, Empties
  <1>6. CASE BeginRemoval(w, 0, Entry, worker[w].then)
    BY <1>1, <1>2, <1>4, <1>6, BeginStep
  <1>7. CASE /\ Entry # 0 /\ dirs[Entry].by = Version[w]
             /\ worker' = [worker EXCEPT ![w].pc = "using", ![w].dir = Entry]
    <2>1. /\ worker' \in [Workers -> Records] /\ Only(w)
          /\ worker'[w].pc = "using" /\ worker'[w].dir = Entry
          /\ worker'[w].mode = worker[w].mode
          /\ worker'[w].fd = worker[w].fd /\ worker'[w].building = worker[w].building
          /\ worker'[w].path = worker[w].path /\ worker'[w].left = worker[w].left
      <3>1. Only(w)
        BY <1>1, <1>7 DEF TypeOK, Only
      <3>2. /\ worker'[w].pc = "using" /\ worker'[w].dir = Entry
            /\ worker'[w].mode = worker[w].mode
            /\ worker'[w].fd = worker[w].fd /\ worker'[w].building = worker[w].building
            /\ worker'[w].path = worker[w].path /\ worker'[w].left = worker[w].left
        BY <1>1, <1>7 DEF TypeOK, Records
      <3>3. worker' \in [Workers -> Records]
        <4>1. worker'[w] \in Records
          BY <1>1, <1>7 DEF TypeOK, Records, Steps
        <4> QED  BY <1>1, <1>7, <3>1, <4>1 DEF TypeOK, Only
      <3> QED  BY <3>1, <3>2, <3>3
    <2>2. Shape(w)'
      BY <1>3, <1>7, <2>1 DEF Shape, Resting, Looking, Removing, Starting, Building, Making
    <2>3. ~spoiled' => StandOf(w)'
      BY <1>1, <1>4, <1>7, <2>1, EntryFacts DEF StandOf, Looking, Removing, Starting, Building
    <2>4. \A v \in Workers \ {w} : Excludes(v, w)' /\ Excludes(w, v)'
      BY <2>1, LocksKept
    <2> QED
      BY <1>1, <1>2, <2>1, <2>2, <2>3, <2>4, QuietStep DEF Starting, Building, Making, Empties
  <1> QED  BY <1>5, <1>6, <1>7 DEF CheckBody

-----------------------------------------------------------------------------
(* remove_if_unlocked.                                                       *)

\* A lock that nobody holds is taken.
LEMMA TakenExcludes ==
    ASSUME CacheInv, NEW w \in Workers, Only(w), NEW i \in Locks, TryLock(i),
           worker'[w].fd = i, worker'[w].mode = "exclusive", worker'[w].building = NoLock
    PROVE  \A v \in Workers \ {w} : Excludes(v, w)' /\ Excludes(w, v)'
  <1> SUFFICES ASSUME NEW v \in Workers \ {w} PROVE Excludes(v, w)' /\ Excludes(w, v)'
    OBVIOUS
  <1>1. worker'[v] = worker[v] /\ Shape(v)
    BY OfWorker DEF Only
  <1>2. worker[v].mode = "exclusive" => worker[v].fd # NoLock
    BY <1>1 DEF Shape
  <1>3. /\ worker[v].building # i
        /\ worker[v].fd = i => worker[v].mode \notin {"shared", "exclusive"}
    BY DEF TryLock, Exclusive, Shared
  <1> QED  BY <1>1, <1>2, <1>3 DEF Excludes

LEMMA ClaimLockKeeps ==
    ASSUME CacheInv, NEW w \in Workers, ClaimLock(w)
    PROVE  CacheInv'
  <1>1. /\ TypeOK /\ Shape(w) /\ worker[w] \in Records /\ spoiled \in BOOLEAN
        /\ worker[w].pc = "claiming" /\ UNCHANGED <<dirs, spoiled>>
    BY OfWorker DEF ClaimLock, TypeOK
  <1>2. CASE Ends(w)
    BY <1>1, <1>2, RestFacts, RestStep DEF Resting, Empties
  <1>3. CASE /\ TryLock(worker[w].fd)
             /\ worker' = [worker EXCEPT ![w].mode = "exclusive", ![w].pc = "removing"]
    <2>1. /\ worker' \in [Workers -> Records] /\ Only(w)
          /\ worker'[w].pc = "removing" /\ worker'[w].mode = "exclusive"
          /\ worker'[w].fd = worker[w].fd /\ worker'[w].building = worker[w].building
          /\ worker'[w].path = worker[w].path /\ worker'[w].dir = worker[w].dir
          /\ worker'[w].left = worker[w].left
      <3>1. Only(w)
        BY <1>1, <1>3 DEF TypeOK, Only
      <3>2. /\ worker'[w].pc = "removing" /\ worker'[w].mode = "exclusive"
            /\ worker'[w].fd = worker[w].fd /\ worker'[w].building = worker[w].building
            /\ worker'[w].path = worker[w].path /\ worker'[w].dir = worker[w].dir
            /\ worker'[w].left = worker[w].left
        BY <1>1, <1>3 DEF TypeOK, Records
      <3>3. worker' \in [Workers -> Records]
        <4>1. worker'[w] \in Records
          BY <1>1, <1>3 DEF TypeOK, Records, Steps
        <4> QED  BY <1>1, <1>3, <3>1, <4>1 DEF TypeOK, Only
      <3> QED  BY <3>1, <3>2, <3>3
    <2>2. worker[w].building = NoLock /\ worker[w].fd \in Locks
      BY <1>1 DEF Shape, Building, Records
    <2>3. Shape(w)'
      BY <1>1, <2>1 DEF Shape, Resting, Looking, Removing, Starting, Building, Making
    <2>4. ~spoiled => StandOf(w)'
      <3>1. ~spoiled => StandOf(w)
        BY OfWorker
      <3> QED  BY <1>1, <2>1, <3>1 DEF StandOf, Looking, Removing, Starting, Building
    <2>5. \A v \in Workers \ {w} : Excludes(v, w)' /\ Excludes(w, v)'
      BY <1>3, <2>1, <2>2, TakenExcludes
    <2> QED
      BY <1>1, <2>1, <2>3, <2>4, <2>5, QuietStep DEF Starting, Building, Making, Empties
  <1> QED  BY <1>2, <1>3 DEF ClaimLock

LEMMA ProbeKeeps ==
    ASSUME CacheInv, NEW w \in Workers, Probe(w)
    PROVE  CacheInv'
  <1>1. /\ TypeOK /\ Shape(w) /\ worker[w] \in Records /\ spoiled \in BOOLEAN
        /\ worker[w].pc = "idle" /\ UNCHANGED <<dirs, spoiled>>
    BY OfWorker DEF Probe, TypeOK
  <1>2. PICK i \in Locks :
           /\ TryLock(i)
           /\ worker' = [worker EXCEPT ![w].pc = "probing", ![w].fd = i, ![w].mode = "exclusive"]
    <2>1. PICK d \in Dirs : \E i \in {dirs[d].lock, dirs[d].building} \ {NoLock} :
             /\ TryLock(i)
             /\ worker' = [worker EXCEPT ![w].pc = "probing", ![w].fd = i,
                                         ![w].mode = "exclusive"]
      BY DEF Probe
    <2>2. {dirs[d].lock, dirs[d].building} \ {NoLock} \subseteq Locks
      BY <1>1 DEF TypeOK, Directories
    <2> QED  BY <2>1, <2>2
  <1>3. /\ worker' \in [Workers -> Records] /\ Only(w)
        /\ worker'[w].pc = "probing" /\ worker'[w].mode = "exclusive"
        /\ worker'[w].fd = i /\ worker'[w].building = worker[w].building
        /\ worker'[w].path = worker[w].path /\ worker'[w].dir = worker[w].dir
        /\ worker'[w].left = worker[w].left
    <2>1. Only(w)
      BY <1>1, <1>2 DEF TypeOK, Only
    <2>2. /\ worker'[w].pc = "probing" /\ worker'[w].mode = "exclusive"
          /\ worker'[w].fd = i /\ worker'[w].building = worker[w].building
          /\ worker'[w].path = worker[w].path /\ worker'[w].dir = worker[w].dir
          /\ worker'[w].left = worker[w].left
      BY <1>1, <1>2 DEF TypeOK, Records
    <2>3. worker' \in [Workers -> Records]
      <3>1. worker'[w] \in Records
        BY <1>1, <1>2 DEF TypeOK, Records, Steps
      <3> QED  BY <1>1, <1>2, <2>1, <3>1 DEF TypeOK, Only
    <2> QED  BY <2>1, <2>2, <2>3
  <1>4. worker[w].building = NoLock
    BY <1>1 DEF Shape, Resting
  <1>5. Shape(w)'
    BY <1>1, <1>3, <1>4, Sorts DEF Shape, Resting, Looking, Removing, Starting, Building, Making
  <1>6. StandOf(w)'
    BY <1>3 DEF StandOf, Looking, Removing, Starting, Building
  <1>7. \A v \in Workers \ {w} : Excludes(v, w)' /\ Excludes(w, v)'
    BY <1>2, <1>3, <1>4, TakenExcludes
  <1> QED
    BY <1>1, <1>3, <1>5, <1>6, <1>7, QuietStep DEF Starting, Building, Making, Empties

LEMMA CleanEntryKeeps ==
    ASSUME CacheInv, NEW w \in Workers, CleanEntry(w)
    PROVE  CacheInv'
  <1>1. /\ TypeOK /\ Entry \in Dirs \cup {0} /\ Entry # 0 /\ spoiled \in BOOLEAN
        /\ worker[w].pc = "idle" /\ UNCHANGED <<dirs, spoiled>>
        /\ BeginRemoval(w, 0, Entry, "idle") /\ (IsOlder(w, Entry) \/ IsCurrent(w, Entry))
    BY OfWorker DEF CleanEntry, TypeOK
  <1>2. dirs[Entry].by <= Version[w]
    BY <1>1, Sorts DEF IsOlder, IsCurrent, Loose, TypeOK, Directories
  <1> QED  BY <1>1, <1>2, BeginStep

LEMMA CleanStagingKeeps ==
    ASSUME CacheInv, NEW w \in Workers, CleanStaging(w)
    PROVE  CacheInv'
  <1>1. TypeOK /\ spoiled \in BOOLEAN /\ worker[w].pc = "idle" /\ UNCHANGED <<dirs, spoiled>>
    BY OfWorker DEF CleanStaging, TypeOK
  <1>2. PICK d \in Dirs : BeginRemoval(w, d, d, "idle")
    BY DEF CleanStaging
  <1> QED  BY <1>1, <1>2, Sorts, BeginStep

-----------------------------------------------------------------------------
(* A step that changes directories: the set D of them.                       *)

LEMMA HoldStep ==
    ASSUME CacheInv, FormInv', ~spoiled, NEW w \in Workers, Only(w), NEW D \in SUBSET Dirs,
           \A e \in Dirs \ D : dirs'[e] = dirs[e],
           \A e \in D : EntryOf(e)',
           \A e \in D : dirs'[e].place = "entry" => dirs[e].place \in {"entry", "staging"},
           \A e \in Dirs \ D : dirs[e].place = "entry" /\ Empties(w, e) => Empties(w, e)',
           StandOf(w)' /\ EmptiesEntry(w)' /\ EmptiesStaging(w)',
           \A v \in Workers \ {w} : worker[v].dir \in D
              => StandOf(v)' /\ EmptiesEntry(v)' /\ EmptiesStaging(v)',
           \A v \in Workers \ {w} : OneEmptier(v, w)' /\ OneEmptier(w, v)',
           worker'[w].pc \in Starting =>
              worker'[w].dir \in D \/ (worker[w].pc \in Starting /\ worker'[w].dir = worker[w].dir),
           worker'[w].pc \in Building =>
              worker'[w].dir \in D \/ (worker[w].pc \in Building /\ worker'[w].dir = worker[w].dir)
    PROVE  HoldInv'
  <1>1. ASSUME NEW e \in Dirs PROVE EntryOf(e)'
    <2>1. CASE e \in D
      BY <2>1
    <2>2. CASE e \notin D
      <3>1. EntryOf(e) /\ dirs'[e] = dirs[e]
        BY <2>2 DEF CacheInv, HoldInv
      <3>2. ASSUME NEW v \in Workers, dirs[e].place = "entry", Empties(v, e) PROVE Empties(v, e)'
        BY <2>2, <3>2 DEF Empties, Only
      <3> QED  BY <3>1, <3>2 DEF EntryOf
    <2> QED  BY <2>1, <2>2
  <1>2. ASSUME NEW v \in Workers \ {w}
        PROVE  StandOf(v)' /\ EmptiesEntry(v)' /\ EmptiesStaging(v)'
    <2>1. CASE worker[v].dir \in D
      BY <2>1
    <2>2. CASE worker[v].dir \notin D
      <3>1. /\ worker'[v] = worker[v] /\ Shape(v) /\ worker[v].dir \in Dirs \cup {0}
            /\ StandOf(v) /\ EmptiesEntry(v) /\ EmptiesStaging(v)
        BY OfWorker DEF Only
      <3>2. CASE worker[v].dir = 0
        BY <3>1, <3>2 DEF Shape, StandOf, EmptiesEntry, EmptiesStaging, Looking, Starting,
                          Building, Making
      <3>3. CASE worker[v].dir \in Dirs
        <4>1. dirs'[worker[v].dir] = dirs[worker[v].dir]
          BY <2>2, <3>3
        <4>2. StandOf(v)' /\ EmptiesEntry(v)'
          <5>1. StandOf(v)'
            BY <3>1, <4>1 DEF StandOf
          <5>2. EmptiesEntry(v)'
            BY <3>1, <4>1 DEF EmptiesEntry, NamesIn
          <5> QED  BY <5>1, <5>2
        <4>3. ASSUME NEW u \in Workers, worker'[u].dir = worker[v].dir
              PROVE  /\ worker'[u].pc \in Starting
                           => worker[u].pc \in Starting /\ worker[u].dir = worker[v].dir
                     /\ worker'[u].pc \in Building
                           => worker[u].pc \in Building /\ worker[u].dir = worker[v].dir
          BY <2>2, <4>3 DEF Only
        <4>4. worker[v].path # 0 => worker[v].path = worker[v].dir
          BY <3>1 DEF Shape
        <4>5. EmptiesStaging(v)'
          BY <3>1, <4>1, <4>3, <4>4 DEF EmptiesStaging
        <4> QED  BY <4>2, <4>5
      <3> QED  BY <3>1, <3>2, <3>3
    <2> QED  BY <2>1, <2>2
  <1>3. ASSUME NEW u \in Workers, NEW v \in Workers, u # v PROVE OneEmptier(u, v)'
    <2>1. CASE u = w \/ v = w
      BY <1>3, <2>1
    <2>2. CASE u # w /\ v # w
      <3>1. /\ worker'[u] = worker[u] /\ worker'[v] = worker[v] /\ OneEmptier(u, v)
            /\ Shape(u) /\ worker[u].dir \in Dirs \cup {0}
        BY <1>3, <2>2, OfWorker DEF Only, CacheInv, HoldInv
      <3>2. Empties(u, worker[u].dir) =>
               /\ worker[u].dir \in Dirs /\ dirs[worker[u].dir].place # "staging"
        BY <3>1 DEF Empties, Shape
      <3>3. Empties(u, worker[u].dir) /\ dirs'[worker[u].dir].place = "entry"
               => dirs[worker[u].dir].place = "entry"
        BY <3>2
      <3> QED  BY <3>1, <3>3 DEF OneEmptier, Empties
    <2> QED  BY <2>1, <2>2
  <1> QED  BY <1>1, <1>2, <1>3 DEF HoldInv

\* What a directory is after a step that changed it alone.
Changed(d, place, by, lock, building, parts) ==
    /\ dirs' \in [Dirs -> Directories]
    /\ \A e \in Dirs \ {d} : dirs'[e] = dirs[e]
    /\ dirs'[d].place = place /\ dirs'[d].by = by /\ dirs'[d].lock = lock
    /\ dirs'[d].building = building /\ dirs'[d].parts = parts

LEMMA DirFacts ==
    ASSUME TypeOK, NEW d \in Dirs
    PROVE  /\ \A i \in Locks \cup {NoLock} : dirs' = [dirs EXCEPT ![d].lock = i] =>
                 Changed(d, dirs[d].place, dirs[d].by, i, dirs[d].building, dirs[d].parts)
           /\ \A i \in Locks \cup {NoLock} : dirs' = [dirs EXCEPT ![d].building = i] =>
                 Changed(d, dirs[d].place, dirs[d].by, dirs[d].lock, i, dirs[d].parts)
           /\ \A p \in SUBSET Parts : dirs' = [dirs EXCEPT ![d].parts = p] =>
                 Changed(d, dirs[d].place, dirs[d].by, dirs[d].lock, dirs[d].building, p)
           /\ dirs' = [dirs EXCEPT ![d] = Gone] => Changed(d, "gone", 0, NoLock, NoLock, {})
  <1>1. dirs[d] \in Directories
    BY DEF TypeOK
  <1>2. ASSUME NEW i \in Locks \cup {NoLock}, dirs' = [dirs EXCEPT ![d].lock = i]
        PROVE  Changed(d, dirs[d].place, dirs[d].by, i, dirs[d].building, dirs[d].parts)
    BY <1>1, <1>2 DEF TypeOK, Directories, Changed
  <1>3. ASSUME NEW i \in Locks \cup {NoLock}, dirs' = [dirs EXCEPT ![d].building = i]
        PROVE  Changed(d, dirs[d].place, dirs[d].by, dirs[d].lock, i, dirs[d].parts)
    BY <1>1, <1>3 DEF TypeOK, Directories, Changed
  <1>4. ASSUME NEW p \in SUBSET Parts, dirs' = [dirs EXCEPT ![d].parts = p]
        PROVE  Changed(d, dirs[d].place, dirs[d].by, dirs[d].lock, dirs[d].building, p)
    BY <1>1, <1>4 DEF TypeOK, Directories, Changed
  <1>5. ASSUME dirs' = [dirs EXCEPT ![d] = Gone] PROVE Changed(d, "gone", 0, NoLock, NoLock, {})
    <2>1. Gone \in Directories
      BY DEF Gone, Directories, Loose
    <2> QED  BY <1>5, <2>1 DEF TypeOK, Changed, Gone, Loose
  <1> QED  BY <1>2, <1>3, <1>4, <1>5

\* A directory goes, and w with it, if nobody uses it or builds in it.
LEMMA GoneStep ==
    ASSUME CacheInv, NEW w \in Workers, NEW p \in Resting, AtRest(w, p),
           NEW d \in Dirs, dirs' = [dirs EXCEPT ![d] = Gone], spoiled' = spoiled,
           ~spoiled => \A v \in Workers \ {w} :
                          worker[v].dir = d => worker[v].pc \notin {"using"} \cup Building,
           ~spoiled => \A e \in Dirs \ {d} : dirs[e].place = "entry" => ~Empties(w, e)
    PROVE  CacheInv'
  <1>1. Changed(d, "gone", 0, NoLock, NoLock, {}) /\ TypeOK
    BY DirFacts DEF CacheInv
  <1>2. TypeOK' /\ spoiled \in BOOLEAN
    BY <1>1 DEF AtRest, TypeOK, Changed
  <1>3. Shape(w)'
    BY DEF AtRest, Shape, Resting, Looking, Removing, Starting, Building, Making
  <1>4. \A v \in Workers \ {w} : Excludes(v, w)' /\ Excludes(w, v)'
    BY LocksKept DEF AtRest
  <1>5. OneEntry /\ OneEntry'
    BY <1>1 DEF CacheInv, FormInv, OneEntry, Changed
  <1>6. FormInv'
    BY <1>1, <1>3, <1>4, <1>5, FormStep DEF AtRest, Changed, Resting, Starting, Building, Making
  <1>7. ASSUME ~spoiled PROVE HoldInv'
    <2>1. EntryOf(d)'
      BY <1>1 DEF EntryOf, Changed
    <2>2. StandOf(w)' /\ EmptiesEntry(w)' /\ EmptiesStaging(w)'
      BY DEF AtRest, StandOf, EmptiesEntry, EmptiesStaging, Resting, Looking, Removing, Starting,
             Building
    <2>3. ASSUME NEW v \in Workers \ {w}, worker[v].dir = d
          PROVE  StandOf(v)' /\ EmptiesEntry(v)' /\ EmptiesStaging(v)'
      <3>1. /\ worker'[v] = worker[v] /\ Shape(v) /\ EmptiesStaging(v)
            /\ worker[v].pc \notin {"using"} \cup Building
        BY <1>7, <2>3, OfWorker DEF AtRest, Only
      <3>2. dirs'[d].by <= Version[v] /\ dirs'[d].place = "gone"
        BY <1>1, Sorts DEF Changed
      <3>3. StandOf(v)' /\ EmptiesEntry(v)'
        BY <2>3, <3>1, <3>2 DEF StandOf, EmptiesEntry
      <3>4. worker[v].path # 0 => worker[v].path = d
        BY <2>3, <3>1 DEF Shape
      <3>5. \A u \in Workers : worker'[u].pc \in Starting \cup Building => worker'[u] = worker[u]
        BY DEF AtRest, Only, Resting, Starting, Building
      <3>6. EmptiesStaging(v)'
        BY <3>1, <3>2, <3>4, <3>5 DEF EmptiesStaging
      <3> QED  BY <3>3, <3>6
    <2>4. \A v \in Workers \ {w} : OneEmptier(v, w)' /\ OneEmptier(w, v)'
      BY DEF OneEmptier, Empties, AtRest, Resting
    <2>5. /\ {d} \in SUBSET Dirs /\ Only(w) /\ worker'[w].pc \notin Starting \cup Building
          /\ \A e \in Dirs \ {d} : dirs'[e] = dirs[e]
          /\ \A e \in {d} : EntryOf(e)' /\ dirs'[e].place # "entry"
      BY <1>1, <2>1 DEF AtRest, Changed, Resting, Starting, Building
    <2>6. \A v \in Workers \ {w} : worker[v].dir \in {d}
             => StandOf(v)' /\ EmptiesEntry(v)' /\ EmptiesStaging(v)'
      BY <2>3
    <2>7. /\ \A e \in {d} : EntryOf(e)'
          /\ \A e \in {d} : dirs'[e].place = "entry" => dirs[e].place \in {"entry", "staging"}
          /\ \A e \in Dirs \ {d} : dirs[e].place = "entry" /\ Empties(w, e) => Empties(w, e)'
          /\ worker'[w].pc \notin Starting /\ worker'[w].pc \notin Building
      BY <1>7, <2>5
    <2> QED  BY <1>6, <1>7, <2>2, <2>4, <2>5, <2>6, <2>7, HoldStep
  <1> QED  BY <1>2, <1>6, <1>7 DEF CacheInv, HoldInv

LEMMA RemoveDirectoryKeeps ==
    ASSUME CacheInv, NEW w \in Workers, RemoveDirectory(w)
    PROVE  CacheInv'
  <1> DEFINE d == PathDir(w)
  <1>1. /\ TypeOK /\ Shape(w) /\ worker[w] \in Records /\ spoiled \in BOOLEAN /\ OneEntry
        /\ worker[w].pc = "emptying" /\ worker[w].left = {} /\ spoiled' = spoiled
        /\ worker[w].then \in Resting /\ worker[w].path \in Dirs \cup {0}
        /\ ~spoiled => EmptiesEntry(w)
    BY OfWorker DEF RemoveDirectory, TypeOK, Records, Resting
  <1>2. /\ d \in Dirs \cup {0}
        /\ d # 0 /\ worker[w].path = 0 => dirs[d].place = "entry"
        /\ d # 0 /\ worker[w].path # 0 => dirs[d].place = "staging"
        /\ worker[w].path = 0 => \A e \in Dirs : dirs[e].place = "entry" => e = d
    BY <1>1, EntryFacts DEF PathDir
  <1>3. \A e \in Dirs : Empties(w, e) => worker[w].path = 0 /\ worker[w].dir = e
    BY DEF Empties
  <1>4. CASE d = 0 /\ Absent(w) /\ UNCHANGED dirs
    <2>1. \A e \in Dirs : dirs[e].place = "entry" => ~Empties(w, e)
      BY <1>2, <1>3, <1>4, Sorts
    <2> QED  BY <1>1, <1>4, <2>1, RestFacts, RestStep
  <1>5. CASE d # 0 /\ NamesIn(d) # {} /\ Ends(w) /\ UNCHANGED dirs
    <2>1. ASSUME ~spoiled, NEW e \in Dirs, dirs[e].place = "entry" PROVE ~Empties(w, e)
      <3>1. SUFFICES ASSUME Empties(w, e) PROVE FALSE
        OBVIOUS
      <3>2. e = d /\ worker[w].dir = d /\ worker[w].path = 0
        BY <1>2, <1>3, <2>1, <3>1
      <3> QED  BY <1>1, <1>5, <2>1, <3>2 DEF EmptiesEntry
    <2>2. "idle" \in Resting
      BY DEF Resting
    <2> QED  BY <1>1, <1>5, <2>1, <2>2, RestFacts, RestStep
  <1>6. CASE d # 0 /\ NamesIn(d) = {} /\ Absent(w) /\ dirs' = [dirs EXCEPT ![d] = Gone]
    <2>1. dirs[d].lock = NoLock /\ dirs[d].building = NoLock
      BY <1>6 DEF NamesIn
    <2>2. ASSUME ~spoiled, NEW v \in Workers \ {w}, worker[v].dir = d
          PROVE  worker[v].pc \notin {"using"} \cup Building
      <3>1. StandOf(v) /\ Shape(v)
        BY <2>2, OfWorker
      <3> QED  BY <2>1, <2>2, <3>1 DEF StandOf, Shape
    <2>3. \A e \in Dirs \ {d} : dirs[e].place = "entry" => ~Empties(w, e)
      BY <1>2, <1>3
    <2>4. d \in Dirs /\ AtRest(w, worker[w].then)
      BY <1>1, <1>2, <1>6, RestFacts
    <2> QED  BY <1>1, <1>6, <2>2, <2>3, <2>4, GoneStep
  <1> QED  BY <1>4, <1>5, <1>6 DEF RemoveDirectory

-----------------------------------------------------------------------------
(* SnapshotCache::stage and ::publish.                                       *)

LEMMA DiscardKeeps ==
    ASSUME CacheInv, NEW w \in Workers, Discard(w)
    PROVE  CacheInv'
  <1> DEFINE p == IF worker[w].pc = "adopted" THEN "adopting" ELSE "idle"
  <1>1. /\ TypeOK /\ Shape(w) /\ worker[w] \in Records /\ spoiled \in BOOLEAN
        /\ worker[w].pc \in {"adopted", "failed"} /\ worker[w].dir \in Dirs \cup {0}
        /\ spoiled' = spoiled /\ p \in Resting /\ p \in Steps
    BY OfWorker DEF Discard, TypeOK, Resting, Steps
  <1>2. worker[w].dir \in Dirs
    BY <1>1 DEF Shape, Making
  <1>3. \A e \in Dirs : ~Empties(w, e)
    BY <1>1 DEF Empties
  <1>4. CASE Ends(w) /\ UNCHANGED dirs
    BY <1>1, <1>3, <1>4, RestFacts, RestStep DEF Resting
  <1>5. CASE dirs' = dirs /\ worker' = [worker EXCEPT ![w] = [Rest EXCEPT !.pc = p]]
    BY <1>1, <1>3, <1>5, RestFacts, RestStep
  <1>6. CASE /\ IsStaged(w) /\ dirs' = [dirs EXCEPT ![Staged(w)] = Gone]
             /\ worker' = [worker EXCEPT ![w] = [Rest EXCEPT !.pc = p]]
    <2>1. ASSUME ~spoiled, NEW v \in Workers \ {w}, worker[v].dir = worker[w].dir
          PROVE  worker[v].pc \notin {"using"} \cup Building
      <3>1. StandOf(v) /\ ApartOf(v, w)
        BY <2>1, OfWorker DEF CacheInv, FormInv
      <3> QED  BY <1>1, <1>6, <2>1, <3>1 DEF StandOf, ApartOf, Making, IsStaged, Staged
    <2>2. AtRest(w, p)
      BY <1>1, <1>6, RestFacts
    <2> QED  BY <1>1, <1>2, <1>3, <1>6, <2>1, <2>2, GoneStep DEF Staged
  <1> QED  BY <1>4, <1>5, <1>6 DEF Discard

\* A maker goes on, or gives up, with what it holds.
LEMMA MakerGoes ==
    ASSUME CacheInv, NEW w \in Workers, worker[w].pc \in Making,
           NEW p \in {"adopted", "failed", "renaming"},
           p = "renaming" => worker[w].pc = "keyed", Goto(w, p), UNCHANGED <<dirs, spoiled>>
    PROVE  CacheInv'
  <1>1. /\ TypeOK /\ Shape(w) /\ spoiled \in BOOLEAN /\ p \in Steps
        /\ ~spoiled => StandOf(w)
    BY OfWorker DEF TypeOK, Steps
  <1>2. /\ worker' \in [Workers -> Records] /\ Only(w) /\ worker'[w].pc = p
        /\ worker'[w].fd = worker[w].fd /\ worker'[w].mode = worker[w].mode
        /\ worker'[w].building = worker[w].building /\ worker'[w].path = worker[w].path
        /\ worker'[w].dir = worker[w].dir /\ worker'[w].left = worker[w].left
    BY <1>1, GotoFacts
  <1>3. Shape(w)'
    BY <1>1, <1>2 DEF Shape, Resting, Looking, Removing, Starting, Building, Making
  <1>4. ~spoiled => StandOf(w)'
    BY <1>1, <1>2 DEF StandOf, Looking, Removing, Starting, Building
  <1>5. \A v \in Workers \ {w} : Excludes(v, w)' /\ Excludes(w, v)'
    BY <1>2, LocksKept
  <1>6. worker[w].pc # "emptying" /\ worker'[w].pc \in Making /\ worker'[w].pc \notin Starting
    BY <1>2 DEF Making, Starting, Building
  <1>7. worker'[w].pc \in Building => worker[w].pc \in Building
    BY <1>2 DEF Building
  <1> QED
    BY <1>1, <1>2, <1>3, <1>4, <1>5, <1>6, <1>7, QuietStep DEF Empties

LEMMA BuildFailsKeeps ==
    ASSUME CacheInv, NEW w \in Workers, BuildFails(w) \/ LookAtDestination(w)
    PROVE  CacheInv'
  <1>1. CASE BuildFails(w)
    BY <1>1, MakerGoes DEF BuildFails, Making, Building
  <1>2. CASE LookAtDestination(w)
    BY <1>2, MakerGoes DEF LookAtDestination, Making, Building
  <1> QED  BY <1>1, <1>2

LEMMA TakeBuildingKeeps ==
    ASSUME CacheInv, NEW w \in Workers, TakeBuilding(w)
    PROVE  CacheInv'
  <1>1. /\ TypeOK /\ Shape(w) /\ worker[w] \in Records /\ spoiled \in BOOLEAN
        /\ worker[w].pc = "created" /\ UNCHANGED <<dirs, spoiled>>
        /\ ~spoiled => StandOf(w)
    BY OfWorker DEF TakeBuilding, TypeOK
  <1>2. CASE Goto(w, "failed")
    BY <1>1, <1>2, MakerGoes DEF Making, Starting
  <1>3. CASE /\ Exclusive(worker[w].fd) = {}
             /\ worker' = [worker EXCEPT ![w].pc = "guarded", ![w].building = worker[w].fd,
                                         ![w].fd = NoLock, ![w].mode = "none"]
    <2>1. /\ worker' \in [Workers -> Records] /\ Only(w)
          /\ worker'[w].pc = "guarded" /\ worker'[w].mode = "none" /\ worker'[w].fd = NoLock
          /\ worker'[w].building = worker[w].fd
          /\ worker'[w].path = worker[w].path /\ worker'[w].dir = worker[w].dir
          /\ worker'[w].left = worker[w].left
      <3>1. Only(w)
        BY <1>1, <1>3 DEF TypeOK, Only
      <3>2. /\ worker'[w].pc = "guarded" /\ worker'[w].mode = "none" /\ worker'[w].fd = NoLock
            /\ worker'[w].building = worker[w].fd
            /\ worker'[w].path = worker[w].path /\ worker'[w].dir = worker[w].dir
            /\ worker'[w].left = worker[w].left
        BY <1>1, <1>3 DEF TypeOK, Records
      <3>3. worker' \in [Workers -> Records]
        <4>1. worker'[w] \in Records
          BY <1>1, <1>3 DEF TypeOK, Records, Steps
        <4> QED  BY <1>1, <1>3, <3>1, <4>1 DEF TypeOK, Only
      <3> QED  BY <3>1, <3>2, <3>3
    <2>2. Shape(w)'
      BY <1>1, <2>1 DEF Shape, Resting, Looking, Removing, Starting, Building, Making
    <2>3. ~spoiled => StandOf(w)'
      BY <1>1, <2>1 DEF StandOf, Looking, Removing, Starting, Building
    <2>4. ASSUME NEW v \in Workers \ {w} PROVE Excludes(v, w)' /\ Excludes(w, v)'
      <3>1. worker'[v] = worker[v] /\ Shape(v)
        BY <2>1, OfWorker DEF Only
      <3>2. ~(worker[v].fd = worker[w].fd /\ worker[v].mode = "exclusive")
        BY <1>3 DEF Exclusive
      <3>3. worker[v].mode = "exclusive" => worker[v].fd # NoLock
        BY <3>1 DEF Shape
      <3> QED  BY <2>1, <3>1, <3>2, <3>3 DEF Excludes
    <2> QED
      BY <1>1, <2>1, <2>2, <2>3, <2>4, QuietStep DEF Starting, Building, Making, Empties
  <1> QED  BY <1>2, <1>3 DEF TakeBuilding

\* A staging directory changes and stays one.
LEMMA StagingStep ==
    ASSUME CacheInv, NEW w \in Workers, Only(w), worker' \in [Workers -> Records], NEW d \in Dirs,
           dirs[d].place = "staging", dirs' \in [Dirs -> Directories],
           \A e \in Dirs \ {d} : dirs'[e] = dirs[e],
           dirs'[d].place = "staging", dirs'[d].by = dirs[d].by,
           spoiled' \in BOOLEAN, spoiled => spoiled', Shape(w)',
           \A v \in Workers \ {w} : Excludes(v, w)' /\ Excludes(w, v)',
           worker[w].pc # "emptying", worker'[w].pc # "emptying",
           worker'[w].pc \in Making => worker[w].pc \in Making /\ worker'[w].dir = worker[w].dir,
           worker'[w].pc \in Starting => worker[w].pc \in Starting,
           worker'[w].pc \in Building => worker[w].pc \in Building \/ worker'[w].dir = d,
           ~spoiled' => StandOf(w)',
           ~spoiled' => \A v \in Workers \ {w} : worker[v].dir = d =>
                           /\ worker[v].pc \in Starting \cup Building => StandOf(v)'
                           /\ EmptiesStaging(v)'
    PROVE  CacheInv'
  <1>1. TypeOK'
    BY DEF TypeOK
  <1>2. OneEntry'
    BY DEF CacheInv, FormInv, OneEntry
  <1>3. FormInv'
    BY <1>2, FormStep
  <1>4. ASSUME ~spoiled' PROVE HoldInv'
    <2>1. ASSUME NEW v \in Workers \ {w}, worker[v].dir \in {d}
          PROVE  StandOf(v)' /\ EmptiesEntry(v)' /\ EmptiesStaging(v)'
      <3>1. worker'[v] = worker[v] /\ StandOf(v)
        BY <1>4, OfWorker DEF Only
      <3>2. StandOf(v)'
        <4>1. CASE worker[v].pc \in Starting \cup Building
          BY <1>4, <2>1, <4>1
        <4>2. CASE worker[v].pc \notin Starting \cup Building
          BY <2>1, <3>1, <4>2 DEF StandOf
        <4> QED  BY <4>1, <4>2
      <3>3. EmptiesEntry(v)'
        BY <2>1, <3>1 DEF EmptiesEntry
      <3> QED  BY <1>4, <2>1, <3>2, <3>3
    <2>2. EntryOf(d)' /\ EmptiesEntry(w)' /\ EmptiesStaging(w)'
      BY DEF EntryOf, EmptiesEntry, EmptiesStaging
    <2>3. \A v \in Workers \ {w} : OneEmptier(v, w)' /\ OneEmptier(w, v)'
      BY DEF OneEmptier, Empties
    <2>4. \A e \in Dirs : ~Empties(w, e)
      BY DEF Empties
    <2>5. {d} \in SUBSET Dirs /\ \A e \in {d} : EntryOf(e)' /\ dirs'[e].place # "entry"
      BY <2>2
    <2>6. /\ worker'[w].pc \in Starting
                => worker[w].pc \in Starting /\ worker'[w].dir = worker[w].dir
          /\ worker'[w].pc \in Building
                => \/ worker'[w].dir \in {d}
                   \/ worker[w].pc \in Building /\ worker'[w].dir = worker[w].dir
      BY DEF Making
    <2> QED  BY <1>3, <1>4, <2>1, <2>2, <2>3, <2>4, <2>5, <2>6, HoldStep
  <1> QED  BY <1>1, <1>3, <1>4 DEF CacheInv, HoldInv

\* Nobody has a new lock file open.
LEMMA NewLockFacts ==
    ASSUME NEW i, NEW d, NEW name, IsNewLock(i, d, name)
    PROVE  i \in Locks /\ \A v \in Workers : worker[v].fd # i /\ worker[v].building # i
  BY DEF IsNewLock, FreeLocks

LEMMA StageKeeps ==
    ASSUME CacheInv, NEW w \in Workers, Stage(w)
    PROVE  CacheInv'
  <1>1. /\ TypeOK /\ Shape(w) /\ worker[w] \in Records /\ spoiled \in BOOLEAN
        /\ worker[w].pc = "missing" /\ spoiled' = spoiled
    BY OfWorker DEF Stage, TypeOK
  <1>2. PICK d \in Dirs :
           /\ IsNewDir(d)
           /\ dirs' = [dirs EXCEPT ![d] = [Gone EXCEPT !.place = "staging", !.by = Version[w]]]
           /\ worker' = [worker EXCEPT ![w].pc = "staged", ![w].dir = d]
    BY DEF Stage
  <1>3. d \in FreeDirs /\ \A v \in Workers : worker[v].dir # d
    BY <1>2 DEF IsNewDir, FreeDirs
  <1>4. Changed(d, "staging", Version[w], NoLock, NoLock, {})
    <2>1. [Gone EXCEPT !.place = "staging", !.by = Version[w]] \in Directories
      BY Sorts DEF Gone, Directories, Loose
    <2> QED  BY <1>1, <1>2, <2>1 DEF TypeOK, Changed, Gone
  <1>5. /\ worker' \in [Workers -> Records] /\ Only(w)
        /\ worker'[w].pc = "staged" /\ worker'[w].dir = d
        /\ worker'[w].mode = "none" /\ worker'[w].fd = NoLock
        /\ worker'[w].building = NoLock /\ worker'[w].path = 0 /\ worker'[w].left = {}
    <2>1. Only(w)
      BY <1>1, <1>2 DEF TypeOK, Only
    <2>2. /\ worker'[w].pc = "staged" /\ worker'[w].dir = d
          /\ worker'[w].mode = "none" /\ worker'[w].fd = NoLock
          /\ worker'[w].building = NoLock /\ worker'[w].path = 0 /\ worker'[w].left = {}
      BY <1>1, <1>2 DEF TypeOK, Records, Shape, Resting, Removing
    <2>3. worker' \in [Workers -> Records]
      <3>1. worker'[w] \in Records
        BY <1>1, <1>2 DEF TypeOK, Records, Steps
      <3> QED  BY <1>1, <1>2, <2>1, <3>1 DEF TypeOK, Only
    <2> QED  BY <2>1, <2>2, <2>3
  <1>6. TypeOK'
    BY <1>1, <1>4, <1>5 DEF TypeOK, Changed
  <1>7. Shape(w)'
    BY <1>4, <1>5, Sorts DEF Shape, Changed, Resting, Looking, Removing, Starting, Building, Making
  <1>8. \A v \in Workers \ {w} : Excludes(v, w)' /\ Excludes(w, v)'
    BY <1>5, LocksKept
  <1>9. OneEntry'
    BY <1>4 DEF CacheInv, FormInv, OneEntry, Changed
  <1>10. FormInv'
    BY <1>3, <1>4, <1>5, <1>7, <1>8, <1>9, FormStep DEF Changed
  <1>11. ASSUME ~spoiled PROVE HoldInv'
    <2>1. StandOf(w)' /\ EmptiesEntry(w)' /\ EmptiesStaging(w)' /\ EntryOf(d)'
      BY <1>4, <1>5 DEF StandOf, EmptiesEntry, EmptiesStaging, EntryOf, Changed, Looking,
                        Removing, Starting, Building
    <2>2. \A v \in Workers \ {w} : OneEmptier(v, w)' /\ OneEmptier(w, v)'
      BY <1>5 DEF OneEmptier, Empties
    <2>3. \A e \in Dirs : ~Empties(w, e)
      BY <1>1 DEF Empties
    <2>4. /\ {d} \in SUBSET Dirs /\ \A e \in {d} : EntryOf(e)' /\ dirs'[e].place # "entry"
          /\ \A e \in Dirs \ {d} : dirs'[e] = dirs[e]
      BY <1>4, <2>1 DEF Changed
    <2>5. worker'[w].dir \in {d} /\ \A v \in Workers : worker[v].dir \notin {d}
      BY <1>3, <1>5
    <2> QED  BY <1>5, <1>10, <1>11, <2>1, <2>2, <2>3, <2>4, <2>5, HoldStep
  <1> QED  BY <1>1, <1>6, <1>10, <1>11 DEF CacheInv, HoldInv

\* Nobody else makes what w makes.
LEMMA MakerAlone ==
    ASSUME CacheInv, NEW w \in Workers, worker[w].pc \in Making,
           NEW v \in Workers \ {w}, worker[v].dir = worker[w].dir
    PROVE  worker[v].pc \notin Starting \cup Building
  BY DEF CacheInv, FormInv, ApartOf, Making

LEMMA CreateBuildingKeeps ==
    ASSUME CacheInv, NEW w \in Workers, CreateBuilding(w)
    PROVE  CacheInv'
  <1> DEFINE d == worker[w].dir
  <1>1. /\ TypeOK /\ Shape(w) /\ worker[w] \in Records /\ spoiled \in BOOLEAN
        /\ worker[w].pc = "staged" /\ spoiled' = spoiled /\ worker[w].pc \in Making
        /\ d \in Dirs \cup {0} /\ (~spoiled => StandOf(w))
    BY OfWorker DEF CreateBuilding, TypeOK, Making, Starting
  <1>2. d \in Dirs
    BY <1>1 DEF Shape
  <1>3. CASE Goto(w, "failed") /\ UNCHANGED dirs
    BY <1>1, <1>3, MakerGoes
  <1>4. ASSUME dirs[d].place = "staging", dirs[d].building = NoLock, NEW i \in Locks,
               IsNewLock(i, d, "building.lock"), dirs' = [dirs EXCEPT ![d].building = i],
               worker' = [worker EXCEPT ![w].pc = "created", ![w].fd = i, ![w].mode = "open"]
        PROVE  CacheInv'
    <2>1. Changed(d, dirs[d].place, dirs[d].by, dirs[d].lock, i, dirs[d].parts)
      BY <1>1, <1>2, <1>4, DirFacts
    <2>2. /\ worker' \in [Workers -> Records] /\ Only(w)
          /\ worker'[w].pc = "created" /\ worker'[w].fd = i /\ worker'[w].mode = "open"
          /\ worker'[w].building = worker[w].building
          /\ worker'[w].path = worker[w].path /\ worker'[w].dir = worker[w].dir
          /\ worker'[w].left = worker[w].left
      <3>1. Only(w)
        BY <1>1, <1>4 DEF TypeOK, Only
      <3>2. /\ worker'[w].pc = "created" /\ worker'[w].fd = i /\ worker'[w].mode = "open"
            /\ worker'[w].building = worker[w].building
            /\ worker'[w].path = worker[w].path /\ worker'[w].dir = worker[w].dir
            /\ worker'[w].left = worker[w].left
        BY <1>1, <1>4 DEF TypeOK, Records
      <3>3. worker' \in [Workers -> Records]
        <4>1. worker'[w] \in Records
          <5>1. worker'[w] = [worker[w] EXCEPT !.pc = "created", !.fd = i, !.mode = "open"]
            BY <1>1, <1>4 DEF TypeOK
          <5> QED  BY <1>1, <5>1 DEF Records, Steps
        <4> QED  BY <1>1, <1>4, <3>1, <4>1 DEF TypeOK, Only
      <3> QED  BY <3>1, <3>2, <3>3
    <2>3. Shape(w)'
      BY <1>1, <1>4, <2>1, <2>2, Sorts
      DEF Shape, Changed, Resting, Looking, Removing, Starting, Building, Making
    <2>4. ~spoiled => StandOf(w)'
      BY <1>1, <1>4, <2>1, <2>2 DEF StandOf, Changed, Looking, Removing, Starting, Building
    <2>5. \A v \in Workers \ {w} : Excludes(v, w)' /\ Excludes(w, v)'
      BY <2>2, LocksKept
    <2>6. ASSUME ~spoiled, NEW v \in Workers \ {w}, worker[v].dir = d
          PROVE  worker[v].pc \notin Starting \cup Building /\ EmptiesStaging(v)'
      <3>1. worker[v].pc \notin Starting \cup Building
        BY <1>1, <2>6, MakerAlone
      <3>2. worker'[v] = worker[v] /\ Shape(v) /\ EmptiesStaging(v)
        BY <2>2, <2>6, OfWorker DEF Only
      <3>3. SUFFICES ASSUME worker[v].pc = "emptying", worker[v].path # 0 PROVE EmptiesStaging(v)'
        BY <3>1, <3>2 DEF EmptiesStaging
      <3>4. worker[v].path = d /\ worker[v].fd # NoLock
        BY <2>6, <3>2, <3>3 DEF Shape
      <3>5. "building.lock" \notin worker[v].left
        BY <1>4, <3>2, <3>3, <3>4 DEF EmptiesStaging
      <3>6. ASSUME NEW u \in Workers, worker'[u].dir = d
            PROVE  /\ worker[u].dir = d /\ (worker'[u].pc \in Starting => worker[u].pc \in Starting)
                   /\ (worker'[u].pc \in Building => worker[u].pc \in Building)
        BY <1>1, <2>2, <3>6 DEF Only, Starting, Building
      <3>7. ASSUME NEW u \in Workers, worker'[u].dir = d
            PROVE  /\ worker'[u].pc \in Starting => worker[v].left \subseteq {"building.lock"}
                   /\ worker'[u].pc \in Building => worker[v].left = {}
        BY <3>2, <3>3, <3>4, <3>6, <3>7 DEF EmptiesStaging
      <3>8. dirs'[d].place = "staging"
        BY <1>4, <2>1 DEF Changed
      <3> QED  BY <3>2, <3>4, <3>5, <3>7, <3>8 DEF EmptiesStaging
    <2>7. /\ worker'[w].pc \in Starting /\ worker[w].pc \in Starting
          /\ worker'[w].pc \notin Building
      BY <1>1, <2>2 DEF Starting, Building
    <2> QED
      <3>1. /\ dirs' \in [Dirs -> Directories] /\ \A e \in Dirs \ {d} : dirs'[e] = dirs[e]
            /\ dirs[d].place = "staging" /\ dirs'[d].place = "staging"
            /\ dirs'[d].by = dirs[d].by
        BY <1>4, <2>1 DEF Changed
      <3>2. /\ worker[w].pc # "emptying" /\ worker'[w].pc # "emptying" /\ worker'[w].dir = d
            /\ worker'[w].dir = worker[w].dir
        BY <1>1, <2>2
      <3>3. ~spoiled' => \A v \in Workers \ {w} : worker[v].dir = d =>
                            /\ worker[v].pc \in Starting \cup Building => StandOf(v)'
                            /\ EmptiesStaging(v)'
        BY <1>1, <2>6
      <3> HIDE DEF d
      <3> QED
        BY <1>1, <1>2, <2>2, <2>3, <2>4, <2>5, <2>7, <3>1, <3>2, <3>3, StagingStep
  <1> QED  BY <1>3, <1>4 DEF CreateBuilding, IsStaged, Staged

LEMMA CreateInUseKeeps ==
    ASSUME CacheInv, NEW w \in Workers, CreateInUse(w)
    PROVE  CacheInv'
  <1> DEFINE d == worker[w].dir
  <1>1. /\ TypeOK /\ Shape(w) /\ worker[w] \in Records /\ spoiled \in BOOLEAN
        /\ worker[w].pc = "guarded" /\ worker[w].pc \in Making /\ worker[w].pc \in Starting
        /\ d \in Dirs \cup {0} /\ (~spoiled => StandOf(w))
    BY OfWorker DEF CreateInUse, TypeOK, Making, Starting
  <1>2. d \in Dirs
    BY <1>1 DEF Shape
  <1>3. CASE Goto(w, "failed") /\ UNCHANGED <<dirs, spoiled>>
    BY <1>1, <1>3, MakerGoes
  <1>4. ASSUME dirs[d].place = "staging", NEW i \in Locks, IsNewLock(i, d, "in_use.lock"),
               dirs' = [dirs EXCEPT ![d].lock = i],
               worker' = [worker EXCEPT ![w].pc = "building", ![w].fd = i, ![w].mode = "shared"],
               spoiled' = (spoiled \/ dirs[d].building # worker[w].building)
        PROVE  CacheInv'
    <2>1. Changed(d, dirs[d].place, dirs[d].by, i, dirs[d].building, dirs[d].parts)
      BY <1>1, <1>2, <1>4, DirFacts
    <2>2. /\ worker' \in [Workers -> Records] /\ Only(w)
          /\ worker'[w].pc = "building" /\ worker'[w].fd = i /\ worker'[w].mode = "shared"
          /\ worker'[w].building = worker[w].building
          /\ worker'[w].path = worker[w].path /\ worker'[w].dir = worker[w].dir
          /\ worker'[w].left = worker[w].left
      <3>1. Only(w)
        BY <1>1, <1>4 DEF TypeOK, Only
      <3>2. /\ worker'[w].pc = "building" /\ worker'[w].fd = i /\ worker'[w].mode = "shared"
            /\ worker'[w].building = worker[w].building
            /\ worker'[w].path = worker[w].path /\ worker'[w].dir = worker[w].dir
            /\ worker'[w].left = worker[w].left
        BY <1>1, <1>4 DEF TypeOK, Records
      <3>3. worker' \in [Workers -> Records]
        <4>1. worker'[w] \in Records
          BY <1>1, <1>4 DEF TypeOK, Records, Steps
        <4> QED  BY <1>1, <1>4, <3>1, <4>1 DEF TypeOK, Only
      <3> QED  BY <3>1, <3>2, <3>3
    <2>3. Shape(w)'
      BY <1>1, <1>4, <2>1, <2>2, Sorts
      DEF Shape, Changed, Resting, Looking, Removing, Starting, Building, Making
    <2>4. /\ spoiled' \in BOOLEAN /\ (spoiled => spoiled')
          /\ ~spoiled' => ~spoiled /\ dirs[d].building = worker[w].building
      BY <1>1, <1>4
    <2>5. ~spoiled' => StandOf(w)'
      <3>1. ~spoiled' => /\ dirs[d].by = Version[w] /\ dirs[d].place = "staging"
                         /\ dirs[d].building = worker[w].building
        BY <1>1, <1>4, <2>4 DEF StandOf
      <3> QED
        BY <2>1, <2>2, <3>1 DEF StandOf, Changed, Looking, Removing, Starting, Building
    <2>6. ASSUME NEW v \in Workers \ {w} PROVE Excludes(v, w)' /\ Excludes(w, v)'
      <3>1. worker'[v] = worker[v] /\ Excludes(v, w) /\ worker[v].fd # i
        BY <1>4, <2>2, NewLockFacts DEF Only, CacheInv, FormInv
      <3> QED  BY <2>2, <3>1 DEF Excludes
    <2>7. ASSUME ~spoiled', NEW v \in Workers \ {w}, worker[v].dir = d
          PROVE  worker[v].pc \notin Starting \cup Building /\ EmptiesStaging(v)'
      <3>1. worker[v].pc \notin Starting \cup Building
        BY <1>1, <2>7, MakerAlone
      <3>2. worker'[v] = worker[v] /\ Shape(v) /\ EmptiesStaging(v) /\ Excludes(v, w)
        BY <2>2, <2>4, <2>7, OfWorker DEF Only, CacheInv, FormInv
      <3>3. SUFFICES ASSUME worker[v].pc = "emptying", worker[v].path # 0 PROVE EmptiesStaging(v)'
        BY <3>1, <3>2 DEF EmptiesStaging
      <3>4. worker[v].path = d /\ worker[v].mode = "exclusive"
        BY <2>7, <3>2, <3>3 DEF Shape
      <3>5. worker[v].left \subseteq {"building.lock"}
        BY <1>1, <3>2, <3>3, <3>4 DEF EmptiesStaging
      <3>6. "building.lock" \notin worker[v].left
        BY <1>4, <2>4, <2>7, <3>2, <3>3, <3>4 DEF EmptiesStaging, Excludes
      <3>7. worker[v].left = {}
        BY <3>5, <3>6
      <3> QED  BY <3>2, <3>7 DEF EmptiesStaging
    <2>8. worker'[w].pc \in Making /\ worker'[w].pc \notin Starting
      BY <2>2 DEF Making, Starting, Building
    <2> QED
      <3>1. /\ dirs' \in [Dirs -> Directories] /\ \A e \in Dirs \ {d} : dirs'[e] = dirs[e]
            /\ dirs[d].place = "staging" /\ dirs'[d].place = "staging"
            /\ dirs'[d].by = dirs[d].by
        BY <1>4, <2>1 DEF Changed
      <3>2. /\ worker[w].pc # "emptying" /\ worker'[w].pc # "emptying" /\ worker'[w].dir = d
            /\ worker'[w].dir = worker[w].dir
        BY <1>1, <2>2
      <3>3. ~spoiled' => \A v \in Workers \ {w} : worker[v].dir = d =>
                            /\ worker[v].pc \in Starting \cup Building => StandOf(v)'
                            /\ EmptiesStaging(v)'
        BY <2>7
      <3> HIDE DEF d
      <3> QED
        BY <1>1, <1>2, <2>2, <2>3, <2>4, <2>5, <2>6, <2>8, <3>1, <3>2, <3>3, StagingStep
  <1> QED  BY <1>3, <1>4 DEF CreateInUse, IsStaged, Staged

\* The build puts something into its directory.
LEMMA FillStep ==
    ASSUME CacheInv, NEW w \in Workers, worker[w].pc \in {"building", "built"}, IsStaged(w),
           NEW p \in {"built", "keyed"}, Goto(w, p), NEW parts \in SUBSET Parts,
           dirs' = [dirs EXCEPT ![Staged(w)].parts = parts], spoiled' = spoiled,
           ~spoiled => {"files", "body"} \subseteq parts /\ (p = "keyed" => parts = Parts)
    PROVE  CacheInv'
  <1> DEFINE d == worker[w].dir
  <1>1. /\ TypeOK /\ Shape(w) /\ spoiled \in BOOLEAN /\ worker[w].pc \in Making
        /\ worker[w].pc \in Building /\ d \in Dirs \cup {0} /\ (~spoiled => StandOf(w))
    BY OfWorker DEF TypeOK, Making, Building
  <1>2. d \in Dirs /\ dirs[d].place = "staging"
    BY <1>1 DEF Shape, IsStaged, Staged
  <1>3. Changed(d, dirs[d].place, dirs[d].by, dirs[d].lock, dirs[d].building, parts)
    BY <1>1, <1>2, DirFacts DEF Staged
  <1>4. /\ worker' \in [Workers -> Records] /\ Only(w) /\ worker'[w].pc = p
        /\ worker'[w].fd = worker[w].fd /\ worker'[w].mode = worker[w].mode
        /\ worker'[w].building = worker[w].building /\ worker'[w].path = worker[w].path
        /\ worker'[w].dir = worker[w].dir /\ worker'[w].left = worker[w].left
    <2>1. p \in Steps
      BY DEF Steps
    <2> QED  BY <1>1, <2>1, GotoFacts
  <1>5. Shape(w)'
    BY <1>1, <1>2, <1>3, <1>4
    DEF Shape, Changed, Resting, Looking, Removing, Starting, Building, Making
  <1>6. ~spoiled => StandOf(w)'
    BY <1>1, <1>2, <1>3, <1>4 DEF StandOf, Changed, Looking, Removing, Starting, Building
  <1>7. \A v \in Workers \ {w} : Excludes(v, w)' /\ Excludes(w, v)'
    BY <1>4, LocksKept
  <1>8. ASSUME ~spoiled, NEW v \in Workers \ {w}, worker[v].dir = d
        PROVE  worker[v].pc \notin Starting \cup Building /\ EmptiesStaging(v)'
    <2>1. worker[v].pc \notin Starting \cup Building
      BY <1>1, <1>8, MakerAlone
    <2>2. worker'[v] = worker[v] /\ Shape(v) /\ EmptiesStaging(v)
      BY <1>4, <1>8, OfWorker DEF Only
    <2>3. worker[v].pc = "emptying" /\ worker[v].path # 0 => worker[v].left = {}
      BY <1>1, <1>8, <2>2 DEF Shape, EmptiesStaging
    <2> QED  BY <2>1, <2>2, <2>3 DEF EmptiesStaging
  <1>9. /\ worker'[w].pc \in Making /\ worker'[w].pc \notin Starting /\ worker'[w].pc # "emptying"
        /\ worker[w].pc # "emptying"
    BY <1>4 DEF Making, Starting, Building
  <1> QED
    BY <1>1, <1>2, <1>3, <1>4, <1>5, <1>6, <1>7, <1>8, <1>9, StagingStep DEF Changed

LEMMA FillKeeps ==
    ASSUME CacheInv, NEW w \in Workers, Build(w) \/ WriteKey(w)
    PROVE  CacheInv'
  <1>1. /\ TypeOK /\ Shape(w) /\ worker[w].dir \in Dirs \cup {0} /\ (~spoiled => StandOf(w))
    BY OfWorker
  <1>2. CASE Build(w)
    BY <1>2, FillStep DEF Build, Parts
  <1>3. CASE WriteKey(w)
    <2>1. worker[w].dir \in Dirs
      BY <1>1, <1>3 DEF WriteKey, Shape, Making, Building
    <2>2. dirs[Staged(w)].parts \cup {"key"} \in SUBSET Parts
      BY <1>1, <2>1 DEF TypeOK, Directories, Parts, Staged
    <2>3. ~spoiled => {"files", "body"} \subseteq dirs[Staged(w)].parts
      BY <1>1, <1>3 DEF WriteKey, StandOf, Building, Staged
    <2>4. ~spoiled => /\ {"files", "body"} \subseteq dirs[Staged(w)].parts \cup {"key"}
                      /\ dirs[Staged(w)].parts \cup {"key"} = Parts
      BY <2>2, <2>3 DEF Parts
    <2>5. dirs' = [dirs EXCEPT ![Staged(w)].parts = dirs[Staged(w)].parts \cup {"key"}]
      BY <1>1, <1>3, <2>1 DEF WriteKey, TypeOK, Staged
    <2> QED  BY <1>3, <2>2, <2>4, <2>5, FillStep DEF WriteKey
  <1> QED  BY <1>2, <1>3

LEMMA RenameKeeps ==
    ASSUME CacheInv, NEW w \in Workers, Rename(w)
    PROVE  CacheInv'
  <1> DEFINE d == worker[w].dir
  <1>1. /\ TypeOK /\ Shape(w) /\ worker[w] \in Records /\ spoiled \in BOOLEAN /\ OneEntry
        /\ worker[w].pc = "renaming" /\ worker[w].pc \in Making /\ worker[w].pc \in Building
        /\ d \in Dirs \cup {0} /\ spoiled' = spoiled /\ Entry \in Dirs \cup {0}
        /\ ~spoiled => StandOf(w)
    BY OfWorker DEF Rename, TypeOK, Making, Building
  <1>2. d \in Dirs
    BY <1>1 DEF Shape
  <1>3. ASSUME NEW p \in {"adopted", "failed"}, Goto(w, p), dirs' = dirs PROVE CacheInv'
    BY <1>1, <1>3, MakerGoes
  <1>4. ASSUME dirs[d].place = "staging", Entry # 0 => NamesIn(Entry) = {},
               dirs' = [e \in Dirs |-> IF e = d THEN [dirs[e] EXCEPT !.place = "entry"]
                                       ELSE IF e = Entry THEN Gone ELSE dirs[e]],
               worker' = [worker EXCEPT ![w].pc = "using", ![w].building = NoLock]
        PROVE  CacheInv'
    <2>1. /\ worker' \in [Workers -> Records] /\ Only(w)
          /\ worker'[w].pc = "using" /\ worker'[w].building = NoLock
          /\ worker'[w].fd = worker[w].fd /\ worker'[w].mode = worker[w].mode
          /\ worker'[w].path = worker[w].path /\ worker'[w].dir = worker[w].dir
          /\ worker'[w].left = worker[w].left
      <3>1. Only(w)
        BY <1>1, <1>4 DEF TypeOK, Only
      <3>2. /\ worker'[w].pc = "using" /\ worker'[w].building = NoLock
            /\ worker'[w].fd = worker[w].fd /\ worker'[w].mode = worker[w].mode
            /\ worker'[w].path = worker[w].path /\ worker'[w].dir = worker[w].dir
            /\ worker'[w].left = worker[w].left
        BY <1>1, <1>4 DEF TypeOK, Records
      <3>3. worker' \in [Workers -> Records]
        <4>1. worker'[w] \in Records
          BY <1>1, <1>4 DEF TypeOK, Records, Steps
        <4> QED  BY <1>1, <1>4, <3>1, <4>1 DEF TypeOK, Only
      <3> QED  BY <3>1, <3>2, <3>3
    <2>2. dirs' \in [Dirs -> Directories]
      <3>1. Gone \in Directories /\ dirs \in [Dirs -> Directories]
        BY <1>1 DEF Gone, Directories, Loose, TypeOK
      <3>2. [dirs[d] EXCEPT !.place = "entry"] \in Directories
        BY <1>2, <3>1 DEF Directories
      <3> QED  BY <1>4, <3>1, <3>2
    <2>3. /\ dirs'[d].place = "entry" /\ dirs'[d].by = dirs[d].by /\ dirs'[d].lock = dirs[d].lock
          /\ dirs'[d].parts = dirs[d].parts
      BY <1>1, <1>2, <1>4 DEF TypeOK, Directories
    <2>4. /\ \A e \in Dirs \ {d, Entry} : dirs'[e] = dirs[e] /\ dirs'[e].place # "entry"
          /\ \A e \in Dirs \ {d} : e = Entry => dirs'[e].place = "gone" /\ dirs'[e].by = 0
      <3>1. \A e \in Dirs \ {d, Entry} : dirs[e].place # "entry"
        BY <1>1, EntryFacts
      <3> QED  BY <1>4, <3>1 DEF Gone, Loose
    <2>5. TypeOK' /\ OneEntry' /\ Shape(w)'
      <3>1. \A e \in Dirs : dirs'[e].place = "entry" => e = d
        BY <2>4
      <3>2. Shape(w)'
        BY <1>1, <2>1 DEF Shape, Resting, Looking, Removing, Starting, Building, Making
      <3> QED  BY <1>1, <2>1, <2>2, <3>1, <3>2 DEF TypeOK, OneEntry
    <2>6. \A v \in Workers \ {w} : Excludes(v, w)' /\ Excludes(w, v)'
      BY <2>1, LocksKept
    <2>7. FormInv'
      <3>1. \A e \in Dirs : dirs'[e].place = "entry" => worker[w].pc \in Making /\ worker[w].dir = e
        BY <1>1, <2>4
      <3>2. \A e \in Dirs : dirs'[e].place = "staging" => dirs[e].place = "staging"
        BY <2>3, <2>4
      <3>3. worker'[w].pc \notin Making
        BY <2>1 DEF Making, Starting, Building
      <3> QED  BY <2>1, <2>5, <2>6, <3>1, <3>2, <3>3, FormStep
    <2>8. ASSUME ~spoiled PROVE HoldInv'
      <3> DEFINE D == {d, Entry} \ {0}
      <3>1. /\ dirs[d].lock = worker[w].fd /\ dirs[d].by = Version[w] /\ dirs[d].parts = Parts
            /\ worker[w].fd # NoLock /\ worker[w].path = 0
        BY <1>1, <2>8 DEF StandOf, Shape, Removing
      <3>2. StandOf(w)' /\ EmptiesEntry(w)' /\ EmptiesStaging(w)'
        BY <2>1, <2>3, <3>1 DEF StandOf, EmptiesEntry, EmptiesStaging, Looking, Removing,
                                Starting, Building
      <3>3. \A e \in D : EntryOf(e)'
        BY <1>1, <1>2, <2>3, <2>4, <3>1 DEF EntryOf
      <3>4. ASSUME NEW v \in Workers \ {w}, worker[v].dir \in D
            PROVE  StandOf(v)' /\ EmptiesEntry(v)' /\ EmptiesStaging(v)'
        <4>1. /\ worker'[v] = worker[v] /\ Shape(v) /\ StandOf(v) /\ EmptiesStaging(v)
          BY <2>1, <2>8, OfWorker DEF Only
        <4>2. \A u \in Workers : worker'[u].pc \in Starting \cup Building => worker'[u] = worker[u]
          BY <2>1 DEF Only, Starting, Building
        <4>3. CASE worker[v].dir = d
          <5>1. worker[v].pc \notin Starting \cup Building
            BY <1>1, <4>3, MakerAlone
          <5>2. StandOf(v)'
            BY <1>4, <2>3, <4>1, <4>3, <5>1 DEF StandOf
          <5>3. EmptiesEntry(v)'
            BY <1>4, <4>1, <4>3 DEF EmptiesEntry, Shape
          <5>4. worker[v].pc = "emptying" /\ worker[v].path # 0 => worker[v].left = {}
            BY <1>1, <4>1, <4>3 DEF Shape, EmptiesStaging
          <5>5. EmptiesStaging(v)'
            BY <4>1, <5>4 DEF EmptiesStaging
          <5> QED  BY <5>2, <5>3, <5>5
        <4>4. CASE worker[v].dir = Entry /\ worker[v].dir # d
          <5>1. /\ Entry \in Dirs /\ dirs[Entry].place = "entry" /\ dirs[Entry].lock = NoLock
                /\ dirs'[Entry].place = "gone" /\ dirs'[Entry].by = 0
            BY <1>1, <1>4, <2>4, <3>4, <4>4, EntryFacts DEF NamesIn
          <5>2. worker[v].pc \notin {"using"} \cup Starting \cup Building
            BY <4>1, <4>4, <5>1 DEF StandOf, Shape, Making
          <5>3. StandOf(v)' /\ EmptiesEntry(v)'
            BY <4>1, <4>4, <5>1, <5>2, Sorts DEF StandOf, EmptiesEntry
          <5>4. worker[v].path # 0 => worker[v].path = Entry
            BY <4>1, <4>4 DEF Shape
          <5>5. EmptiesStaging(v)'
            BY <4>1, <4>2, <5>1, <5>4 DEF EmptiesStaging
          <5> QED  BY <5>3, <5>5
        <4> QED  BY <3>4, <4>3, <4>4
      <3>5. \A v \in Workers \ {w} : OneEmptier(v, w)' /\ OneEmptier(w, v)'
        BY <2>1 DEF OneEmptier, Empties
      <3>6. /\ \A e \in Dirs : ~Empties(w, e)
            /\ worker'[w].pc \notin Starting /\ worker'[w].pc \notin Building
        BY <1>1, <2>1 DEF Empties, Starting, Building
      <3>7. /\ D \in SUBSET Dirs /\ \A e \in Dirs \ D : dirs'[e] = dirs[e]
            /\ \A e \in D : dirs'[e].place = "entry" => dirs[e].place \in {"entry", "staging"}
        BY <1>1, <1>2, <1>4, <2>4, Sorts
      <3> HIDE DEF D
      <3> QED  BY <2>1, <2>7, <2>8, <3>2, <3>3, <3>4, <3>5, <3>6, <3>7, HoldStep
    <2> QED  BY <1>1, <2>5, <2>7, <2>8 DEF CacheInv, HoldInv
  <1> QED  BY <1>3, <1>4 DEF Rename, IsStaged, Staged

-----------------------------------------------------------------------------
(* The calls that go by a path.                                              *)

LEMMA PathFacts ==
    ASSUME CacheInv, NEW w \in Workers
    PROVE  /\ PathDir(w) \in Dirs \cup {0}
           /\ PathDir(w) # 0 /\ worker[w].path = 0 => dirs[PathDir(w)].place = "entry"
           /\ PathDir(w) # 0 /\ worker[w].path # 0
                 => PathDir(w) = worker[w].path /\ dirs[PathDir(w)].place = "staging"
  BY OfWorker, EntryFacts DEF PathDir

LEMMA OpenLockKeeps ==
    ASSUME CacheInv, NEW w \in Workers, OpenLock(w)
    PROVE  CacheInv'
  <1> DEFINE d == PathDir(w)
             found == GuardOf(w, d)
             next == IF worker[w].pc = "joining" THEN "sharing" ELSE "claiming"
             path == worker[w].path
  <1>1. /\ TypeOK /\ Shape(w) /\ worker[w] \in Records /\ spoiled \in BOOLEAN
        /\ worker[w].pc \in {"joining", "opening"} /\ worker[w].then \in Resting
        /\ d \in Dirs \cup {0} /\ (~spoiled => StandOf(w))
    BY OfWorker, PathFacts DEF OpenLock, TypeOK, Records, Resting
  <1>2. CASE Absent(w) /\ UNCHANGED <<dirs, spoiled>>
    BY <1>1, <1>2, RestFacts, RestStep DEF Empties
  <1>3. ASSUME d # 0, NEW i \in Locks,
               found # NoLock => i = found,
               found = NoLock => IsNewLock(i, d, IF path = 0 THEN "in_use.lock"
                                                             ELSE "building.lock"),
               dirs' = IF path = 0 THEN [dirs EXCEPT ![d].lock = i]
                                   ELSE [dirs EXCEPT ![d].building = i],
               worker' = [worker EXCEPT ![w].fd = i, ![w].mode = "open", ![w].pc = next],
               spoiled' = (spoiled \/ Astray(w, d) \/ (found = NoLock /\ path = 0))
        PROVE  CacheInv'
    <2>1. d \in Dirs /\ dirs[d].place = (IF path = 0 THEN "entry" ELSE "staging")
      BY <1>1, <1>3, PathFacts
    <2>2. /\ worker' \in [Workers -> Records] /\ Only(w)
          /\ worker'[w].pc = next /\ worker'[w].fd = i /\ worker'[w].mode = "open"
          /\ worker'[w].building = worker[w].building
          /\ worker'[w].path = worker[w].path /\ worker'[w].dir = worker[w].dir
          /\ worker'[w].left = worker[w].left
      <3>1. Only(w)
        BY <1>1, <1>3 DEF TypeOK, Only
      <3>2. /\ worker'[w].pc = next /\ worker'[w].fd = i /\ worker'[w].mode = "open"
            /\ worker'[w].building = worker[w].building
            /\ worker'[w].path = worker[w].path /\ worker'[w].dir = worker[w].dir
            /\ worker'[w].left = worker[w].left
        BY <1>1, <1>3 DEF TypeOK, Records
      <3>3. worker' \in [Workers -> Records]
        <4>1. worker'[w] \in Records
          BY <1>1, <1>3 DEF TypeOK, Records, Steps
        <4> QED  BY <1>1, <1>3, <3>1, <4>1 DEF TypeOK, Only
      <3> QED  BY <3>1, <3>2, <3>3
    <2>3. \A v \in Workers \ {w} : Excludes(v, w)' /\ Excludes(w, v)'
      BY <2>2, LocksKept
    <2>4. Shape(w)'
      BY <1>1, <2>2, Sorts DEF Shape, Resting, Looking, Removing, Starting, Building, Making
    <2>5. spoiled' \in BOOLEAN /\ (spoiled => spoiled')
      BY <1>1, <1>3 DEF Astray
    <2>6. /\ worker[w].pc # "emptying" /\ worker'[w].pc # "emptying" /\ worker'[w].pc \notin Making
          /\ worker'[w].pc \notin Starting /\ worker'[w].pc \notin Building
          /\ \A e \in Dirs : ~Empties(w, e)
      BY <1>1, <2>2 DEF Making, Starting, Building, Empties
    <2>7. CASE found # NoLock
      <3>1. dirs' = dirs
        BY <1>1, <1>3, <2>1, <2>7 DEF TypeOK, Directories, GuardOf
      <3>2. ~spoiled => StandOf(w)'
        BY <1>1, <2>2, <3>1 DEF StandOf, Looking, Removing, Starting, Building
      <3> QED  BY <2>2, <2>3, <2>4, <2>5, <2>6, <3>1, <3>2, QuietStep
    <2>8. CASE found = NoLock /\ path = 0
      <3>1. Changed(d, dirs[d].place, dirs[d].by, i, dirs[d].building, dirs[d].parts)
        BY <1>1, <1>3, <2>1, <2>8, DirFacts
      <3>2. spoiled' = TRUE
        BY <1>3, <2>8
      <3>3. \A e \in Dirs : dirs'[e].place = dirs[e].place
        BY <3>1 DEF Changed
      <3>4. OneEntry'
        BY <1>1, <3>3 DEF OneEntry, CacheInv, FormInv
      <3>5. FormInv'
        BY <2>2, <2>3, <2>4, <2>6, <3>3, <3>4, FormStep
      <3> QED  BY <2>2, <3>1, <3>2, <3>5 DEF CacheInv, TypeOK, HoldInv, Changed
    <2>9. CASE found = NoLock /\ path # 0
      <3>1. Changed(d, dirs[d].place, dirs[d].by, dirs[d].lock, i, dirs[d].parts)
        BY <1>1, <1>3, <2>1, <2>9, DirFacts
      <3>2. dirs[d].building = NoLock /\ dirs[d].place = "staging"
        BY <2>1, <2>9 DEF GuardOf
      <3>3. StandOf(w)'
        BY <1>1, <2>2, <2>6, <2>9 DEF StandOf, Starting, Building
      <3>4. ASSUME ~spoiled', NEW v \in Workers \ {w}, worker[v].dir = d
            PROVE  /\ worker[v].pc \in Starting \cup Building => StandOf(v)'
                   /\ EmptiesStaging(v)'
        <4>1. /\ worker'[v] = worker[v] /\ Shape(v) /\ StandOf(v) /\ EmptiesStaging(v)
          BY <2>2, <2>5, <3>4, OfWorker DEF Only
        <4>2. worker[v].pc \notin Building
          BY <3>2, <3>4, <4>1 DEF StandOf, Shape
        <4>3. worker[v].pc \in Starting => StandOf(v)'
          BY <3>1, <3>2, <3>4, <4>1, <4>2
          DEF StandOf, Changed, Starting, Looking, Removing, Building
        <4>4. SUFFICES ASSUME worker[v].pc = "emptying", worker[v].path # 0 PROVE EmptiesStaging(v)'
          BY <4>1, <4>2, <4>3 DEF EmptiesStaging
        <4>5. worker[v].path = d /\ worker[v].fd # NoLock
          BY <3>4, <4>1, <4>4 DEF Shape
        <4>6. "building.lock" \notin worker[v].left
          BY <3>2, <4>1, <4>4, <4>5 DEF EmptiesStaging
        <4>7. \A u \in Workers : worker'[u].pc \in Starting \cup Building => worker'[u] = worker[u]
          BY <2>2, <2>6 DEF Only
        <4>8. dirs'[d].place = "staging"
          BY <3>1, <3>2 DEF Changed
        <4> QED  BY <4>1, <4>5, <4>6, <4>7, <4>8 DEF EmptiesStaging
      <3> QED
        BY <2>1, <2>2, <2>3, <2>4, <2>5, <2>6, <3>1, <3>2, <3>3, <3>4, StagingStep DEF Changed
    <2> QED  BY <2>7, <2>8, <2>9
  <1> QED  BY <1>2, <1>3 DEF OpenLock

LEMMA OpenDirectoryKeeps ==
    ASSUME CacheInv, NEW w \in Workers, OpenDirectory(w)
    PROVE  CacheInv'
  <1> DEFINE d == PathDir(w)
             path == worker[w].path
  <1>1. /\ TypeOK /\ Shape(w) /\ worker[w] \in Records /\ spoiled \in BOOLEAN
        /\ worker[w].pc = "removing" /\ worker[w].then \in Resting /\ dirs' = dirs
        /\ d \in Dirs \cup {0} /\ (~spoiled => StandOf(w))
    BY OfWorker, PathFacts DEF OpenDirectory, TypeOK, Records, Resting
  <1>2. CASE Absent(w) /\ UNCHANGED spoiled
    BY <1>1, <1>2, RestFacts, RestStep DEF Empties
  <1>3. CASE /\ d # 0 /\ spoiled' = (spoiled \/ Astray(w, d))
             /\ worker' = [worker EXCEPT ![w].pc = "emptying", ![w].dir = d, ![w].left = NamesIn(d)]
    <2>1. /\ d \in Dirs /\ dirs[d].place = (IF path = 0 THEN "entry" ELSE "staging")
          /\ path # 0 => d = path
      BY <1>1, <1>3, PathFacts
    <2>2. NamesIn(d) \subseteq Parts \cup LockNames
      BY <1>1, <2>1 DEF NamesIn, LockNames, TypeOK, Directories
    <2>3. /\ worker' \in [Workers -> Records] /\ Only(w)
          /\ worker'[w].pc = "emptying" /\ worker'[w].dir = d /\ worker'[w].left = NamesIn(d)
          /\ worker'[w].building = worker[w].building /\ worker'[w].fd = worker[w].fd
          /\ worker'[w].path = worker[w].path /\ worker'[w].mode = worker[w].mode
      <3>1. Only(w)
        BY <1>1, <1>3, <2>1, <2>2 DEF TypeOK, Only
      <3>2. /\ worker'[w].pc = "emptying" /\ worker'[w].dir = d /\ worker'[w].left = NamesIn(d)
            /\ worker'[w].building = worker[w].building /\ worker'[w].fd = worker[w].fd
            /\ worker'[w].path = worker[w].path /\ worker'[w].mode = worker[w].mode
        BY <1>1, <1>3, <2>1, <2>2 DEF TypeOK, Records
      <3>3. worker' \in [Workers -> Records]
        <4>1. worker'[w] \in Records
          BY <1>1, <1>3, <2>1, <2>2 DEF TypeOK, Records, Steps
        <4> QED  BY <1>1, <1>3, <2>1, <2>2, <3>1, <4>1 DEF TypeOK, Only
      <3> QED  BY <3>1, <3>2, <3>3
    <2>4. \A v \in Workers \ {w} : Excludes(v, w)' /\ Excludes(w, v)'
      BY <2>3, LocksKept
    <2>5. Shape(w)'
      BY <1>1, <1>3, <2>1, <2>3 DEF Shape, Resting, Looking, Removing, Starting, Building, Making
    <2>6. /\ worker'[w].pc \notin Making /\ worker'[w].pc \notin Starting
          /\ worker'[w].pc \notin Building /\ \A e \in Dirs : ~Empties(w, e)
      BY <1>1, <2>3 DEF Making, Starting, Building, Empties
    <2>7. FormInv'
      <3>1. OneEntry'
        BY <1>1 DEF OneEntry, CacheInv, FormInv
      <3> QED  BY <1>1, <2>3, <2>4, <2>5, <2>6, <3>1, FormStep
    <2>8. TypeOK'
      BY <1>1, <1>3, <2>3 DEF TypeOK, Astray
    <2>9. ASSUME ~spoiled' PROVE HoldInv'
      <3>1. /\ ~spoiled /\ StandOf(w) /\ d = worker[w].dir
            /\ worker[w].fd = GuardOf(w, d) /\ worker[w].fd # NoLock
            /\ worker[w].mode = "exclusive"
        BY <1>1, <1>3, <2>9 DEF Astray, Shape
      <3>2. StandOf(w)' /\ EmptiesEntry(w)'
        BY <1>1, <2>3, <3>1 DEF StandOf, EmptiesEntry, GuardOf, NamesIn, Starting, Building,
                                Looking, Removing
      <3>3. EmptiesStaging(w)'
        <4>1. SUFFICES ASSUME path # 0 PROVE EmptiesStaging(w)'
          BY <2>3 DEF EmptiesStaging
        <4>2. dirs[d].place = "staging" /\ d = path /\ dirs[d].building = worker[w].fd
          BY <2>1, <3>1, <4>1 DEF GuardOf
        <4>3. ASSUME NEW v \in Workers, worker'[v].dir = d
              PROVE  /\ worker'[v].pc \in Starting => NamesIn(d) \subseteq {"building.lock"}
                     /\ worker'[v].pc \in Building => NamesIn(d) = {}
          <5>1. CASE v = w
            BY <2>6, <5>1
          <5>2. CASE v # w
            <6>1. worker'[v] = worker[v] /\ StandOf(v) /\ Excludes(w, v)
              BY <2>3, <3>1, <5>2, OfWorker DEF Only, CacheInv, FormInv
            <6>2. worker[v].pc \notin Building
              BY <3>1, <4>2, <4>3, <6>1 DEF StandOf, Excludes
            <6>3. worker[v].pc \in Starting => NamesIn(d) \subseteq {"building.lock"}
              BY <4>2, <4>3, <6>1 DEF StandOf, NamesIn
            <6> QED  BY <6>1, <6>2, <6>3
          <5> QED  BY <5>1, <5>2
        <4> QED  BY <1>1, <2>3, <4>2, <4>3 DEF EmptiesStaging
      <3>4. ASSUME NEW v \in Workers \ {w} PROVE OneEmptier(v, w)' /\ OneEmptier(w, v)'
        <4>1. /\ worker'[v] = worker[v] /\ EmptiesEntry(v) /\ Excludes(w, v) /\ Shape(v)
          BY <2>3, <3>1, OfWorker DEF Only, CacheInv, FormInv
        <4>2. ~(path = 0 /\ Empties(v, d) /\ dirs[d].place = "entry")
          BY <3>1, <4>1 DEF Empties, EmptiesEntry, Excludes, Shape, GuardOf
        <4> QED  BY <1>1, <2>3, <4>1, <4>2 DEF OneEmptier, Empties
      <3>5. {} \in SUBSET Dirs /\ \A e \in Dirs \ {} : dirs'[e] = dirs[e]
        BY <1>1
      <3> QED  BY <2>3, <2>6, <2>7, <3>1, <3>2, <3>3, <3>4, <3>5, HoldStep
    <2> QED  BY <2>7, <2>8, <2>9 DEF CacheInv, HoldInv
  <1> QED  BY <1>2, <1>3 DEF OpenDirectory

\* A directory and its listing lose a name together.
LEMMA UnlinkFacts ==
    ASSUME CacheInv, NEW w \in Workers, NEW name \in worker[w].left, Unlink(w, name),
           NEW d, d = worker[w].dir
    PROVE  /\ d \in Dirs
           /\ Changed(d, dirs[d].place, dirs[d].by,
                      IF name = "in_use.lock" THEN NoLock ELSE dirs[d].lock,
                      IF name = "building.lock" THEN NoLock ELSE dirs[d].building,
                      dirs[d].parts \ {name})
           /\ NamesIn(d)' = NamesIn(d) \ {name}
  <1>1. /\ TypeOK /\ Shape(w) /\ worker[w] \in Records /\ d \in Dirs \cup {0}
        /\ worker[w].pc = "emptying" /\ name \in Parts \cup LockNames
    BY OfWorker DEF Unlink, Records
  <1>2. d \in Dirs /\ dirs[d].parts \in SUBSET Parts
    BY <1>1 DEF Shape, TypeOK, Directories
  <1>3. CASE name = "in_use.lock"
    <2>1. dirs' = [dirs EXCEPT ![d].lock = NoLock]
      BY <1>3 DEF Unlink
    <2>2. Changed(d, dirs[d].place, dirs[d].by, NoLock, dirs[d].building, dirs[d].parts)
      BY <1>1, <1>2, <2>1, DirFacts
    <2>3. dirs[d].parts \ {name} = dirs[d].parts
      BY <1>2, <1>3 DEF Parts
    <2>4. NamesIn(d)' = NamesIn(d) \ {name}
      BY <1>3, <2>2, <2>3 DEF NamesIn, Changed
    <2> QED  BY <1>2, <1>3, <2>2, <2>3, <2>4
  <1>4. CASE name = "building.lock"
    <2>1. dirs' = [dirs EXCEPT ![d].building = NoLock]
      BY <1>4 DEF Unlink
    <2>2. Changed(d, dirs[d].place, dirs[d].by, dirs[d].lock, NoLock, dirs[d].parts)
      BY <1>1, <1>2, <2>1, DirFacts
    <2>3. dirs[d].parts \ {name} = dirs[d].parts
      BY <1>2, <1>4 DEF Parts
    <2>4. NamesIn(d)' = NamesIn(d) \ {name}
      BY <1>4, <2>2, <2>3 DEF NamesIn, Changed
    <2> QED  BY <1>2, <1>4, <2>2, <2>3, <2>4
  <1>5. CASE name \notin {"in_use.lock", "building.lock"}
    <2>1. dirs' = [dirs EXCEPT ![d].parts = dirs[d].parts \ {name}]
      BY <1>1, <1>2, <1>5 DEF Unlink, TypeOK
    <2>2. Changed(d, dirs[d].place, dirs[d].by, dirs[d].lock, dirs[d].building,
                  dirs[d].parts \ {name})
      BY <1>1, <1>2, <2>1, DirFacts
    <2>3. NamesIn(d)' = NamesIn(d) \ {name}
      BY <1>5, <2>2 DEF NamesIn, Changed
    <2> QED  BY <1>2, <1>5, <2>2, <2>3
  <1> QED  BY <1>3, <1>4, <1>5

LEMMA UnlinkKeeps ==
    ASSUME CacheInv, NEW w \in Workers, NEW name \in worker[w].left, Unlink(w, name)
    PROVE  CacheInv'
  <1>0. PICK d : d = worker[w].dir
    OBVIOUS
  <1> USE <1>0
  <1>1. /\ TypeOK /\ Shape(w) /\ worker[w] \in Records /\ spoiled \in BOOLEAN
        /\ worker[w].pc = "emptying" /\ spoiled' = spoiled
        /\ worker' = [worker EXCEPT ![w].left = worker[w].left \ {name}]
        /\ worker[w].fd # NoLock /\ worker[w].mode = "exclusive"
    <2>1. TypeOK /\ Shape(w) /\ worker[w] \in Records /\ spoiled \in BOOLEAN
      BY OfWorker DEF TypeOK
    <2> QED  BY <2>1 DEF Unlink, TypeOK, Shape
  <1>2. /\ d \in Dirs /\ NamesIn(d)' = NamesIn(d) \ {name}
        /\ dirs' \in [Dirs -> Directories] /\ \A e \in Dirs \ {d} : dirs'[e] = dirs[e]
        /\ dirs'[d].place = dirs[d].place /\ dirs'[d].by = dirs[d].by
        /\ dirs'[d].lock = IF name = "in_use.lock" THEN NoLock ELSE dirs[d].lock
        /\ dirs'[d].building = IF name = "building.lock" THEN NoLock ELSE dirs[d].building
        /\ dirs'[d].parts = dirs[d].parts \ {name}
    BY UnlinkFacts DEF Changed
  <1>3. /\ worker' \in [Workers -> Records] /\ Only(w)
        /\ worker'[w].pc = "emptying" /\ worker'[w].dir = d
        /\ worker'[w].left = worker[w].left \ {name}
        /\ worker'[w].building = worker[w].building /\ worker'[w].fd = worker[w].fd
        /\ worker'[w].path = worker[w].path /\ worker'[w].mode = worker[w].mode
        /\ worker'[w].then = worker[w].then
    <2>1. Only(w)
      BY <1>1 DEF TypeOK, Only
    <2>2. /\ worker'[w].pc = "emptying" /\ worker'[w].dir = d
          /\ worker'[w].left = worker[w].left \ {name}
          /\ worker'[w].building = worker[w].building /\ worker'[w].fd = worker[w].fd
          /\ worker'[w].path = worker[w].path /\ worker'[w].mode = worker[w].mode
          /\ worker'[w].then = worker[w].then
      BY <1>1 DEF TypeOK, Records
    <2>3. worker' \in [Workers -> Records]
      <3>1. worker'[w] \in Records
        BY <1>1 DEF TypeOK, Records
      <3> QED  BY <1>1, <2>1, <3>1 DEF TypeOK, Only
    <2> QED  BY <2>1, <2>2, <2>3
  <1>4. TypeOK'
    BY <1>1, <1>2, <1>3 DEF TypeOK
  <1>5. \A e \in Dirs : dirs'[e].place = dirs[e].place
    BY <1>2
  <1>6. Shape(w)'
    BY <1>1, <1>2, <1>3 DEF Shape, Resting, Looking, Removing, Starting, Building, Making
  <1>7. \A v \in Workers \ {w} : Excludes(v, w)' /\ Excludes(w, v)'
    BY <1>3, LocksKept
  <1>8. /\ worker'[w].pc \notin Starting /\ worker'[w].pc \notin Building
        /\ worker'[w].pc \notin Making
    BY <1>3 DEF Making, Starting, Building
  <1>9. FormInv'
    <2>1. OneEntry'
      BY <1>5 DEF CacheInv, FormInv, OneEntry
    <2> QED  BY <1>3, <1>5, <1>6, <1>7, <1>8, <2>1, FormStep
  <1>10. ASSUME ~spoiled PROVE HoldInv'
    <2>1. StandOf(w) /\ EmptiesEntry(w) /\ EmptiesStaging(w)
      BY <1>10, OfWorker
    <2>2. /\ dirs[d].place = "entry" => worker[w].path = 0
          /\ worker[w].path # 0 => worker[w].path = d
      BY <1>1, <2>1 DEF Shape, EmptiesStaging
    <2>3. EntryOf(d)'
      BY <1>2, <1>3, <2>2 DEF EntryOf, Empties
    <2>4. StandOf(w)' /\ EmptiesEntry(w)'
      <3>1. StandOf(w)'
        BY <1>1, <1>2, <1>3, <2>1 DEF StandOf, Starting, Building
      <3>2. EmptiesEntry(w)'
        BY <1>1, <1>2, <1>3, <2>1 DEF EmptiesEntry
      <3> QED  BY <3>1, <3>2
    <2>5. \A u \in Workers : worker'[u].pc \in Starting \cup Building => worker'[u] = worker[u]
      BY <1>3, <1>8 DEF Only
    <2>6. EmptiesStaging(w)'
      <3>1. SUFFICES ASSUME worker[w].path # 0 PROVE EmptiesStaging(w)'
        BY <1>3 DEF EmptiesStaging
      <3>2. worker[w].path = d /\ dirs[d].place # "entry"
        BY <2>2, <3>1
      <3>3. dirs[d].place = "staging" /\ "building.lock" \in worker[w].left \ {name}
               => dirs'[d].building = worker[w].fd
        BY <1>1, <1>2, <2>1, <3>2, <3>1 DEF EmptiesStaging
      <3>4. \A v \in Workers : worker'[v].dir = d =>
               /\ worker'[v].pc \in Starting => worker[w].left \subseteq {"building.lock"}
               /\ worker'[v].pc \in Building => worker[w].left = {}
        BY <1>1, <2>1, <2>5, <3>1, <3>2 DEF EmptiesStaging
      <3> QED  BY <1>2, <1>3, <3>2, <3>3, <3>4 DEF EmptiesStaging
    <2>7. ASSUME NEW v \in Workers \ {w}, worker[v].dir \in {d}
          PROVE  StandOf(v)' /\ EmptiesEntry(v)' /\ EmptiesStaging(v)'
      <3>1. /\ worker'[v] = worker[v] /\ Shape(v) /\ StandOf(v) /\ EmptiesEntry(v)
            /\ EmptiesStaging(v) /\ Excludes(w, v) /\ OneEmptier(w, v) /\ worker[v].dir = d
        BY <1>3, <1>10, <2>7, OfWorker DEF Only, CacheInv, FormInv, HoldInv
      <3>2. worker[v].pc # "using"
        BY <1>1, <2>1, <2>2, <3>1 DEF StandOf, Shape, EmptiesEntry, Excludes
      <3>3. worker[v].pc \notin Building
        <4>1. SUFFICES ASSUME worker[v].pc \in Building PROVE FALSE
          OBVIOUS
        <4>2. dirs[d].place = "staging"
          BY <3>1, <4>1 DEF StandOf
        <4>3. worker[w].path = d
          BY <1>1, <2>2, <4>2 DEF Shape
        <4> QED  BY <1>1, <1>2, <2>1, <3>1, <4>1, <4>3, Sorts DEF EmptiesStaging
      <3>4. worker[v].pc \in Starting /\ dirs[d].place = "staging" => name = "building.lock"
        <4>1. dirs[d].place = "staging" => worker[w].path = d
          BY <1>1, <2>2 DEF Shape
        <4> QED  BY <1>1, <1>2, <2>1, <3>1, <4>1, Sorts DEF EmptiesStaging
      <3>5. StandOf(v)'
        BY <1>2, <3>1, <3>2, <3>3, <3>4 DEF StandOf
      <3>6. EmptiesEntry(v)'
        BY <1>1, <1>2, <2>2, <3>1 DEF EmptiesEntry, OneEmptier, Empties
      <3>7. EmptiesStaging(v)'
        <4>1. SUFFICES ASSUME worker[v].pc = "emptying", worker[v].path # 0 PROVE EmptiesStaging(v)'
          BY <3>1 DEF EmptiesStaging
        <4>2. worker[v].path = d /\ worker[v].fd # NoLock /\ worker[v].mode = "exclusive"
          BY <3>1, <4>1 DEF Shape
        <4>3. dirs[d].place = "staging" /\ "building.lock" \in worker[v].left
                 => dirs[d].building = worker[v].fd
          BY <3>1, <4>1, <4>2 DEF EmptiesStaging
        <4>4. dirs[d].place = "staging" /\ name = "building.lock"
                 => dirs[d].building = worker[w].fd
          <5>1. dirs[d].place = "staging" => worker[w].path = d
            BY <1>1, <2>2 DEF Shape
          <5> QED  BY <1>1, <1>2, <2>1, <5>1, Sorts DEF EmptiesStaging
        <4>5. dirs[d].place = "staging" /\ "building.lock" \in worker[v].left
                 => dirs'[d].building = worker[v].fd
          BY <1>1, <1>2, <3>1, <4>2, <4>3, <4>4 DEF Excludes
        <4> QED  BY <1>2, <2>5, <3>1, <4>2, <4>5 DEF EmptiesStaging
      <3> QED  BY <3>5, <3>6, <3>7
    <2>8. ASSUME NEW v \in Workers \ {w} PROVE OneEmptier(v, w)' /\ OneEmptier(w, v)'
      <3>1. worker'[v] = worker[v] /\ OneEmptier(v, w) /\ OneEmptier(w, v)
        BY <1>3, <1>10 DEF Only, CacheInv, HoldInv
      <3> QED  BY <1>1, <1>2, <1>3, <3>1 DEF OneEmptier, Empties
    <2>9. \A e \in Dirs : Empties(w, e) => Empties(w, e)'
      BY <1>1, <1>3 DEF Empties
    <2>10. /\ {d} \in SUBSET Dirs /\ \A e \in {d} : EntryOf(e)'
           /\ \A e \in {d} : dirs'[e].place = "entry" => dirs[e].place \in {"entry", "staging"}
           /\ \A e \in Dirs \ {d} : dirs[e].place = "entry" /\ Empties(w, e) => Empties(w, e)'
      BY <1>2, <2>3, <2>9
    <2>11. \A v \in Workers \ {w} : worker[v].dir \in {d}
              => StandOf(v)' /\ EmptiesEntry(v)' /\ EmptiesStaging(v)'
      BY <2>7
    <2>12. \A v \in Workers \ {w} : OneEmptier(v, w)' /\ OneEmptier(w, v)'
      BY <2>8
    <2> QED  BY <1>2, <1>3, <1>8, <1>9, <1>10, <2>4, <2>6, <2>10, <2>11, <2>12, HoldStep
  <1> QED  BY <1>1, <1>4, <1>9, <1>10 DEF CacheInv, HoldInv

-----------------------------------------------------------------------------
(* The invariant, and what it gives.                                         *)

LEMMA CacheInvInit == Init => CacheInv
  <1> SUFFICES ASSUME Init PROVE CacheInv
    OBVIOUS
  <1>1. /\ \A w \in Workers : worker[w] = Rest
        /\ worker = [w \in Workers |-> Rest] /\ spoiled = FALSE
    BY DEF Init
  <1>2. \A w \in Workers : /\ worker[w].pc = "idle" /\ worker[w].fd = NoLock
                           /\ worker[w].mode = "none"
                           /\ worker[w].building = NoLock /\ worker[w].path = 0
                           /\ worker[w].dir = 0 /\ worker[w].left = {} /\ worker[w].then = "idle"
    BY <1>1 DEF Rest
  <1>3. /\ dirs \in [Dirs -> Directories]
        /\ \A d \in Dirs : dirs[d].place = "entry"
              => d = 1 /\ dirs[d].parts = Parts /\ dirs[d].lock # NoLock
    <2> DEFINE published(v) == [place |-> "entry", by |-> v, lock |-> <<1, "in_use.lock", 1>>,
                                building |-> <<1, "building.lock", 1>>, parts |-> Parts]
    <2>1. PICK first \in {Gone, published(Loose), published(1)} :
             dirs = [d \in Dirs |-> IF d = 1 THEN first ELSE Gone]
      BY DEF Init
    <2>2. Gone \in Directories /\ Gone.place = "gone"
      BY DEF Gone, Directories, Loose
    <2>3. ASSUME NEW v \in Nat, 1 \in Dirs
          PROVE  /\ published(v) \in Directories /\ published(v).parts = Parts
                 /\ published(v).lock # NoLock
      <3>1. <<1, "in_use.lock", 1>> \in Locks /\ <<1, "building.lock", 1>> \in Locks
        BY <2>3, CacheAssumption DEF Locks, LockNames
      <3> QED  BY <3>1, Sorts DEF Directories
    <2>4. 1 \in Dirs => /\ first \in Directories
                        /\ first.place = "entry" => first.parts = Parts /\ first.lock # NoLock
      <3>1. CASE first = Gone
        BY <2>2, <3>1
      <3>2. CASE first = published(Loose)
        BY <2>3, <3>2 DEF Loose
      <3>3. CASE first = published(1)
        BY <2>3, <3>3
      <3> QED  BY <2>1, <3>1, <3>2, <3>3
    <2> QED  BY <2>1, <2>2, <2>4
  <1>4. TypeOK
    <2>1. Rest \in Records
      BY DEF Rest, Records, Steps
    <2> QED  BY <1>1, <1>3, <2>1 DEF TypeOK
  <1>5. FormInv
    <2>1. \A w \in Workers : Shape(w)
      BY <1>2 DEF Shape, Resting, Looking, Removing, Starting, Building, Making
    <2>2. \A v, w \in Workers : Excludes(v, w) /\ ApartOf(v, w)
      BY <1>2 DEF Excludes, ApartOf, Starting, Building, Making
    <2>3. OneEntry
      BY <1>3 DEF OneEntry
    <2> QED  BY <2>1, <2>2, <2>3 DEF FormInv
  <1>6. HoldInv
    <2>1. \A w \in Workers : StandOf(w)
      BY <1>2 DEF StandOf, Looking, Removing, Starting, Building
    <2>2. \A w \in Workers : EmptiesEntry(w) /\ EmptiesStaging(w)
      BY <1>2 DEF EmptiesEntry, EmptiesStaging
    <2>3. \A v, w \in Workers : OneEmptier(v, w)
      BY <1>2 DEF OneEmptier, Empties
    <2>4. \A d \in Dirs : EntryOf(d)
      BY <1>3 DEF EntryOf
    <2> QED  BY <2>1, <2>2, <2>3, <2>4 DEF HoldInv
  <1> QED  BY <1>4, <1>5, <1>6 DEF CacheInv

LEMMA CacheInvNext == CacheInv /\ [Next]_vars => CacheInv'
  <1>1. ASSUME CacheInv, UNCHANGED vars PROVE CacheInv'
    <2> USE <1>1 DEF vars
    <2>1. TypeOK'
      BY DEF CacheInv, TypeOK
    <2>2. FormInv'
      BY DEF CacheInv, FormInv, Shape, Excludes, OneEntry, ApartOf
    <2>3. /\ \A d \in Dirs : EntryOf(d) <=> EntryOf(d)'
          /\ \A v \in Workers : /\ StandOf(v) <=> StandOf(v)'
                                /\ EmptiesEntry(v) <=> EmptiesEntry(v)'
                                /\ EmptiesStaging(v) <=> EmptiesStaging(v)'
          /\ \A v, w \in Workers : OneEmptier(v, w) <=> OneEmptier(v, w)'
      BY DEF EntryOf, Empties, StandOf, EmptiesEntry, EmptiesStaging, OneEmptier, NamesIn
    <2> QED  BY <2>1, <2>2, <2>3 DEF CacheInv, HoldInv
  <1>2. ASSUME CacheInv, NEW w \in Workers,
               \/ ReadKey(w) \/ OpenLock(w) \/ ShareLock(w) \/ LockTimesOut(w)
               \/ CheckKey(w) \/ CheckBody(w) \/ Release(w)
               \/ ClaimLock(w) \/ OpenDirectory(w) \/ RemoveDirectory(w) \/ RemovalFails(w)
        PROVE  CacheInv'
    BY <1>2, ReadKeyKeeps, OpenLockKeeps, ShareLockKeeps, EndKeeps, CheckKeyKeeps,
       CheckBodyKeeps, ClaimLockKeeps, OpenDirectoryKeeps, RemoveDirectoryKeeps
  <1>3. ASSUME CacheInv, NEW w \in Workers,
               \/ \E name \in worker[w].left : Unlink(w, name)
               \/ Stage(w) \/ CreateBuilding(w) \/ TakeBuilding(w) \/ CreateInUse(w)
               \/ Build(w) \/ BuildFails(w) \/ WriteKey(w)
               \/ LookAtDestination(w) \/ Rename(w) \/ Discard(w)
        PROVE  CacheInv'
    BY <1>3, UnlinkKeeps, StageKeeps, CreateBuildingKeeps, TakeBuildingKeeps, CreateInUseKeeps,
       FillKeeps, BuildFailsKeeps, RenameKeeps, DiscardKeeps
  <1>4. ASSUME CacheInv, NEW w \in Workers,
               CleanEntry(w) \/ CleanStaging(w) \/ Probe(w) \/ ProbeEnds(w) \/ Kill(w)
        PROVE  CacheInv'
    BY <1>4, CleanEntryKeeps, CleanStagingKeeps, ProbeKeeps, EndKeeps
  <1> QED  BY <1>1, <1>2, <1>3, <1>4 DEF Next

\* Every state keeps the invariant: records and locks in form always, and what is used,
\* made and emptied as it was found until a path leads a call astray.
THEOREM CacheInvHolds == Spec => []CacheInv
  BY CacheInvInit, CacheInvNext, PTL DEF Spec

\* An entry in use stays whole, under the commit's name and of its user's version, and a
\* build that has its lock keeps its directory and what it put there, whatever lookups,
\* builds and cleans do meanwhile and however many they are (remove_if_unlocked, lookup,
\* stage), as long as no path leads a call to a file other than the one it looked at.
THEOREM HeldStays == Spec => []NothingHeldIsRemoved
  <1>1. CacheInv => NothingHeldIsRemoved
    <2> SUFFICES ASSUME CacheInv PROVE NothingHeldIsRemoved
      OBVIOUS
    <2>1. TypeOK /\ OneEntry /\ \A w \in Workers : Shape(w) /\ worker[w].dir \in Dirs \cup {0}
      BY OfWorker DEF CacheInv, FormInv
    <2>2. ASSUME ~spoiled, NEW w \in Workers, worker[w].pc = "using"
          PROVE  /\ worker[w].dir = Entry /\ dirs[Entry].parts = Parts
                 /\ dirs[Entry].by = Version[w]
      <3> DEFINE d == worker[w].dir
      <3>1. /\ StandOf(w) /\ d \in Dirs /\ worker[w].fd # NoLock /\ worker[w].mode = "shared"
        BY <2>1, <2>2, OfWorker DEF Shape
      <3>2. dirs[d].place = "entry" /\ dirs[d].lock = worker[w].fd /\ dirs[d].by = Version[w]
        BY <2>2, <3>1 DEF StandOf
      <3>3. d = Entry
        BY <2>1, <3>1, <3>2, EntryFacts
      <3>4. ASSUME NEW v \in Workers, Empties(v, d) PROVE FALSE
        <4>1. EmptiesEntry(v) /\ Shape(v) /\ v # w
          BY <2>1, <2>2, <3>4, OfWorker DEF Empties
        <4>2. Excludes(v, w)
          BY <4>1 DEF CacheInv, FormInv
        <4>3. worker[v].mode = "exclusive" /\ worker[v].fd = worker[w].fd
          BY <3>1, <3>2, <3>4, <4>1 DEF Empties, EmptiesEntry, Shape
        <4> QED  BY <3>1, <4>2, <4>3 DEF Excludes
      <3>5. dirs[d].parts = Parts
        BY <2>2, <3>1, <3>2, <3>4 DEF CacheInv, HoldInv, EntryOf
      <3> QED  BY <3>2, <3>3, <3>5
    <2>3. BuildsStay
      BY OfWorker DEF BuildsStay, StandOf, Building, IsStaged, Staged
    <2> QED  BY <2>1, <2>2, <2>3 DEF NothingHeldIsRemoved, InUseStays
  <1> QED  BY <1>1, CacheInvHolds, PTL

\* A step of w; spoiled stays set, and what w has to unlink changes only by an unlink.
StepOf(w) ==
    \/ ReadKey(w) \/ OpenLock(w) \/ ShareLock(w) \/ LockTimesOut(w)
    \/ CheckKey(w) \/ CheckBody(w) \/ Release(w)
    \/ ClaimLock(w) \/ OpenDirectory(w) \/ RemoveDirectory(w) \/ RemovalFails(w)
    \/ \E name \in worker[w].left : Unlink(w, name)
    \/ Stage(w) \/ CreateBuilding(w) \/ TakeBuilding(w) \/ CreateInUse(w)
    \/ Build(w) \/ BuildFails(w) \/ WriteKey(w)
    \/ LookAtDestination(w) \/ Rename(w) \/ Discard(w)
    \/ CleanEntry(w) \/ CleanStaging(w) \/ Probe(w) \/ ProbeEnds(w)
    \/ Kill(w)

LEMMA OnlyOne ==
    ASSUME TypeOK, NEW w \in Workers, StepOf(w)
    PROVE  Only(w) /\ (spoiled => spoiled')
  <1>1. ASSUME \/ ReadKey(w) \/ ShareLock(w) \/ LockTimesOut(w) \/ CheckKey(w)
               \/ CheckBody(w) \/ Release(w)
        PROVE  Only(w) /\ (spoiled => spoiled')
    BY <1>1 DEF ReadKey, ShareLock, LockTimesOut, CheckKey, CheckBody, Release, Only,
                Goto, Ends, Absent, BeginRemoval, TypeOK
  <1>2. ASSUME \/ OpenLock(w) \/ ClaimLock(w) \/ OpenDirectory(w) \/ RemoveDirectory(w)
               \/ RemovalFails(w) \/ \E name \in worker[w].left : Unlink(w, name)
        PROVE  Only(w) /\ (spoiled => spoiled')
    <2>1. CASE OpenLock(w)
      <3>1. spoiled => spoiled'
        BY <2>1 DEF OpenLock
      <3>2. \/ Absent(w)
            \/ \E i \in Locks, p \in Steps :
                  worker' = [worker EXCEPT ![w].fd = i, ![w].mode = "open", ![w].pc = p]
        BY <2>1 DEF OpenLock, Steps
      <3> QED  BY <3>1, <3>2 DEF Absent, Only, TypeOK
    <2>2. CASE ClaimLock(w) \/ OpenDirectory(w)
      BY <2>2 DEF ClaimLock, OpenDirectory, Ends, Absent, Only, TypeOK
    <2>3. CASE RemoveDirectory(w) \/ RemovalFails(w)
      BY <2>3 DEF RemoveDirectory, RemovalFails, Ends, Absent, Only, TypeOK
    <2>4. CASE \E name \in worker[w].left : Unlink(w, name)
      BY <2>4 DEF Unlink, Only, TypeOK
    <2> QED  BY <1>2, <2>1, <2>2, <2>3, <2>4
  <1>3. ASSUME Stage(w) \/ CreateBuilding(w) \/ TakeBuilding(w) \/ CreateInUse(w)
        PROVE  Only(w) /\ (spoiled => spoiled')
    BY <1>3 DEF Stage, CreateBuilding, TakeBuilding, CreateInUse, Goto, Only, TypeOK
  <1>4. ASSUME \/ Build(w) \/ BuildFails(w) \/ WriteKey(w) \/ LookAtDestination(w)
               \/ Rename(w) \/ Discard(w)
        PROVE  Only(w) /\ (spoiled => spoiled')
    BY <1>4 DEF Build, BuildFails, WriteKey, LookAtDestination, Rename, Discard, Goto, Ends,
                Only, TypeOK
  <1>5. ASSUME CleanEntry(w) \/ CleanStaging(w) \/ Probe(w) \/ ProbeEnds(w) \/ Kill(w)
        PROVE  Only(w) /\ (spoiled => spoiled')
    BY <1>5 DEF CleanEntry, CleanStaging, Probe, ProbeEnds, Kill, BeginRemoval, Ends, Only, TypeOK
  <1> QED  BY <1>1, <1>2, <1>3, <1>4, <1>5 DEF StepOf

LEMMA EmptyingGoesOn ==
    ASSUME CacheInv, NEW w \in Workers, StepOf(w), worker[w].pc = "emptying", worker[w].left = {},
           ~spoiled'
    PROVE  worker'[w].left = {}
  <1>1. RemoveDirectory(w)
    BY DEF StepOf, ReadKey, OpenLock, ShareLock, LockTimesOut, CheckKey, CheckBody, Release,
           ClaimLock, OpenDirectory, RemovalFails, Unlink, Stage, CreateBuilding, TakeBuilding,
           CreateInUse, Build, BuildFails, WriteKey, LookAtDestination, Rename, Discard,
           CleanEntry, CleanStaging, Probe, ProbeEnds, Kill
  <1> QED  BY <1>1, RestFacts DEF RemoveDirectory, CacheInv, AtRest

\* No binary takes a name from an entry that a newer binary built (key_match, and the order
\* in which lookup and clean judge an entry and lock it), as long as no path leads a call to
\* another directory or lock file than the one it looked at.
THEOREM NewerEntriesStay == Spec => NewerStays
  <1> DEFINE Keeps == ~spoiled' =>
                 \A w \in Workers :
                     /\ worker[w].pc = "emptying" /\ worker'[w].left # worker[w].left
                     /\ dirs[worker[w].dir].place = "entry"
                     => dirs[worker[w].dir].by <= Version[w]
  <1>1. CacheInv /\ [Next]_vars => [Keeps]_vars
    <2> SUFFICES ASSUME CacheInv, Next, ~spoiled', NEW w \in Workers, worker[w].pc = "emptying",
                        worker'[w].left # worker[w].left, dirs[worker[w].dir].place = "entry"
                 PROVE  dirs[worker[w].dir].by <= Version[w]
      OBVIOUS
    <2>1. PICK u \in Workers : StepOf(u)
      BY DEF Next, StepOf
    <2>2. Only(u) /\ ~spoiled
      BY <2>1, OnlyOne DEF CacheInv
    <2>3. u = w /\ StandOf(w) /\ EmptiesStaging(w) /\ Shape(w)
      BY <2>2, OfWorker DEF Only
    <2>4. worker[w].left # {}
      BY <2>1, <2>3, EmptyingGoesOn
    <2>5. worker[w].path = 0 /\ worker[w].dir # 0
      BY <2>3, <2>4 DEF EmptiesStaging, Shape
    <2> QED  BY <2>3, <2>5 DEF StandOf, Removing
  <1>2. NewerStays <=> [][Keeps]_vars
    BY DEF NewerStays
  <1> QED  BY <1>1, <1>2, CacheInvHolds, PTL DEF Spec

=============================================================================
