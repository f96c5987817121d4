-------------------------- MODULE IndexStoreProofs --------------------------
(* Proofs about IndexStore for every number of handles, cleaners, opens,     *)
(* cleans and crashes.                                                       *)
EXTENDS IndexStore, FiniteSetTheorems, TLAPS

\* The values of a function are no more than its arguments.
LEMMA ImageBound ==
    ASSUME NEW S, IsFiniteSet(S), NEW T, NEW f \in [S -> T]
    PROVE  LET I == {f[x] : x \in S} IN IsFiniteSet(I) /\ Cardinality(I) <= Cardinality(S)
  <1> DEFINE I == {f[x] : x \in S}
  <1>1. f \in Surjection(S, I)
    BY DEF Surjection
  <1> HIDE DEF I
  <1>2. IsFiniteSet(I) /\ Cardinality(I) <= Cardinality(S)
    BY <1>1, FS_Surjection
  <1> QED  BY <1>2 DEF I

\* Two finite sets together have at most as many elements as each has.
LEMMA UnionBound ==
    ASSUME NEW S, IsFiniteSet(S), NEW T, IsFiniteSet(T), NEW m \in Nat, NEW n \in Nat,
           Cardinality(S) <= m, Cardinality(T) <= n
    PROVE  IsFiniteSet(S \union T) /\ Cardinality(S \union T) <= m + n
  <1>1. IsFiniteSet(S \union T)
        /\ Cardinality(S \union T) = Cardinality(S) + Cardinality(T) - Cardinality(S \cap T)
    BY FS_Union
  <1>2. IsFiniteSet(S \cap T)
    BY FS_Intersection
  <1>3. Cardinality(S) \in Nat /\ Cardinality(T) \in Nat /\ Cardinality(S \cap T) \in Nat
    BY <1>2, FS_CardinalityType
  <1> QED  BY <1>1, <1>3

\* A file about to be created finds an inode that nothing refers to.
LEMMA FreshIsFree ==
    ASSUME TypeOK, \A p \in Procs : HoldOf(p)
    PROVE  /\ Fresh \in Inodes /\ Fresh # Nil
           /\ Fresh # db /\ Fresh # lock /\ lockBy[Fresh] = None
           /\ \A p \in Procs : fd[p] # Fresh
           /\ \A p \in Handles : conn[p] # Fresh /\ sconn[p] # Fresh
  <1> DEFINE h == Cardinality(Handles)
             n == Cardinality(Procs)
             F == {fd[p] : p \in Procs}
             C == {conn[p] : p \in Handles}
             S == {sconn[p] : p \in Handles}
             D == {db} \union {lock}
             Used == ((D \union F) \union C) \union S
  <1>1. IsFiniteSet(Procs) /\ IsFiniteSet(Handles) /\ IsFiniteSet(Inodes)
    <2>1. Handles \in SUBSET Procs
      BY DEF Procs
    <2> QED  BY <2>1, StoreAssumption, FS_Subset
  <1>2. h \in Nat /\ n \in Nat
    BY <1>1, FS_CardinalityType
  <1>3. IsFiniteSet(F) /\ Cardinality(F) <= n
    <2>1. fd \in [Procs -> Inodes \union {Nil}]
      BY DEF TypeOK
    <2> QED  BY <1>1, <2>1, ImageBound
  <1>4. /\ IsFiniteSet(C) /\ Cardinality(C) <= h
        /\ IsFiniteSet(S) /\ Cardinality(S) <= h
    <2>1. conn \in [Handles -> Inodes \union {Nil}] /\ sconn \in [Handles -> Inodes \union {Nil}]
      BY DEF TypeOK
    <2>2. IsFiniteSet(C) /\ Cardinality(C) <= h
      BY <1>1, <2>1, ImageBound
    <2>3. IsFiniteSet(S) /\ Cardinality(S) <= h
      BY <1>1, <2>1, ImageBound
    <2> QED  BY <2>2, <2>3
  <1> HIDE DEF F, C, S, h, n
  <1>5. IsFiniteSet(D) /\ Cardinality(D) <= 1 + 1
    <2>1. /\ IsFiniteSet({db}) /\ Cardinality({db}) = 1
          /\ IsFiniteSet({lock}) /\ Cardinality({lock}) = 1
      BY FS_Singleton
    <2>2. Cardinality({db}) <= 1 /\ Cardinality({lock}) <= 1
      BY <2>1
    <2> QED  BY <2>1, <2>2, UnionBound
  <1> HIDE DEF D
  <1>6. IsFiniteSet(D \union F) /\ Cardinality(D \union F) <= (1 + 1) + n
    BY <1>2, <1>3, <1>5, UnionBound
  <1>7. IsFiniteSet((D \union F) \union C) /\ Cardinality((D \union F) \union C) <= ((1 + 1) + n) + h
    <2>1. (1 + 1) + n \in Nat
      BY <1>2
    <2> QED  BY <1>2, <1>4, <1>6, <2>1, UnionBound
  <1>8. IsFiniteSet(Used) /\ Cardinality(Used) <= (((1 + 1) + n) + h) + h
    <2>1. ((1 + 1) + n) + h \in Nat
      BY <1>2
    <2> QED  BY <1>2, <1>4, <1>7, <2>1, UnionBound
  <1> HIDE DEF Used
  <1>9. Cardinality(Inodes) > Cardinality(Used)
    <2>1. Cardinality(Used) \in Nat /\ Cardinality(Inodes) \in Nat
      BY <1>1, <1>8, FS_CardinalityType
    <2>2. Cardinality(Inodes) > 2 + n + 2 * h
      BY StoreAssumption DEF n, h
    <2> QED  BY <1>2, <1>8, <2>1, <2>2
  <1>10. PICK i \in Inodes : i \notin Used
    <2> SUFFICES ASSUME Inodes \subseteq Used PROVE FALSE
      OBVIOUS
    <2>1. Cardinality(Inodes) <= Cardinality(Used)
      BY <1>8, FS_Subset
    <2>2. Cardinality(Used) \in Nat /\ Cardinality(Inodes) \in Nat
      BY <1>1, <1>8, FS_CardinalityType
    <2> QED  BY <1>9, <2>1, <2>2
  <1>11. /\ i # db /\ i # lock /\ \A p \in Procs : fd[p] # i
         /\ \A p \in Handles : conn[p] # i /\ sconn[p] # i
    BY <1>10 DEF Used, D, F, C, S
  <1>12. lockBy[i] = None
    BY <1>10, <1>11 DEF HoldOf, TypeOK
  <1>13. /\ Fresh \in Inodes /\ Fresh # db /\ Fresh # lock /\ lockBy[Fresh] = None
         /\ \A p \in Procs : fd[p] # Fresh
         /\ \A p \in Handles : conn[p] # Fresh /\ sconn[p] # Fresh
    BY <1>10, <1>11, <1>12 DEF Fresh
  <1> QED  BY <1>13, StoreAssumption DEF Nil

-----------------------------------------------------------------------------
(* What a step of one process leaves of the invariant.                       *)

\* A step of p leaves where the others are and what they hold.
Others(p) ==
    /\ \A q \in Procs \ {p} : /\ pc'[q] = pc[q] /\ fd'[q] = fd[q]
                              /\ \A i \in Inodes : lockBy'[i] = q <=> lockBy[i] = q
                              /\ dir' = q <=> dir = q
                              /\ closeBy' = q <=> closeBy = q
    /\ \A q \in Handles \ {p} : /\ job'[q] = job[q] /\ via'[q] = via[q] /\ res'[q] = res[q]
                                /\ conn'[q] = conn[q] /\ sconn'[q] = sconn[q]

LEMMA Sorts == Handles \subseteq Procs /\ Cleaners \subseteq Procs /\ Handles \cap Cleaners = {}
               /\ Procs = Handles \union Cleaners /\ None \notin Procs /\ Nil \notin Inodes
  BY StoreAssumption DEF Procs, Nil

LEMMA PlaceStep ==
    ASSUME TypeOK, PlaceInv, NEW p \in Procs, Others(p),
           p \in Handles => HandlePlace(p)', p \in Cleaners => CleanerPlace(p)', HoldOf(p)'
    PROVE  PlaceInv'
  <1>1. ASSUME NEW c \in Cleaners PROVE CleanerPlace(c)'
    <2>1. CASE c # p
      BY <2>1, Sorts DEF PlaceInv, CleanerPlace, Others
    <2> QED  BY <2>1
  <1>2. ASSUME NEW q \in Handles PROVE HandlePlace(q)'
    <2>1. CASE q # p
      BY <2>1, Sorts DEF PlaceInv, HandlePlace, Syncing, Others
    <2> QED  BY <2>1
  <1>3. ASSUME NEW q \in Procs PROVE HoldOf(q)'
    <2>1. CASE q # p
      <3>1. HoldOf(q) /\ fd[q] \in Inodes \union {Nil}
        BY DEF PlaceInv, TypeOK
      <3>2. /\ pc'[q] = pc[q] /\ fd'[q] = fd[q]
            /\ \A i \in Inodes : lockBy'[i] = q <=> lockBy[i] = q
            /\ dir' = q <=> dir = q
            /\ closeBy' = q <=> closeBy = q
        BY <2>1 DEF Others
      <3> QED  BY <3>1, <3>2 DEF HoldOf
    <2> QED  BY <2>1
  <1> QED  BY <1>1, <1>2, <1>3 DEF PlaceInv

\* A last close stays alone while connections are only given up.
LEMMA LastCloseStep ==
    ASSUME LastCloseInv, NEW p \in Procs, Others(p),
           p \in Handles => /\ conn'[p] \in {conn[p], Nil} /\ sconn'[p] \in {sconn[p], Nil}
                            /\ pc'[p] \in Teardown => AloneAt(p, Target(p))',
           PlaceInv
    PROVE  LastCloseInv'
  <1> SUFFICES ASSUME NEW q \in Handles, pc'[q] \in Teardown
               PROVE  AloneAt(q, Target(q))'
    BY DEF LastCloseInv
  <1>1. CASE q # p
    <2>1. /\ pc[q] = pc'[q] /\ Target(q)' = Target(q) /\ conn'[q] = conn[q] /\ sconn'[q] = sconn[q]
          /\ job'[q] = job[q]
      BY <1>1, Sorts DEF Others, Target
    <2>2. AloneAt(q, Target(q)) /\ Target(q) # Nil
      BY <2>1 DEF LastCloseInv, PlaceInv, HandlePlace, Target, Teardown
    <2>3. ASSUME NEW r \in Handles \ {q} PROVE conn'[r] # Target(q) /\ sconn'[r] # Target(q)
      <3>1. CASE r = p
        BY <2>2, <3>1 DEF AloneAt
      <3>2. CASE r # p
        BY <2>2, <3>2 DEF AloneAt, Others
      <3> QED  BY <3>1, <3>2
    <2> QED  BY <2>1, <2>3 DEF AloneAt
  <1> QED  BY <1>1

\* The paths lead where they led, and connections are only given up.
LEMMA StandStep ==
    ASSUME TypeOK, PlaceInv, FileInv, GuardedStays, StandInv, NEW p \in Procs, Others(p),
           UNCHANGED <<db, file, version>>, swept => swept', lock # Nil => lock' = lock,
           p \in Handles =>
              /\ dir' = p /\ pc'[p] \in {"init", "close"} \union Teardown
                 /\ job'[p] \in {"open", "fail"} => conn'[p] = db
              /\ ~swept' => StandOf(p)',
           p \in Cleaners /\ pc'[p] \in {"side", "lock", "release"}
              => pc[p] \in {"side", "lock", "release"} \/ db = Nil
    PROVE  FileInv' /\ GuardedStays' /\ StandInv'
  <1>1. FileInv'
    BY DEF FileInv
  <1>2. GuardedStays'
    BY Sorts DEF GuardedStays, Others, Teardown
  <1>3. StandInv'
    <2> SUFFICES ASSUME ~swept'
                 PROVE  /\ \A c \in Cleaners : pc'[c] \in {"side", "lock", "release"} => db = Nil
                        /\ \A q \in Handles : StandOf(q)'
      BY DEF StandInv
    <2>1. ASSUME NEW c \in Cleaners, pc'[c] \in {"side", "lock", "release"} PROVE db = Nil
      BY <2>1, Sorts DEF StandInv, Others
    <2>2. ASSUME NEW q \in Handles PROVE StandOf(q)'
      <3>1. CASE q # p
        <4>1. StandOf(q) /\ HandlePlace(q) /\ HoldOf(q)
          BY Sorts DEF StandInv, PlaceInv
        <4>2. /\ pc'[q] = pc[q] /\ fd'[q] = fd[q] /\ job'[q] = job[q]
              /\ conn'[q] = conn[q] /\ sconn'[q] = sconn[q]
          BY <3>1, Sorts DEF Others
        <4>3. pc[q] \in {"wantlock", "write"} /\ job[q] = "sync" => fd[q] = lock'
          BY <4>1 DEF StandOf, HoldOf
        <4> QED  BY <4>1, <4>2, <4>3 DEF StandOf, Syncing
      <3> QED  BY <3>1
    <2> QED  BY <2>1, <2>2
  <1> QED  BY <1>1, <1>2, <1>3

\* The sidecars stay as they are or are published, while no identity is torn.
SidesKept ==
    /\ side' \in [wal : {"none", "header", "frames"}, shm : BOOLEAN] /\ torn' \subseteq Handles
    /\ ~stray' /\ ~swept' =>
          /\ torn' \subseteq torn
          /\ side' # side => /\ side'.wal # "none" /\ side'.shm
                             /\ \A q \in Handles : pc[q] # "wal"

LEMMA SidesStep ==
    ASSUME SidesInv, NEW p \in Procs, Others(p), SidesKept,
           UNCHANGED <<db, file>>, stray => stray', swept => swept',
           p \in Handles => /\ conn'[p] \in {conn[p], Nil}
                            /\ stray' \/ pc[p] # "wal"
                            /\ ~stray' /\ ~swept' => SidesOf(p)'
    PROVE  SidesInv'
  <1> SUFFICES ASSUME ~stray', ~swept'
               PROVE  /\ \A q \in Handles : SidesOf(q)'
                      /\ (\A q \in Handles : pc'[q] # "wal") => (side'.wal # "none" <=> side'.shm)
                      /\ torn' = {}
    BY DEF SidesInv
  <1>1. ASSUME NEW q \in Handles PROVE SidesOf(q)'
    <2>1. CASE q # p
      <3>1. SidesOf(q)
        BY DEF SidesInv
      <3>2. /\ pc'[q] = pc[q] /\ via'[q] = via[q] /\ conn'[q] = conn[q] /\ res'[q] = res[q]
            /\ dir' = q <=> dir = q
        BY <2>1, Sorts DEF Others
      <3>3. \A r \in Handles : conn'[r] \in {conn[r], Nil}
        BY DEF Others
      <3> QED  BY <3>1, <3>2, <3>3 DEF SidesOf, SidesKept
    <2> QED  BY <2>1
  <1>2. ASSUME \A q \in Handles : pc'[q] # "wal" PROVE \A q \in Handles : pc[q] # "wal"
    BY <1>2, Sorts DEF Others
  <1> QED  BY <1>1, <1>2 DEF SidesInv, SidesKept

\* All of it, for a step of p that leaves the database alone.
LEMMA KeepStep ==
    ASSUME StoreInv, NEW p \in Procs, TypeOK', Others(p), SidesKept,
           UNCHANGED <<db, file, version, swept>>, stray => stray', lock # Nil => lock' = lock,
           HoldOf(p)',
           p \in Cleaners => CleanerPlace(p)' /\ (pc'[p] \in {"side", "lock", "release"}
                                                  => pc[p] \in {"side", "lock", "release"}),
           p \in Handles =>
              /\ HandlePlace(p)'
              /\ conn'[p] \in {conn[p], Nil} /\ sconn'[p] \in {sconn[p], Nil}
              /\ pc'[p] \in Teardown => AloneAt(p, Target(p))'
              /\ dir' = p /\ pc'[p] \in {"init", "close"} \union Teardown
                 /\ job'[p] \in {"open", "fail"} => conn'[p] = db
              /\ stray' \/ pc[p] # "wal"
              /\ ~swept => StandOf(p)'
              /\ ~stray' /\ ~swept => SidesOf(p)'
    PROVE  StoreInv'
  <1>1. PlaceInv'
    BY PlaceStep DEF StoreInv
  <1>2. LastCloseInv'
    BY LastCloseStep DEF StoreInv
  <1>3. FileInv' /\ GuardedStays' /\ StandInv'
    BY StandStep DEF StoreInv
  <1>4. SidesInv'
    BY SidesStep DEF StoreInv
  <1> QED  BY <1>1, <1>2, <1>3, <1>4 DEF StoreInv

\* The same, where the sidecars are left alone too.
LEMMA QuietStep ==
    ASSUME StoreInv, NEW p \in Procs, TypeOK', Others(p),
           UNCHANGED <<db, file, side, version, swept>>, stray => stray',
           lock # Nil => lock' = lock, ~stray' /\ ~swept => torn' \subseteq torn,
           HoldOf(p)',
           p \in Cleaners => CleanerPlace(p)' /\ (pc'[p] \in {"side", "lock", "release"}
                                                  => pc[p] \in {"side", "lock", "release"}),
           p \in Handles =>
              /\ HandlePlace(p)'
              /\ conn'[p] \in {conn[p], Nil} /\ sconn'[p] \in {sconn[p], Nil}
              /\ pc'[p] \in Teardown => AloneAt(p, Target(p))'
              /\ dir' = p /\ pc'[p] \in {"init", "close"} \union Teardown
                 /\ job'[p] \in {"open", "fail"} => conn'[p] = db
              /\ stray' \/ pc[p] # "wal"
              /\ ~swept => StandOf(p)'
              /\ ~stray' /\ ~swept => SidesOf(p)'
    PROVE  StoreInv'
  <1>1. SidesKept
    BY DEF SidesKept, TypeOK
  <1> QED  BY <1>1, KeepStep

\* What the invariant says of one handle.
LEMMA OfHandle ==
    ASSUME StoreInv, NEW p \in Handles
    PROVE  /\ HandlePlace(p) /\ HoldOf(p)
           /\ ~swept => StandOf(p)
           /\ ~stray /\ ~swept => SidesOf(p)
           /\ p \in Procs /\ p \notin Cleaners /\ p # None
           /\ TypeOK /\ PlaceInv
  BY Sorts DEF StoreInv, PlaceInv, StandInv, SidesInv

\* Leaving releases what p held and nothing else.
LEMMA LeaveFacts ==
    ASSUME TypeOK, NEW p \in Handles, NEW s \in Places, NEW r \in Results, Leave(p, s, r)
    PROVE  /\ pc' \in [Procs -> Places] /\ fd' \in [Procs -> Inodes \union {Nil}]
           /\ lockBy' \in [Inodes -> Procs \union {None}]
           /\ dir' \in Procs \union {None} /\ closeBy' \in Procs \union {None}
           /\ via' \in [Handles -> {"none", "live", "main"}] /\ res' \in [Handles -> Results]
           /\ \A q \in Procs \ {p} : /\ pc'[q] = pc[q] /\ fd'[q] = fd[q]
                                     /\ \A i \in Inodes : lockBy'[i] = q <=> lockBy[i] = q
                                     /\ dir' = q <=> dir = q
                                     /\ closeBy' = q <=> closeBy = q
           /\ \A q \in Handles \ {p} : via'[q] = via[q] /\ res'[q] = res[q]
           /\ pc'[p] = s /\ res'[p] = r /\ fd'[p] = Nil /\ via'[p] = "none"
           /\ dir' # p /\ closeBy' # p /\ \A i \in Inodes : lockBy'[i] # p
  <1>1. p \in Procs /\ p # None
    BY Sorts
  <1>2. /\ lockBy' = [i \in Inodes |-> IF lockBy[i] = p THEN None ELSE lockBy[i]]
        /\ dir' = (IF dir = p THEN None ELSE dir)
        /\ closeBy' = (IF closeBy = p THEN None ELSE closeBy)
    BY DEF Leave, Freed, FreedDir, FreedClose
  <1>3. /\ lockBy' \in [Inodes -> Procs \union {None}]
        /\ dir' \in Procs \union {None} /\ closeBy' \in Procs \union {None}
        /\ dir' # p /\ closeBy' # p /\ \A i \in Inodes : lockBy'[i] # p
    BY <1>1, <1>2 DEF TypeOK
  <1>4. /\ pc' \in [Procs -> Places] /\ fd' \in [Procs -> Inodes \union {Nil}]
        /\ via' \in [Handles -> {"none", "live", "main"}] /\ res' \in [Handles -> Results]
        /\ pc'[p] = s /\ res'[p] = r /\ fd'[p] = Nil /\ via'[p] = "none"
        /\ \A q \in Handles \ {p} : via'[q] = via[q] /\ res'[q] = res[q]
    BY <1>1 DEF Leave, To, TypeOK
  <1>5. ASSUME NEW q \in Procs \ {p}
        PROVE  /\ pc'[q] = pc[q] /\ fd'[q] = fd[q]
               /\ \A i \in Inodes : lockBy'[i] = q <=> lockBy[i] = q
               /\ dir' = q <=> dir = q
               /\ closeBy' = q <=> closeBy = q
    <2>1. q # None
      BY Sorts
    <2>2. pc'[q] = pc[q] /\ fd'[q] = fd[q]
      BY DEF Leave, To, TypeOK
    <2> QED  BY <1>2, <2>1, <2>2
  <1> QED  BY <1>3, <1>4, <1>5

\* A handle that leaves an open, a wait or a close, having given up a connection or none.
LEMMA KeepLeaving ==
    ASSUME StoreInv, NEW p \in Handles, NEW s \in {"idle", "lockfile", "header", "opened", "ready"},
           NEW r \in Results, Leave(p, s, r), SidesKept,
           UNCHANGED <<lock, db, file, version, job, bounds, stray, swept>>,
           conn' = conn \/ conn' = [conn EXCEPT ![p] = Nil],
           sconn' = sconn \/ sconn' = [sconn EXCEPT ![p] = Nil],
           HandlePlace(p)', s = "lockfile" => job[p] = "open",
           ~swept /\ s \in {"opened", "ready"} => db # Nil /\ file[db].schema = version[p],
           pc[p] \notin {"init", "wal"}, r = "unreadable" => stray \/ swept
    PROVE  StoreInv'
  <1>1. /\ HandlePlace(p) /\ HoldOf(p) /\ p \in Procs /\ p \notin Cleaners /\ TypeOK
        /\ ~swept => StandOf(p)
    BY OfHandle
  <1>2. /\ ~stray /\ ~swept => SidesOf(p)
        /\ s \in Places
    BY OfHandle DEF Places
  <1>3. /\ conn' \in [Handles -> Inodes \union {Nil}] /\ sconn' \in [Handles -> Inodes \union {Nil}]
        /\ conn'[p] \in {conn[p], Nil} /\ sconn'[p] \in {sconn[p], Nil}
        /\ \A q \in Handles \ {p} : conn'[q] = conn[q] /\ sconn'[q] = sconn[q]
    BY <1>1 DEF TypeOK
  <1>4. TypeOK'
    BY <1>1, <1>2, <1>3, LeaveFacts DEF TypeOK, bounds, SidesKept
  <1>5. Others(p)
    BY <1>1, <1>2, <1>3, LeaveFacts DEF Others
  <1>6. /\ pc'[p] = s /\ res'[p] = r /\ fd'[p] = Nil /\ via'[p] = "none"
        /\ dir' # p /\ closeBy' # p /\ \A i \in Inodes : lockBy'[i] # p
    BY <1>1, <1>2, LeaveFacts
  <1>7. HoldOf(p)' /\ pc'[p] \notin Teardown /\ pc'[p] # "write"
    BY <1>6 DEF HoldOf, Guarded, Sweep, Teardown
  <1>8. sconn'[p] = Nil
    BY <1>7 DEF HandlePlace
  <1>9. ~swept => StandOf(p)'
    BY <1>1, <1>3, <1>6, <1>7, <1>8 DEF StandOf, Syncing, AtLock, Teardown
  <1>10. ~stray /\ ~swept => SidesOf(p)'
    BY <1>2, <1>3, <1>6 DEF SidesOf, SidesKept
  <1> QED
    BY <1>1, <1>3, <1>4, <1>5, <1>6, <1>7, <1>9, <1>10, KeepStep

LEMMA LeaveStep ==
    ASSUME StoreInv, NEW p \in Handles, NEW s \in {"idle", "lockfile", "header", "opened", "ready"},
           NEW r \in Results, Leave(p, s, r), UNCHANGED <<lock, disk, job, bounds, ghosts>>,
           conn' = conn \/ conn' = [conn EXCEPT ![p] = Nil],
           sconn' = sconn \/ sconn' = [sconn EXCEPT ![p] = Nil],
           HandlePlace(p)', s = "lockfile" => job[p] = "open",
           ~swept /\ s \in {"opened", "ready"} => db # Nil /\ file[db].schema = version[p],
           pc[p] \notin {"init", "wal"}, r = "unreadable" => stray \/ swept
    PROVE  StoreInv'
  <1>1. SidesKept
    BY DEF SidesKept, StoreInv, TypeOK, disk, ghosts
  <1> QED  BY <1>1, KeepLeaving DEF disk, ghosts

\* Without a teardown in the way, the identity can be read, and from the main file
\* alone only when nobody is connected.
LEMMA CurrencyIsRight ==
    ASSUME StoreInv, dir = None
    PROVE  /\ ReadCurrency \in {"live", "main", "error"}
           /\ ~stray /\ ~swept => /\ ReadCurrency # "error"
                                  /\ ReadCurrency = "main" => \A q \in Handles : conn[q] = Nil
  <1>1. ReadCurrency \in {"live", "main", "error"}
    BY DEF ReadCurrency
  <1>2. ASSUME ~stray, ~swept
        PROVE  /\ ReadCurrency # "error"
               /\ ReadCurrency = "main" => \A q \in Handles : conn[q] = Nil
    <2>1. ASSUME NEW q \in Handles PROVE pc[q] \notin {"init", "wal"}
      <3>1. SidesOf(q) /\ HoldOf(q) /\ q # None
        BY <1>2, OfHandle
      <3> QED  BY <3>1 DEF SidesOf, HoldOf, Guarded
    <2>2. side.wal # "none" <=> side.shm
      BY <1>2, <2>1 DEF StoreInv, SidesInv
    <2>3. ReadCurrency # "error"
      BY <2>2 DEF ReadCurrency
    <2>4. ASSUME ReadCurrency = "main", NEW q \in Handles PROVE conn[q] = Nil
      <3>1. file[db].wal /\ ~(side.wal # "none" /\ side.shm)
        BY <2>4 DEF ReadCurrency
      <3> QED  BY <1>2, <2>1, <3>1 DEF StoreInv, SidesInv, SidesOf
    <2> QED  BY <2>3, <2>4
  <1> QED  BY <1>1, <1>2

\* A connection is closed, and was not the last or has been torn down.
LEMMA ClosedStep ==
    ASSUME StoreInv, NEW p \in Handles, Closed(p), SidesKept, pc[p] \in {"close", "drop", "write"},
           UNCHANGED <<lock, db, file, version, job, bounds, stray, swept>>
    PROVE  StoreInv'
  <1>1. /\ HandlePlace(p) /\ p \in Procs /\ TypeOK /\ res[p] \in Results
        /\ ~swept => StandOf(p)
    BY OfHandle DEF TypeOK
  <1>2. res[p] = "unreadable" => stray \/ swept
    BY OfHandle DEF SidesOf
  <1>3. PICK s \in {"opened", "ready", "idle"}, r \in {res[p], "incompatible"} :
           /\ Leave(p, s, r)
           /\ s = "opened" <=> job[p] = "open"
           /\ s = "ready" <=> job[p] = "sync"
    <2>1. job[p] \in {"open", "sync", "drop", "fail"}
      BY <1>1 DEF TypeOK
    <2>2. CASE job[p] = "open"
      BY <2>2 DEF Closed
    <2>3. CASE job[p] = "sync"
      BY <2>3 DEF Closed
    <2>4. CASE job[p] \in {"drop", "fail"}
      BY <2>4 DEF Closed
    <2> QED  BY <2>1, <2>2, <2>3, <2>4
  <1>4. s \in Places /\ r \in Results
    BY <1>1 DEF Places, Results
  <1>5. pc'[p] = s
    BY <1>1, <1>3, <1>4, LeaveFacts
  <1>6. /\ conn' = IF job[p] = "sync" THEN conn ELSE [conn EXCEPT ![p] = Nil]
        /\ sconn' = [sconn EXCEPT ![p] = Nil]
    BY DEF Closed
  <1>7. sconn'[p] = Nil /\ conn'[p] = IF job[p] = "sync" THEN conn[p] ELSE Nil
    BY <1>1, <1>6 DEF TypeOK
  <1>8. HandlePlace(p)'
    BY <1>1, <1>3, <1>5, <1>7
    DEF HandlePlace, Syncing, Opening, Guarded, Teardown, AtLock
  <1>9. ~swept /\ s \in {"opened", "ready"} => db # Nil /\ file[db].schema = version[p]
    BY <1>1, <1>3 DEF HandlePlace, StandOf, Syncing
  <1> QED  BY <1>2, <1>3, <1>4, <1>6, <1>8, <1>9, KeepLeaving

-----------------------------------------------------------------------------
(* Graph::open.                                                              *)

LEMMA BeginOpenKeeps ==
    ASSUME StoreInv, NEW p \in Handles, BeginOpen(p)
    PROVE  StoreInv'
  <1>1. HandlePlace(p) /\ HoldOf(p) /\ p \in Procs /\ p \notin Cleaners /\ TypeOK
    BY OfHandle
  <1>2. TypeOK'
    BY <1>1, Sorts, StoreAssumption DEF BeginOpen, TypeOK, To, locks, disk, ghosts, Places, Results
  <1>3. Others(p)
    BY <1>1, Sorts DEF BeginOpen, TypeOK, To, locks, disk, ghosts, Others
  <1>4. /\ pc[p] = "idle" /\ pc'[p] \in {"lockfile", "precheck"}
        /\ job'[p] = "open" /\ res'[p] = "none" /\ db' = db /\ side' = side
        /\ UNCHANGED <<locks, file, version, fd, conn, sconn, ghosts>>
    BY <1>1 DEF BeginOpen, TypeOK, To, disk
  <1>5. HandlePlace(p)' /\ HoldOf(p)' /\ conn[p] = Nil /\ sconn[p] = Nil
    BY <1>1, <1>4 DEF HandlePlace, HoldOf, Syncing, locks, Opening, Guarded, Teardown, Sweep, AtLock
  <1>6. StandOf(p)' /\ (~stray /\ ~swept => SidesOf(p)')
    BY <1>4, <1>5 DEF StandOf, SidesOf, Syncing, Teardown, AtLock
  <1> QED  BY <1>1, <1>2, <1>3, <1>4, <1>5, <1>6, QuietStep DEF locks, ghosts, Teardown

LEMMA CheckHeaderKeeps ==
    ASSUME StoreInv, NEW p \in Handles, CheckHeader(p)
    PROVE  StoreInv'
  <1>1. /\ HandlePlace(p) /\ HoldOf(p) /\ p \in Procs /\ p \notin Cleaners /\ TypeOK
        /\ (~stray /\ ~swept => SidesOf(p))
    BY OfHandle
  <1>2. TypeOK'
    BY <1>1, Sorts DEF CheckHeader, TypeOK, To, locks, disk, bounds, ghosts, Places
  <1>3. Others(p)
    BY <1>1, Sorts DEF CheckHeader, TypeOK, To, locks, Others
  <1>4. /\ pc[p] = "header" /\ pc'[p] \in {"observe", "lockfile"}
        /\ UNCHANGED <<locks, disk, job, fd, via, conn, sconn, res, ghosts>>
    BY <1>1 DEF CheckHeader, TypeOK, To
  <1>5. HandlePlace(p)' /\ HoldOf(p)' /\ conn[p] = Nil /\ sconn[p] = Nil
    BY <1>1, <1>4 DEF HandlePlace, HoldOf, Syncing, locks, Opening, Guarded, Teardown, Sweep, AtLock
  <1>6. StandOf(p)' /\ (~stray /\ ~swept => SidesOf(p)')
    BY <1>1, <1>4, <1>5 DEF StandOf, SidesOf, HandlePlace, Syncing, Opening, Teardown, AtLock, disk
  <1> QED  BY <1>1, <1>2, <1>3, <1>4, <1>5, <1>6, QuietStep DEF locks, disk, ghosts, Teardown

LEMMA StartReadStep ==
    ASSUME StoreInv, NEW p \in Handles, pc[p] \in {"precheck", "observe"}, dir = None,
           NEW next \in {"inspect", "recheck"}, StartRead(p, next),
           UNCHANGED <<disk, job, conn, sconn, bounds, ghosts>>
    PROVE  StoreInv'
  <1>1. /\ HandlePlace(p) /\ HoldOf(p) /\ p \in Procs /\ p \notin Cleaners /\ TypeOK /\ p # None
        /\ ~swept => StandOf(p)
    BY OfHandle
  <1>2. /\ ~stray /\ ~swept => SidesOf(p)
        /\ ~stray /\ ~swept => /\ ReadCurrency # "error"
                               /\ ReadCurrency = "main" => \A q \in Handles : conn[q] = Nil
        /\ ReadCurrency \in {"live", "main", "error"}
    BY OfHandle, CurrencyIsRight
  <1>3. job[p] = "open" /\ conn[p] = Nil /\ sconn[p] = Nil
    BY <1>1 DEF HandlePlace, Syncing, Opening, Teardown, AtLock
  <1>4. CASE ReadCurrency = "error"
    <2>1. Leave(p, "idle", "unreadable") /\ lock' = lock
      BY <1>4 DEF StartRead
    <2>2. "idle" \in Places /\ "unreadable" \in Results
      BY DEF Places, Results
    <2>3. pc'[p] = "idle"
      BY <1>1, <2>1, <2>2, LeaveFacts
    <2>4. HandlePlace(p)'
      BY <1>3, <2>3 DEF HandlePlace, Syncing, Opening, Guarded, Teardown, AtLock
    <2> QED  BY <1>2, <1>4, <2>1, <2>2, <2>4, LeaveStep
  <1>5. CASE ReadCurrency # "error"
    <2>1. /\ dir' = p /\ via' = [via EXCEPT ![p] = ReadCurrency] /\ pc' = [pc EXCEPT ![p] = next]
          /\ UNCHANGED <<lock, lockBy, closeBy, fd, res>>
      BY <1>5 DEF StartRead, To
    <2>2. TypeOK'
      BY <1>1, <1>2, <1>5, <2>1 DEF TypeOK, disk, bounds, ghosts, Places
    <2>3. Others(p)
      BY <1>1, <2>1, Sorts DEF TypeOK, Others
    <2>4. pc'[p] = next /\ via'[p] = ReadCurrency
      BY <1>1, <2>1 DEF TypeOK
    <2>5. HandlePlace(p)'
      BY <1>3, <2>4 DEF HandlePlace, Syncing, Opening, Guarded, Teardown, AtLock
    <2>6. HoldOf(p)'
      BY <1>1, <2>1, <2>4 DEF HoldOf, Guarded, Teardown, Sweep
    <2>7. StandOf(p)'
      BY <1>3, <2>4 DEF StandOf, Syncing, Teardown, AtLock
    <2>8. ~stray /\ ~swept => SidesOf(p)'
      BY <1>2, <1>3, <2>1, <2>4 DEF SidesOf
    <2> QED
      BY <1>1, <2>1, <2>2, <2>3, <2>4, <2>5, <2>6, <2>7, <2>8, QuietStep
      DEF disk, ghosts, Teardown
  <1> QED  BY <1>4, <1>5

LEMMA PrecheckKeeps ==
    ASSUME StoreInv, NEW p \in Handles, Precheck(p)
    PROVE  StoreInv'
  BY StartReadStep DEF Precheck

LEMMA InspectKeeps ==
    ASSUME StoreInv, NEW p \in Handles, Inspect(p)
    PROVE  StoreInv'
  <1>1. HandlePlace(p) /\ TypeOK /\ pc[p] = "inspect" /\ res[p] \in Results /\ p \in Procs
    BY OfHandle DEF Inspect, TypeOK
  <1>2. job[p] = "open" /\ conn[p] = Nil /\ sconn[p] = Nil
    BY <1>1 DEF HandlePlace, Syncing, Opening, Teardown, AtLock
  <1>3. PICK s \in {"idle", "lockfile", "header"}, r \in {res[p], "incompatible"} : Leave(p, s, r)
    BY DEF Inspect
  <1>4. s \in Places /\ r \in Results
    BY <1>1 DEF Places, Results
  <1>5. pc'[p] = s
    BY <1>1, <1>3, <1>4, LeaveFacts
  <1>6. HandlePlace(p)'
    BY <1>2, <1>5 DEF Inspect, HandlePlace, Syncing, Opening, Guarded, Teardown, AtLock
  <1>7. r = "unreadable" => stray \/ swept
    BY OfHandle DEF SidesOf
  <1> QED  BY <1>1, <1>2, <1>3, <1>4, <1>6, <1>7, LeaveStep DEF Inspect

LEMMA OpenLockFileKeeps ==
    ASSUME StoreInv, NEW p \in Handles, OpenLockFile(p)
    PROVE  StoreInv'
  <1>1. /\ HandlePlace(p) /\ HoldOf(p) /\ p \in Procs /\ p \notin Cleaners /\ TypeOK /\ p # None
        /\ ~swept => StandOf(p)
    BY OfHandle
  <1>2. /\ ~stray /\ ~swept => SidesOf(p)
        /\ Fresh \in Inodes
    BY OfHandle, FreshIsFree DEF PlaceInv
  <1>3. /\ pc[p] = "lockfile" /\ pc' = [pc EXCEPT ![p] = "wantlock"]
        /\ lock' = (IF lock = Nil THEN Fresh ELSE lock) /\ fd' = [fd EXCEPT ![p] = lock']
        /\ UNCHANGED <<dir, lockBy, closeBy, db, file, side, version, job, via, conn, sconn, res,
                       bounds, torn, stray, swept>>
    BY DEF OpenLockFile, To, disk, ghosts
  <1>4. lock' \in Inodes /\ lock' # Nil
    BY <1>1, <1>2, <1>3, Sorts DEF TypeOK
  <1>5. TypeOK'
    BY <1>1, <1>3, <1>4 DEF TypeOK, bounds, Places
  <1>6. Others(p)
    BY <1>1, <1>3, Sorts DEF TypeOK, Others
  <1>7. pc'[p] = "wantlock" /\ fd'[p] = lock'
    BY <1>1, <1>3 DEF TypeOK
  <1>8. HandlePlace(p)'
    BY <1>1, <1>3, <1>7 DEF HandlePlace, Syncing, Opening, Guarded, Teardown, AtLock
  <1>9. HoldOf(p)'
    BY <1>1, <1>3, <1>4, <1>7 DEF HoldOf, Guarded, Teardown, Sweep
  <1>10. ~swept => StandOf(p)'
    BY <1>1, <1>3, <1>7 DEF StandOf, Syncing, Teardown, AtLock
  <1>11. ~stray /\ ~swept => SidesOf(p)'
    BY <1>2, <1>3, <1>7 DEF SidesOf
  <1> QED
    BY <1>1, <1>3, <1>5, <1>6, <1>7, <1>8, <1>9, <1>10, <1>11, QuietStep DEF Teardown

LEMMA TakeSetupLockKeeps ==
    ASSUME StoreInv, NEW p \in Handles, TakeSetupLock(p)
    PROVE  StoreInv'
  <1>1. /\ HandlePlace(p) /\ HoldOf(p) /\ p \in Procs /\ p \notin Cleaners /\ TypeOK /\ p # None
        /\ ~stray /\ ~swept => SidesOf(p)
    BY OfHandle
  <1>2. /\ pc[p] = "wantlock" /\ job[p] = "open" /\ lockBy[fd[p]] = None
        /\ lockBy' = [lockBy EXCEPT ![fd[p]] = p] /\ pc' = [pc EXCEPT ![p] = "observe"]
        /\ UNCHANGED <<dir, lock, closeBy, db, file, side, version, job, fd, via, conn, sconn, res,
                       bounds, torn, stray, swept>>
    BY DEF TakeSetupLock, To, disk, ghosts
  <1>3. fd[p] \in Inodes /\ conn[p] = Nil /\ sconn[p] = Nil
    BY <1>1, <1>2 DEF TypeOK, HoldOf, HandlePlace, Syncing, Teardown
  <1>4. TypeOK'
    BY <1>1, <1>2, <1>3 DEF TypeOK, bounds, Places
  <1>5. Others(p)
    BY <1>1, <1>2, <1>3, Sorts DEF TypeOK, Others
  <1>6. pc'[p] = "observe" /\ \A i \in Inodes : lockBy'[i] = p => i = fd[p]
    BY <1>1, <1>2, <1>3 DEF TypeOK, HoldOf
  <1>7. HandlePlace(p)'
    BY <1>1, <1>2, <1>3, <1>6 DEF HandlePlace, Syncing, Opening, Guarded, Teardown, AtLock
  <1>8. HoldOf(p)'
    BY <1>1, <1>2, <1>6 DEF HoldOf, Guarded, Teardown, Sweep
  <1>9. StandOf(p)' /\ (~stray /\ ~swept => SidesOf(p)')
    BY <1>1, <1>2, <1>3, <1>6 DEF StandOf, SidesOf, Syncing, Teardown, AtLock
  <1> QED
    BY <1>1, <1>2, <1>3, <1>4, <1>5, <1>6, <1>7, <1>8, <1>9, QuietStep DEF Teardown

LEMMA ObserveKeeps ==
    ASSUME StoreInv, NEW p \in Handles, Observe(p)
    PROVE  StoreInv'
  <1>1. CASE Holds(p)
    BY <1>1, StartReadStep DEF Observe
  <1>2. CASE ~Holds(p)
    <2>1. /\ HandlePlace(p) /\ HoldOf(p) /\ p \in Procs /\ p \notin Cleaners /\ TypeOK /\ p # None
          /\ ~stray /\ ~swept => SidesOf(p)
      BY OfHandle
    <2>2. /\ pc[p] = "observe" /\ dir = None /\ dir' = p /\ pc' = [pc EXCEPT ![p] = "create"]
          /\ UNCHANGED <<lock, lockBy, closeBy, db, file, side, version, job, fd, via, conn, sconn,
                         res, bounds, torn, stray, swept>>
      BY <1>2 DEF Observe, To, disk, ghosts
    <2>3. TypeOK'
      BY <2>1, <2>2 DEF TypeOK, bounds, Places
    <2>4. Others(p)
      BY <2>1, <2>2, Sorts DEF TypeOK, Others
    <2>5. pc'[p] = "create" /\ conn[p] = Nil /\ sconn[p] = Nil
      BY <2>1, <2>2 DEF TypeOK, HandlePlace, Syncing, Teardown, AtLock
    <2>6. HandlePlace(p)'
      BY <2>1, <2>2, <2>5 DEF HandlePlace, Syncing, Opening, Guarded, Teardown, AtLock
    <2>7. HoldOf(p)'
      BY <2>1, <2>2, <2>5 DEF HoldOf, Guarded, Teardown, Sweep
    <2>8. StandOf(p)' /\ (~stray /\ ~swept => SidesOf(p)')
      BY <2>1, <2>2, <2>5 DEF StandOf, SidesOf, Syncing, Teardown, AtLock
    <2> QED
      BY <2>1, <2>2, <2>3, <2>4, <2>5, <2>6, <2>7, <2>8, QuietStep DEF Teardown
  <1> QED  BY <1>1, <1>2

LEMMA RecheckKeeps ==
    ASSUME StoreInv, NEW p \in Handles, Recheck(p)
    PROVE  StoreInv'
  <1>1. /\ HandlePlace(p) /\ HoldOf(p) /\ p \in Procs /\ p \notin Cleaners /\ TypeOK /\ p # None
        /\ ~stray /\ ~swept => SidesOf(p)
    BY OfHandle
  <1>2. pc[p] = "recheck" /\ job[p] = "open" /\ conn[p] = Nil /\ sconn[p] = Nil
    BY <1>1 DEF Recheck, HandlePlace, Syncing, Opening, Teardown, AtLock
  <1>3. CASE NeedsInit \/ ValidIdentity(p, db)
    <2>1. /\ pc' = [pc EXCEPT ![p] = "create"] /\ via' = [via EXCEPT ![p] = "none"]
          /\ UNCHANGED <<dir, lock, lockBy, closeBy, db, file, side, version, job, fd, conn, sconn,
                         res, bounds, torn, stray, swept>>
      BY <1>3 DEF Recheck, To, disk, ghosts
    <2>2. TypeOK'
      BY <1>1, <2>1 DEF TypeOK, bounds, Places
    <2>3. Others(p)
      BY <1>1, <2>1, Sorts DEF TypeOK, Others
    <2>4. pc'[p] = "create"
      BY <1>1, <2>1 DEF TypeOK
    <2>5. HandlePlace(p)'
      BY <1>2, <2>1, <2>4 DEF HandlePlace, Syncing, Opening, Guarded, Teardown, AtLock
    <2>6. HoldOf(p)'
      BY <1>1, <1>2, <2>1, <2>4 DEF HoldOf, Guarded, Teardown, Sweep
    <2>7. StandOf(p)' /\ (~stray /\ ~swept => SidesOf(p)')
      BY <1>1, <1>2, <2>1, <2>4 DEF StandOf, SidesOf, Syncing, Teardown, AtLock
    <2> QED
      BY <1>1, <1>2, <2>1, <2>2, <2>3, <2>4, <2>5, <2>6, <2>7, QuietStep DEF Teardown
  <1>4. CASE ~(NeedsInit \/ ValidIdentity(p, db))
    <2>1. Leave(p, "idle", "incompatible") /\ "idle" \in Places /\ "incompatible" \in Results
      BY <1>4 DEF Recheck, Places, Results
    <2>2. pc'[p] = "idle"
      BY <1>1, <2>1, LeaveFacts
    <2>3. HandlePlace(p)'
      BY <1>2, <2>2 DEF Recheck, HandlePlace, Syncing, Opening, Guarded, Teardown, AtLock
    <2> QED  BY <1>2, <2>1, <2>3, LeaveStep DEF Recheck
  <1> QED  BY <1>3, <1>4

\* Opening the database by its path, where no last close is in the way: the inode
\* is the path's or a new one, and nobody is closing it.
LEMMA OpenedFacts ==
    ASSUME StoreInv, Create, db # Nil => ~Closing(db)
    PROVE  /\ db' \in Inodes /\ db' = Opened /\ db' # Nil
           /\ file' \in [Inodes -> [schema : Nat, wal : BOOLEAN]] /\ FileInv'
           /\ db # Nil => db' = db /\ file' = file
           /\ db = Nil => ~file'[db'].wal /\ file'[db'].schema = 0
           /\ \A q \in Handles : pc[q] \in Teardown => Target(q) # db'
  <1>1. /\ TypeOK /\ Fresh \in Inodes /\ Fresh # Nil
        /\ \A q \in Handles : conn[q] # Fresh /\ sconn[q] # Fresh
    BY FreshIsFree DEF StoreInv, PlaceInv
  <1>2. /\ db' \in Inodes /\ db' = Opened /\ db' # Nil
        /\ db # Nil => db' = db /\ file' = file
    BY <1>1, Sorts DEF Create, Opened, TypeOK
  <1>3. Empty \in [schema : Nat, wal : BOOLEAN] /\ Empty.schema = 0 /\ ~Empty.wal
    BY DEF Empty
  <1>4. db = Nil => file' = [file EXCEPT ![Fresh] = Empty] /\ db' = Fresh
    BY DEF Create, Opened
  <1>5. /\ file' \in [Inodes -> [schema : Nat, wal : BOOLEAN]] /\ FileInv'
        /\ db = Nil => ~file'[db'].wal /\ file'[db'].schema = 0
    <2>1. CASE db = Nil
      <3>1. \A i \in Inodes : file'[i] = IF i = Fresh THEN Empty ELSE file[i]
        BY <1>1, <1>4, <2>1 DEF TypeOK
      <3>2. file' \in [Inodes -> [schema : Nat, wal : BOOLEAN]]
        BY <1>1, <1>3, <1>4, <2>1 DEF TypeOK
      <3>3. FileInv'
        BY <1>3, <3>1 DEF StoreInv, FileInv
      <3> QED  BY <1>1, <1>3, <1>4, <2>1, <3>1, <3>2, <3>3
    <2>2. CASE db # Nil
      BY <1>1, <1>2, <2>2 DEF TypeOK, StoreInv, FileInv
    <2> QED  BY <2>1, <2>2
  <1>6. ASSUME NEW q \in Handles, pc[q] \in Teardown PROVE Target(q) # db'
    BY <1>1, <1>2, <1>4, <1>6 DEF Closing, Target, Teardown
  <1> QED  BY <1>2, <1>5, <1>6

LEMMA CreateFileKeeps ==
    ASSUME StoreInv, NEW p \in Handles, CreateFile(p)
    PROVE  StoreInv'
  <1>1. /\ HandlePlace(p) /\ HoldOf(p) /\ p \in Procs /\ p \notin Cleaners /\ TypeOK /\ p # None
        /\ PlaceInv
    BY OfHandle
  <1>2. /\ pc[p] = "create" /\ Create /\ (db # Nil => ~Closing(db))
        /\ conn' = [conn EXCEPT ![p] = Opened] /\ pc' = [pc EXCEPT ![p] = "init"]
        /\ UNCHANGED <<dir, lock, lockBy, closeBy, side, version, job, fd, via, sconn, res, bounds,
                       torn, stray, swept>>
    BY DEF CreateFile, To, locks, ghosts
  <1>3. /\ db' \in Inodes /\ db' = Opened /\ db' # Nil
        /\ file' \in [Inodes -> [schema : Nat, wal : BOOLEAN]] /\ FileInv'
        /\ db # Nil => db' = db /\ file' = file
        /\ \A q \in Handles : pc[q] \in Teardown => Target(q) # db'
    BY OpenedFacts DEF CreateFile
  <1>4. dir = p /\ job[p] = "open" /\ sconn[p] = Nil
    BY <1>1, <1>2 DEF HandlePlace, HoldOf, Opening, Guarded, Teardown
  <1>5. TypeOK'
    BY <1>1, <1>2, <1>3 DEF TypeOK, bounds, Places
  <1>6. Others(p) /\ pc'[p] = "init" /\ conn'[p] = db'
    BY <1>1, <1>2, <1>3, Sorts DEF TypeOK, Others
  <1>7. PlaceInv'
    <2>1. HandlePlace(p)'
      BY <1>2, <1>3, <1>4, <1>6 DEF HandlePlace, Syncing, Opening, Guarded, Teardown, AtLock
    <2>2. HoldOf(p)'
      BY <1>1, <1>2, <1>4, <1>6 DEF HoldOf, Guarded, Teardown, Sweep
    <2> QED  BY <1>1, <1>6, <2>1, <2>2, PlaceStep
  <1>8. LastCloseInv'
    <2> SUFFICES ASSUME NEW q \in Handles, pc'[q] \in Teardown
                 PROVE  AloneAt(q, Target(q))'
      BY DEF LastCloseInv
    <2>1. q # p /\ pc[q] = pc'[q] /\ Target(q)' = Target(q)
      BY <1>6, Sorts DEF Others, Target, Teardown
    <2>2. AloneAt(q, Target(q)) /\ Target(q) # Nil /\ Target(q) # db'
      BY <1>1, <1>3, <2>1 DEF StoreInv, LastCloseInv, PlaceInv, HandlePlace, Target, Teardown
    <2> QED  BY <1>2, <1>4, <1>6, <2>1, <2>2 DEF AloneAt, Others
  <1>9. GuardedStays'
    BY <1>2, <1>4, <1>6 DEF GuardedStays
  <1>10. ASSUME ~swept, NEW q \in Handles
         PROVE  StandOf(q)' /\ (conn[q] # Nil => db # Nil)
    <2>1. StandOf(q)
      BY <1>10, OfHandle
    <2>2. CASE q = p
      BY <1>1, <1>2, <1>4, <1>6, <2>2 DEF StandOf, HandlePlace, Syncing, Teardown, AtLock
    <2>3. CASE q # p
      <3>1. /\ pc'[q] = pc[q] /\ fd'[q] = fd[q] /\ job'[q] = job[q]
            /\ conn'[q] = conn[q] /\ sconn'[q] = sconn[q]
        BY <1>6, <2>3, Sorts DEF Others
      <3> QED  BY <1>2, <1>3, <2>1, <3>1 DEF StandOf, Syncing
    <2> QED  BY <2>2, <2>3
  <1>11. StandInv'
    <2>1. ASSUME NEW c \in Cleaners, pc'[c] \in {"side", "lock", "release"} PROVE FALSE
      <3>1. pc[c] = pc'[c] /\ HoldOf(c) /\ c # p
        BY <1>1, <1>6, Sorts DEF Others, PlaceInv
      <3> QED  BY <1>4, <2>1, <3>1 DEF HoldOf, Sweep
    <2> QED  BY <1>2, <1>10, <2>1 DEF StandInv
  <1>12. SidesInv'
    <2> SUFFICES ASSUME ~stray, ~swept
                 PROVE  /\ \A q \in Handles : SidesOf(q)'
                        /\ (\A q \in Handles : pc'[q] # "wal") => (side.wal # "none" <=> side.shm)
                        /\ torn = {}
      BY <1>2 DEF SidesInv
    <2>1. ASSUME NEW q \in Handles PROVE SidesOf(q)'
      <3>1. SidesOf(q) /\ HoldOf(q)
        BY OfHandle
      <3>2. CASE q = p
        BY <1>2, <1>6, <3>1, <3>2 DEF SidesOf
      <3>3. CASE q # p
        <4>1. /\ pc'[q] = pc[q] /\ conn'[q] = conn[q]
          BY <1>6, <3>3, Sorts DEF Others
        <4>2. pc[q] \notin {"inspect", "recheck"}
          BY <1>4, <3>1, <3>3 DEF HoldOf, Guarded
        <4> QED  BY <1>2, <1>3, <1>10, <3>1, <4>1, <4>2 DEF SidesOf
      <3> QED  BY <3>2, <3>3
    <2>2. pc[p] # "wal" /\ \A q \in Handles \ {p} : pc'[q] = pc[q]
      BY <1>2, <1>6, Sorts DEF Others
    <2> QED  BY <2>1, <2>2 DEF StoreInv, SidesInv
  <1> QED  BY <1>3, <1>5, <1>7, <1>8, <1>9, <1>11, <1>12 DEF StoreInv

LEMMA InitializeKeeps ==
    ASSUME StoreInv, NEW p \in Handles, Initialize(p)
    PROVE  StoreInv'
  <1> DEFINE i == conn[p]
             mine == file[i].schema = 0 \/ file[i].schema = version[p]
  <1>1. /\ HandlePlace(p) /\ HoldOf(p) /\ p \in Procs /\ p \notin Cleaners /\ TypeOK /\ p # None
        /\ PlaceInv
    BY OfHandle
  <1>2. /\ pc[p] = "init" /\ pc' = [pc EXCEPT ![p] = "close"]
        /\ file' = [file EXCEPT ![i].wal = TRUE,
                                ![i].schema = IF @ = 0 THEN version[p] ELSE @]
        /\ side'.wal # "none" /\ side'.shm
        /\ side' \in [wal : {"none", "header", "frames"}, shm : BOOLEAN]
        /\ job' = [job EXCEPT ![p] = IF mine THEN "open" ELSE "fail"]
        /\ UNCHANGED <<dir, lock, lockBy, closeBy, db, version, fd, via, conn, sconn, res, bounds,
                       torn, stray, swept>>
    <2>1. /\ pc[p] = "init" /\ pc' = [pc EXCEPT ![p] = "close"]
          /\ file' = [file EXCEPT ![i].wal = TRUE,
                                  ![i].schema = IF @ = 0 THEN version[p] ELSE @]
          /\ job' = [job EXCEPT ![p] = IF mine THEN "open" ELSE "fail"]
          /\ UNCHANGED <<dir, lock, lockBy, closeBy, db, version, fd, via, conn, sconn, res,
                         bounds, torn, stray, swept>>
      BY DEF Initialize, ValidIdentity, To, locks, ghosts
    <2>2. side' = [wal |-> IF file[i].schema = 0 THEN "frames"
                           ELSE IF side.wal = "none" THEN "header" ELSE side.wal,
                   shm |-> TRUE]
      BY DEF Initialize
    <2> QED  BY <1>1, <2>1, <2>2 DEF TypeOK
  <1>3. dir = p /\ job[p] = "open" /\ sconn[p] = Nil /\ i # Nil
    BY <1>1, <1>2 DEF HandlePlace, HoldOf, Opening, Guarded, Teardown
  <1>4. i = db /\ i \in Inodes
    BY <1>1, <1>2, <1>3 DEF StoreInv, GuardedStays, TypeOK
  <1>5. version[p] \in Nat \ {0}
    BY <1>1, StoreAssumption DEF TypeOK
  <1>6. /\ file' \in [Inodes -> [schema : Nat, wal : BOOLEAN]]
        /\ file'[db].wal
        /\ file'[db].schema = IF file[db].schema = 0 THEN version[p] ELSE file[db].schema
        /\ \A j \in Inodes \ {db} : file'[j] = file[j]
    <2>1. file \in [Inodes -> [schema : Nat, wal : BOOLEAN]]
      BY <1>1 DEF TypeOK
    <2> HIDE DEF i
    <2>2. file' \in [Inodes -> [schema : Nat, wal : BOOLEAN]]
      <3> DEFINE g == [file EXCEPT ![i].wal = TRUE]
      <3>1. g \in [Inodes -> [schema : Nat, wal : BOOLEAN]]
        BY <1>4, <2>1
      <3>2. file' = [g EXCEPT ![i].schema = IF g[i].schema = 0 THEN version[p] ELSE g[i].schema]
        BY <1>2, <1>4, <2>1
      <3> HIDE DEF g
      <3> QED  BY <1>4, <1>5, <3>1, <3>2
    <2>3. file'[db].wal
      BY <1>2, <1>4, <2>1, SMTT(30)
    <2>4. file'[db].schema = IF file[db].schema = 0 THEN version[p] ELSE file[db].schema
      BY <1>2, <1>4, <2>1, SMTT(30)
    <2>5. \A j \in Inodes \ {db} : file'[j] = file[j]
      BY <1>2, <1>4, <2>1, SMTT(30)
    <2> QED  BY <2>2, <2>3, <2>4, <2>5
  <1>7. TypeOK'
    BY <1>1, <1>2, <1>6 DEF TypeOK, bounds, Places
  <1>8. Others(p) /\ pc'[p] = "close" /\ job'[p] = IF mine THEN "open" ELSE "fail"
    BY <1>1, <1>2, Sorts DEF TypeOK, Others
  <1>9. PlaceInv'
    <2>1. HandlePlace(p)'
      BY <1>2, <1>3, <1>8 DEF HandlePlace, Syncing, Opening, Guarded, Teardown, AtLock
    <2>2. HoldOf(p)'
      BY <1>1, <1>2, <1>3, <1>8 DEF HoldOf, Guarded, Teardown, Sweep
    <2> QED  BY <1>1, <1>8, <2>1, <2>2, PlaceStep
  <1>10. LastCloseInv'
    BY <1>1, <1>2, <1>8, LastCloseStep DEF StoreInv, Teardown
  <1>11. FileInv'
    BY <1>5, <1>6 DEF StoreInv, FileInv
  <1>12. GuardedStays'
    BY <1>2, <1>3, <1>4, <1>8 DEF GuardedStays
  <1>13. StandInv'
    <2> SUFFICES ASSUME ~swept
                 PROVE  /\ \A c \in Cleaners : pc'[c] \in {"side", "lock", "release"} => db = Nil
                        /\ \A q \in Handles : StandOf(q)'
      BY <1>2 DEF StandInv
    <2>1. ASSUME NEW c \in Cleaners, pc'[c] \in {"side", "lock", "release"} PROVE db = Nil
      BY <1>1, <1>8, <2>1, Sorts DEF Others, StoreInv, StandInv
    <2>2. ASSUME NEW q \in Handles PROVE StandOf(q)'
      <3>1. StandOf(q) /\ version[q] # 0
        BY <1>1, OfHandle, StoreAssumption DEF TypeOK
      <3>2. CASE q = p
        <4>1. mine => file'[db].schema = version[p]
          BY <1>4, <1>6
        <4> QED
          BY <1>2, <1>3, <1>4, <1>8, <3>2, <4>1 DEF StandOf, Syncing, Teardown, AtLock
      <3>3. CASE q # p
        <4>1. /\ pc'[q] = pc[q] /\ job'[q] = job[q]
          BY <1>8, <3>3, Sorts DEF Others
        <4>2. file[db].schema = version[q] => file'[db].schema = version[q]
          BY <1>6, <3>1
        <4> QED  BY <1>2, <3>1, <4>1, <4>2 DEF StandOf, Syncing
      <3> QED  BY <3>2, <3>3
    <2> QED  BY <2>1, <2>2
  <1>14. SidesInv'
    <2> SUFFICES ASSUME ~stray, ~swept
                 PROVE  /\ \A q \in Handles : SidesOf(q)'
                        /\ side'.wal # "none" <=> side'.shm
                        /\ torn = {}
      BY <1>2 DEF SidesInv
    <2>1. ASSUME NEW q \in Handles PROVE SidesOf(q)'
      <3>1. SidesOf(q) /\ HoldOf(q)
        BY OfHandle
      <3>2. CASE q = p
        BY <1>2, <1>8, <3>1, <3>2 DEF SidesOf
      <3>3. CASE q # p
        <4>1. pc'[q] = pc[q]
          BY <1>8, <3>3, Sorts DEF Others
        <4>2. pc[q] \notin {"inspect", "recheck", "shm", "wal"}
          BY <1>3, <3>1, <3>3 DEF HoldOf, SidesOf, Guarded
        <4> QED  BY <1>2, <3>1, <4>1, <4>2 DEF SidesOf
      <3> QED  BY <3>2, <3>3
    <2> QED  BY <1>2, <2>1 DEF StoreInv, SidesInv
  <1> QED  BY <1>7, <1>9, <1>10, <1>11, <1>12, <1>13, <1>14 DEF StoreInv

-----------------------------------------------------------------------------
(* Closing a connection.                                                     *)

\* The last connection begins to tear the sidecars down.
LEMMA TeardownStep ==
    ASSUME StoreInv, NEW p \in Handles, LastClose(p, Target(p)), SidesKept,
           pc[p] \in {"close", "drop", "write"}, pc' = [pc EXCEPT ![p] = "checkpoint"],
           pc[p] = "close" => closeBy' \in {closeBy, p}, pc[p] # "close" => closeBy' = closeBy,
           UNCHANGED <<dir, lock, lockBy, db, file, version, job, fd, via, conn, sconn, res, bounds,
                       stray, swept>>
    PROVE  StoreInv'
  <1>1. /\ HandlePlace(p) /\ HoldOf(p) /\ p \in Procs /\ p \notin Cleaners /\ TypeOK /\ p # None
        /\ ~swept => StandOf(p)
    BY OfHandle
  <1>2. ~stray /\ ~swept => SidesOf(p)
    BY OfHandle
  <1>3. closeBy' \in {closeBy, p} /\ (closeBy' # closeBy => pc[p] = "close" /\ closeBy' = p)
    BY <1>1 DEF TypeOK
  <1>4. TypeOK'
    BY <1>1, <1>3 DEF TypeOK, SidesKept, bounds, Places
  <1>5. pc'[p] = "checkpoint" /\ \A q \in Procs \ {p} : pc'[q] = pc[q]
    BY <1>1 DEF TypeOK
  <1>6. \A q \in Procs \ {p} : closeBy' = q <=> closeBy = q
    <2>1. closeBy' # closeBy => closeBy = None \/ closeBy = p
      BY <1>1, <1>3, Sorts DEF TypeOK, HoldOf, StoreInv, PlaceInv, Guarded
    <2> QED  BY <1>3, <2>1, Sorts
  <1>7. Others(p)
    BY <1>5, <1>6 DEF Others
  <1>8. HandlePlace(p)'
    BY <1>1, <1>5 DEF HandlePlace, Syncing, Opening, Guarded, Teardown, AtLock
  <1>9. HoldOf(p)'
    BY <1>1, <1>3, <1>5 DEF HoldOf, Guarded, Teardown, Sweep
  <1>10. AloneAt(p, Target(p))' /\ (job[p] # "sync" => conn[p] = db)
    BY DEF LastClose, AloneAt, Target
  <1>11. ~swept => StandOf(p)'
    <2>1. ~swept => job[p] # "sync"
      BY <1>1 DEF LastClose, Target, StandOf, HandlePlace
    <2> QED  BY <1>1, <1>5, <2>1 DEF StandOf, HandlePlace, Syncing, Teardown, AtLock
  <1>12. ~stray /\ ~swept => SidesOf(p)'
    BY <1>2, <1>5 DEF SidesOf, SidesKept
  <1> QED
    BY <1>1, <1>4, <1>5, <1>7, <1>8, <1>9, <1>10, <1>11, <1>12, KeepStep

LEMMA CloseKeeps ==
    ASSUME StoreInv, NEW p \in Handles, Close(p)
    PROVE  StoreInv'
  <1>1. /\ pc[p] = "close" /\ UNCHANGED <<lock, db, file, side, version, job, bounds, torn, stray, swept>>
        /\ Target(p) = conn[p] /\ SidesKept
    <2>1. HandlePlace(p) /\ TypeOK
      BY OfHandle
    <2> QED  BY <2>1 DEF Close, disk, ghosts, HandlePlace, Target, SidesKept, TypeOK
  <1>2. CASE LastClose(p, Target(p))
    <2>1. /\ pc' = [pc EXCEPT ![p] = "checkpoint"] /\ closeBy' \in {closeBy, p}
          /\ UNCHANGED <<dir, lockBy, fd, via, res, conn, sconn>>
      BY <1>1, <1>2 DEF Close, DropConnection, To
    <2> QED  BY <1>1, <1>2, <2>1, TeardownStep
  <1>3. CASE ~LastClose(p, Target(p))
    <2>1. Closed(p)
      BY <1>1, <1>3 DEF Close, DropConnection
    <2> QED  BY <1>1, <2>1, ClosedStep
  <1> QED  BY <1>2, <1>3

LEMMA CheckpointKeeps ==
    ASSUME StoreInv, NEW p \in Handles, Checkpoint(p)
    PROVE  StoreInv'
  <1>1. /\ HandlePlace(p) /\ HoldOf(p) /\ p \in Procs /\ p \notin Cleaners /\ TypeOK /\ p # None
        /\ ~swept => StandOf(p)
    BY OfHandle
  <1>2. ~stray /\ ~swept => SidesOf(p)
    BY OfHandle
  <1>3. /\ pc[p] = "checkpoint" /\ pc' = [pc EXCEPT ![p] = "shm"]
        /\ torn' = torn \union TornBy /\ stray' = (stray \/ dir # p)
        /\ UNCHANGED <<dir, lock, lockBy, closeBy, db, file, side, version, job, fd, via, conn,
                       sconn, res, bounds, swept>>
    BY DEF Checkpoint, To, locks, disk
  <1>4. pc'[p] = "shm"
    BY <1>1, <1>3 DEF TypeOK
  <1>5. TypeOK'
    BY <1>1, <1>3 DEF TypeOK, TornBy, bounds, Places
  <1>6. Others(p)
    BY <1>1, <1>3, Sorts DEF TypeOK, Others
  <1>7. HandlePlace(p)'
    BY <1>1, <1>3, <1>4 DEF HandlePlace, Syncing, Opening, Guarded, Teardown, AtLock
  <1>8. HoldOf(p)'
    BY <1>1, <1>3, <1>4 DEF HoldOf, Guarded, Teardown, Sweep
  <1>9. ~stray' => TornBy = {} /\ dir = p
    <2> SUFFICES ASSUME dir = p PROVE TornBy = {}
      BY <1>3
    <2>1. ASSUME NEW q \in Handles, pc[q] \in {"inspect", "recheck"} PROVE FALSE
      <3>1. HoldOf(q)
        BY OfHandle
      <3> QED  BY <1>3, <2>1, <3>1 DEF HoldOf, Guarded
    <2> QED  BY <2>1 DEF TornBy
  <1>10. AloneAt(p, Target(p))'
    BY <1>3 DEF StoreInv, LastCloseInv, Teardown, AloneAt, Target
  <1>11. dir' = p /\ job'[p] \in {"open", "fail"} => conn'[p] = db
    BY <1>3 DEF StoreInv, GuardedStays
  <1>12. ~swept => StandOf(p)'
    BY <1>1, <1>3, <1>4 DEF StandOf, Syncing, Teardown, AtLock
  <1>13. ~stray' /\ ~swept => SidesOf(p)'
    BY <1>2, <1>3, <1>4, <1>9 DEF SidesOf
  <1> QED
    BY <1>1, <1>3, <1>4, <1>5, <1>6, <1>7, <1>8, <1>9, <1>10, <1>11, <1>12, <1>13, QuietStep

\* While the database is at its path, whoever tears its sidecars down is the only
\* one connected to anything.
LEMMA AloneInTeardown ==
    ASSUME StoreInv, ~swept, NEW p \in Handles, pc[p] \in Teardown
    PROVE  /\ job[p] # "sync" /\ conn[p] = db /\ db # Nil
           /\ \A q \in Handles \ {p} : conn[q] = Nil
  <1>1. HandlePlace(p) /\ StandOf(p)
    BY OfHandle
  <1>2. job[p] # "sync" /\ conn[p] = db /\ db # Nil
    BY <1>1 DEF HandlePlace, StandOf
  <1>3. AloneAt(p, conn[p])
    BY <1>2 DEF StoreInv, LastCloseInv, Target
  <1>4. ASSUME NEW q \in Handles \ {p} PROVE conn[q] = Nil
    <2>1. StandOf(q)
      BY OfHandle
    <2> QED  BY <1>2, <1>3, <2>1 DEF AloneAt, StandOf
  <1> QED  BY <1>2, <1>4

\* What the guards of a teardown keep the other handles from.
LEMMA GuardedTeardown ==
    ASSUME StoreInv, ~stray, ~swept, NEW p \in Handles, pc[p] \in {"shm", "wal"},
           NEW q \in Handles \ {p}
    PROVE  /\ pc[q] \notin {"inspect", "recheck", "shm", "wal"}
           /\ conn[q] = Nil /\ res[q] # "unreadable"
  <1>1. SidesOf(p) /\ SidesOf(q) /\ HoldOf(q)
    BY OfHandle
  <1>2. dir = p
    BY <1>1 DEF SidesOf
  <1>3. pc[q] \notin {"inspect", "recheck", "shm", "wal"} /\ res[q] # "unreadable"
    BY <1>1, <1>2 DEF SidesOf, HoldOf, Guarded
  <1> QED  BY <1>3, AloneInTeardown DEF Teardown

LEMMA UnlinkShmKeeps ==
    ASSUME StoreInv, NEW p \in Handles, UnlinkShm(p)
    PROVE  StoreInv'
  <1>1. /\ HandlePlace(p) /\ HoldOf(p) /\ p \in Procs /\ p \notin Cleaners /\ TypeOK /\ p # None
        /\ ~swept => StandOf(p)
    BY OfHandle
  <1>2. /\ pc[p] = "shm" /\ pc' = [pc EXCEPT ![p] = "wal"]
        /\ side' = [side EXCEPT !.shm = FALSE]
        /\ UNCHANGED <<dir, lock, lockBy, closeBy, db, file, version, job, fd, via, conn, sconn, res,
                       bounds, torn, stray, swept>>
    BY DEF UnlinkShm, To, locks, ghosts
  <1>3. /\ side' \in [wal : {"none", "header", "frames"}, shm : BOOLEAN] /\ ~side'.shm
        /\ side'.wal = side.wal
    BY <1>1, <1>2 DEF TypeOK
  <1>4. TypeOK'
    BY <1>1, <1>2, <1>3 DEF TypeOK, bounds, Places
  <1>5. Others(p) /\ pc'[p] = "wal"
    BY <1>1, <1>2, Sorts DEF TypeOK, Others
  <1>6. PlaceInv'
    <2>1. HandlePlace(p)'
      BY <1>1, <1>2, <1>5 DEF HandlePlace, Syncing, Opening, Guarded, Teardown, AtLock
    <2>2. HoldOf(p)'
      BY <1>1, <1>2, <1>5 DEF HoldOf, Guarded, Teardown, Sweep
    <2> QED  BY <1>1, <1>5, <2>1, <2>2, PlaceStep DEF StoreInv
  <1>7. LastCloseInv'
    <2>1. AloneAt(p, Target(p))'
      BY <1>2 DEF StoreInv, LastCloseInv, Teardown, AloneAt, Target
    <2> QED  BY <1>1, <1>2, <1>5, <2>1, LastCloseStep DEF StoreInv
  <1>8. FileInv' /\ GuardedStays' /\ StandInv'
    <2>1. dir' = p /\ job'[p] \in {"open", "fail"} => conn'[p] = db
      BY <1>2 DEF StoreInv, GuardedStays
    <2>2. ~swept => StandOf(p)'
      BY <1>1, <1>2, <1>5 DEF StandOf, Syncing, Teardown, AtLock
    <2> QED  BY <1>1, <1>2, <1>5, <2>1, <2>2, StandStep DEF StoreInv
  <1>9. SidesInv'
    <2> SUFFICES ASSUME ~stray, ~swept
                 PROVE  (\A q \in Handles : SidesOf(q)') /\ torn = {}
      BY <1>2, <1>5 DEF SidesInv
    <2>1. SidesOf(p)'
      <3>1. SidesOf(p)
        BY OfHandle
      <3> QED  BY <1>2, <1>3, <1>5, <3>1 DEF SidesOf
    <2>2. ASSUME NEW q \in Handles \ {p} PROVE SidesOf(q)'
      <3>1. pc[q] \notin {"inspect", "recheck", "shm", "wal"} /\ conn[q] = Nil /\ res[q] # "unreadable"
        BY <1>2, GuardedTeardown
      <3>2. pc'[q] = pc[q]
        BY <1>5, Sorts DEF Others
      <3> QED  BY <1>2, <3>1, <3>2 DEF SidesOf
    <2> QED  BY <2>1, <2>2 DEF StoreInv, SidesInv
  <1> QED  BY <1>4, <1>6, <1>7, <1>8, <1>9 DEF StoreInv

LEMMA UnlinkWalKeeps ==
    ASSUME StoreInv, NEW p \in Handles, UnlinkWal(p)
    PROVE  StoreInv'
  <1>1. /\ HandlePlace(p) /\ p \in Procs /\ p \notin Cleaners /\ TypeOK /\ res[p] \in Results
        /\ ~swept => StandOf(p)
    BY OfHandle DEF TypeOK
  <1>2. /\ pc[p] = "wal" /\ Closed(p) /\ side' = [side EXCEPT !.wal = "none"]
        /\ UNCHANGED <<lock, db, file, version, job, bounds, torn, stray, swept>>
    BY DEF UnlinkWal, ghosts
  <1>3. PICK s \in {"opened", "ready", "idle"}, r \in {res[p], "incompatible"} :
           /\ Leave(p, s, r)
           /\ s = "opened" <=> job[p] = "open"
           /\ s = "ready" <=> job[p] = "sync"
    <2>1. job[p] \in {"open", "sync", "drop", "fail"}
      BY <1>1 DEF TypeOK
    <2>2. CASE job[p] = "open"
      BY <1>2, <2>2 DEF Closed
    <2>3. CASE job[p] = "sync"
      BY <1>2, <2>3 DEF Closed
    <2>4. CASE job[p] \in {"drop", "fail"}
      BY <1>2, <2>4 DEF Closed
    <2> QED  BY <2>1, <2>2, <2>3, <2>4
  <1>4. s \in Places /\ r \in Results
    BY <1>1 DEF Places, Results
  <1>5. /\ side' \in [wal : {"none", "header", "frames"}, shm : BOOLEAN] /\ side'.wal = "none"
        /\ side'.shm = side.shm
    BY <1>1, <1>2 DEF TypeOK
  <1>6. /\ conn' = IF job[p] = "sync" THEN conn ELSE [conn EXCEPT ![p] = Nil]
        /\ sconn' = [sconn EXCEPT ![p] = Nil]
    BY <1>2 DEF Closed
  <1>7. /\ conn' \in [Handles -> Inodes \union {Nil}] /\ sconn' \in [Handles -> Inodes \union {Nil}]
        /\ sconn'[p] = Nil /\ conn'[p] = IF job[p] = "sync" THEN conn[p] ELSE Nil
        /\ \A q \in Handles \ {p} : conn'[q] = conn[q] /\ sconn'[q] = sconn[q]
    BY <1>1, <1>6 DEF TypeOK
  <1>8. TypeOK'
    BY <1>1, <1>2, <1>3, <1>4, <1>5, <1>7, LeaveFacts DEF TypeOK, bounds
  <1>9. Others(p)
    BY <1>1, <1>2, <1>3, <1>4, <1>7, LeaveFacts DEF Others
  <1>10. /\ pc'[p] = s /\ res'[p] = r /\ fd'[p] = Nil /\ via'[p] = "none"
         /\ dir' # p /\ closeBy' # p /\ \A i \in Inodes : lockBy'[i] # p
    BY <1>1, <1>3, <1>4, LeaveFacts
  <1>11. PlaceInv'
    <2>1. HandlePlace(p)'
      BY <1>1, <1>2, <1>3, <1>7, <1>10
      DEF HandlePlace, Syncing, Opening, Guarded, Teardown, AtLock
    <2>2. HoldOf(p)'
      BY <1>10 DEF HoldOf, Guarded, Sweep
    <2> QED  BY <1>1, <1>9, <2>1, <2>2, PlaceStep DEF StoreInv
  <1>12. LastCloseInv'
    BY <1>1, <1>7, <1>9, <1>10, LastCloseStep DEF StoreInv, Teardown
  <1>13. FileInv' /\ GuardedStays' /\ StandInv'
    <2>1. ~swept => StandOf(p)'
      <3>1. ~swept => job[p] # "sync"
        BY <1>1, <1>2 DEF StandOf, Teardown
      <3> QED
        BY <1>1, <1>2, <1>3, <1>7, <1>10, <3>1 DEF StandOf, Syncing, AtLock, Teardown
    <2> QED  BY <1>1, <1>2, <1>9, <1>10, <2>1, StandStep DEF StoreInv
  <1>14. SidesInv'
    <2> SUFFICES ASSUME ~stray, ~swept
                 PROVE  /\ \A q \in Handles : SidesOf(q)'
                        /\ side'.wal # "none" <=> side'.shm
                        /\ torn = {}
      BY <1>2 DEF SidesInv
    <2>1. SidesOf(p)' /\ ~side'.shm
      <3>1. SidesOf(p)
        BY OfHandle
      <3>2. conn'[p] = Nil
        BY <1>2, <1>7, AloneInTeardown DEF Teardown
      <3> QED  BY <1>2, <1>5, <1>10, <3>1, <3>2 DEF SidesOf
    <2>2. ASSUME NEW q \in Handles \ {p} PROVE SidesOf(q)'
      <3>1. pc[q] \notin {"inspect", "recheck", "shm", "wal"} /\ conn[q] = Nil /\ res[q] # "unreadable"
        BY <1>2, GuardedTeardown
      <3>2. pc'[q] = pc[q] /\ conn'[q] = conn[q] /\ res'[q] = res[q]
        BY <1>9, Sorts DEF Others
      <3> QED  BY <3>1, <3>2 DEF SidesOf
    <2> QED  BY <1>5, <2>1, <2>2 DEF StoreInv, SidesInv
  <1> QED  BY <1>8, <1>11, <1>12, <1>13, <1>14 DEF StoreInv

-----------------------------------------------------------------------------
(* The open handle, and its syncs.                                           *)

LEMMA DropHandleKeeps ==
    ASSUME StoreInv, NEW p \in Handles, DropHandle(p)
    PROVE  StoreInv'
  <1>1. /\ HandlePlace(p) /\ HoldOf(p) /\ p \in Procs /\ p \notin Cleaners /\ TypeOK /\ p # None
        /\ ~swept => StandOf(p)
    BY OfHandle
  <1>2. ~stray /\ ~swept => SidesOf(p)
    BY OfHandle
  <1>3. /\ pc[p] = "ready" /\ pc' = [pc EXCEPT ![p] = "drop"] /\ job' = [job EXCEPT ![p] = "drop"]
        /\ UNCHANGED <<dir, lock, lockBy, closeBy, db, file, side, version, fd, via, conn, sconn,
                       res, bounds, torn, stray, swept>>
    BY DEF DropHandle, To, locks, disk, ghosts
  <1>4. TypeOK'
    BY <1>1, <1>3 DEF TypeOK, bounds, Places
  <1>5. Others(p)
    BY <1>1, <1>3, Sorts DEF TypeOK, Others
  <1>6. pc'[p] = "drop" /\ job'[p] = "drop"
    BY <1>1, <1>3 DEF TypeOK
  <1>7. HandlePlace(p)'
    BY <1>1, <1>3, <1>6 DEF HandlePlace, Syncing, Opening, Guarded, Teardown, AtLock
  <1>8. HoldOf(p)'
    BY <1>1, <1>3, <1>6 DEF HoldOf, Guarded, Teardown, Sweep
  <1>9. ~swept => StandOf(p)'
    BY <1>1, <1>3, <1>6 DEF StandOf, Syncing, Teardown, AtLock
  <1>10. ~stray /\ ~swept => SidesOf(p)'
    BY <1>2, <1>3, <1>6 DEF SidesOf
  <1> QED
    BY <1>1, <1>3, <1>4, <1>5, <1>6, <1>7, <1>8, <1>9, <1>10, QuietStep DEF Teardown

LEMMA ObserveDropKeeps ==
    ASSUME StoreInv, NEW p \in Handles, ObserveDrop(p)
    PROVE  StoreInv'
  <1>1. /\ HandlePlace(p) /\ HoldOf(p) /\ p \in Procs /\ p \notin Cleaners /\ TypeOK /\ p # None
        /\ ~swept => StandOf(p)
    BY OfHandle
  <1>2. ~stray /\ ~swept => SidesOf(p)
    BY OfHandle
  <1>3. /\ pc[p] = "drop" /\ dir = None /\ dir' = p /\ pc' = [pc EXCEPT ![p] = "close"]
        /\ UNCHANGED <<lock, lockBy, closeBy, db, file, side, version, job, fd, via, conn, sconn,
                       res, bounds, torn, stray, swept>>
    BY DEF ObserveDrop, To, disk, ghosts
  <1>4. TypeOK'
    BY <1>1, <1>3 DEF TypeOK, bounds, Places
  <1>5. Others(p)
    BY <1>1, <1>3, Sorts DEF TypeOK, Others
  <1>6. pc'[p] = "close" /\ job[p] = "drop"
    BY <1>1, <1>3 DEF TypeOK, HandlePlace
  <1>7. HandlePlace(p)'
    BY <1>1, <1>3, <1>6 DEF HandlePlace, Syncing, Opening, Guarded, Teardown, AtLock
  <1>8. HoldOf(p)'
    BY <1>1, <1>3, <1>6 DEF HoldOf, Guarded, Teardown, Sweep
  <1>9. ~swept => StandOf(p)'
    BY <1>1, <1>3, <1>6 DEF StandOf, Syncing, Teardown, AtLock
  <1>10. ~stray /\ ~swept => SidesOf(p)'
    BY <1>2, <1>3, <1>6 DEF SidesOf
  <1> QED
    BY <1>1, <1>3, <1>4, <1>5, <1>6, <1>7, <1>8, <1>9, <1>10, QuietStep DEF Teardown

LEMMA StartSyncKeeps ==
    ASSUME StoreInv, NEW p \in Handles, StartSync(p)
    PROVE  StoreInv'
  <1>1. /\ HandlePlace(p) /\ HoldOf(p) /\ p \in Procs /\ p \notin Cleaners /\ TypeOK /\ p # None
        /\ ~swept => StandOf(p)
    BY OfHandle
  <1>2. ~stray /\ ~swept => SidesOf(p)
    BY OfHandle
  <1>3. /\ pc[p] = "ready" /\ pc' = [pc EXCEPT ![p] = "lockfile"]
        /\ job' = [job EXCEPT ![p] = "sync"]
        /\ UNCHANGED <<dir, lock, lockBy, closeBy, db, file, side, version, fd, via, conn, sconn,
                       res, bounds, torn, stray, swept>>
    BY DEF StartSync, To, locks, disk, ghosts
  <1>4. TypeOK'
    BY <1>1, <1>3 DEF TypeOK, bounds, Places
  <1>5. Others(p)
    BY <1>1, <1>3, Sorts DEF TypeOK, Others
  <1>6. pc'[p] = "lockfile" /\ job'[p] = "sync"
    BY <1>1, <1>3 DEF TypeOK
  <1>7. HandlePlace(p)'
    BY <1>1, <1>3, <1>6 DEF HandlePlace, Syncing, Opening, Guarded, Teardown, AtLock
  <1>8. HoldOf(p)'
    BY <1>1, <1>3, <1>6 DEF HoldOf, Guarded, Teardown, Sweep
  <1>9. ~swept => StandOf(p)'
    BY <1>1, <1>3, <1>6 DEF StandOf, HandlePlace, Syncing, Teardown, AtLock
  <1>10. ~stray /\ ~swept => SidesOf(p)'
    BY <1>2, <1>3, <1>6 DEF SidesOf
  <1> QED
    BY <1>1, <1>3, <1>4, <1>5, <1>6, <1>7, <1>8, <1>9, <1>10, QuietStep DEF Teardown

\* Opening by path joins no last close.
LEMMA OpeningStep ==
    ASSUME StoreInv, NEW p \in Handles, Others(p), Create, db # Nil => ~Closing(db),
           pc'[p] \notin Teardown, conn'[p] \in {conn[p], db'}, sconn'[p] \in {sconn[p], db'}
    PROVE  LastCloseInv'
  <1> SUFFICES ASSUME NEW q \in Handles, pc'[q] \in Teardown
               PROVE  AloneAt(q, Target(q))'
    BY DEF LastCloseInv
  <1>1. q # p /\ pc[q] = pc'[q] /\ Target(q)' = Target(q)
    BY Sorts DEF Others, Target
  <1>2. AloneAt(q, Target(q)) /\ Target(q) # db'
    BY <1>1, OpenedFacts DEF StoreInv, LastCloseInv
  <1>3. ASSUME NEW r \in Handles \ {q} PROVE conn'[r] # Target(q) /\ sconn'[r] # Target(q)
    <2>1. CASE r = p
      BY <1>2, <2>1 DEF AloneAt
    <2>2. CASE r # p
      BY <1>2, <2>2 DEF AloneAt, Others
    <2> QED  BY <2>1, <2>2
  <1> QED  BY <1>1, <1>3 DEF AloneAt

\* A writer publishes both sidecars of a WAL database.
LEMMA PublishFacts ==
    ASSUME TypeOK, NEW i \in Inodes
    PROVE  /\ Publish(i) \in [wal : {"none", "header", "frames"}, shm : BOOLEAN]
           /\ file[i].wal => Publish(i).wal # "none" /\ Publish(i).shm
  <1>1. side \in [wal : {"none", "header", "frames"}, shm : BOOLEAN]
    BY DEF TypeOK
  <1>2. CASE file[i].wal
    BY <1>1, <1>2 DEF Publish
  <1>3. CASE ~file[i].wal
    BY <1>1, <1>3 DEF Publish
  <1> QED  BY <1>2, <1>3

LEMMA OpenWriterKeeps ==
    ASSUME StoreInv, NEW p \in Handles, OpenWriter(p)
    PROVE  StoreInv'
  <1> DEFINE broken == file'[db'].schema = 0
  <1>1. /\ HandlePlace(p) /\ HoldOf(p) /\ p \in Procs /\ p \notin Cleaners /\ TypeOK /\ p # None
        /\ PlaceInv
    BY OfHandle
  <1>2. /\ pc[p] = "opened" /\ dir = None /\ Create /\ (db # Nil => ~Closing(db))
        /\ conn' = [conn EXCEPT ![p] = Opened]
        /\ side' = (IF db = Nil THEN side ELSE Publish(db))
        /\ res' = [res EXCEPT ![p] = IF broken THEN "broken" ELSE "ok"]
        /\ job' = [job EXCEPT ![p] = "drop"]
        /\ pc' = [pc EXCEPT ![p] = IF broken THEN "drop" ELSE "ready"]
        /\ UNCHANGED <<dir, lock, lockBy, closeBy, version, fd, via, sconn, bounds,
                       torn, stray, swept>>
    BY DEF OpenWriter, To, locks, ghosts
  <1>3. /\ db' \in Inodes /\ db' = Opened /\ db' # Nil
        /\ file' \in [Inodes -> [schema : Nat, wal : BOOLEAN]] /\ FileInv'
        /\ db # Nil => db' = db /\ file' = file
    BY <1>2, OpenedFacts
  <1>4. side' \in [wal : {"none", "header", "frames"}, shm : BOOLEAN]
    BY <1>1, <1>2, PublishFacts DEF TypeOK
  <1>5. job[p] = "open" /\ sconn[p] = Nil
    BY <1>1, <1>2 DEF HandlePlace, Opening, Teardown
  <1>6. TypeOK'
    BY <1>1, <1>2, <1>3, <1>4 DEF TypeOK, bounds, Places, Results
  <1>7. /\ Others(p) /\ pc'[p] = (IF broken THEN "drop" ELSE "ready")
        /\ conn'[p] = db' /\ job'[p] = "drop" /\ res'[p] \in {"ok", "broken"}
    BY <1>1, <1>2, <1>3, Sorts DEF TypeOK, Others
  <1>8. PlaceInv'
    <2>1. HandlePlace(p)'
      BY <1>2, <1>3, <1>5, <1>7 DEF HandlePlace, Syncing, Opening, Guarded, Teardown, AtLock
    <2>2. HoldOf(p)'
      BY <1>1, <1>2, <1>7 DEF HoldOf, Guarded, Teardown, Sweep
    <2> QED  BY <1>1, <1>7, <2>1, <2>2, PlaceStep
  <1>9. LastCloseInv'
    BY <1>2, <1>7, OpeningStep DEF Teardown
  <1>10. GuardedStays'
    BY <1>2, Sorts DEF GuardedStays
  <1>11. ~swept => db # Nil /\ file[db].schema = version[p] /\ file[db].wal
    <2>1. version[p] # 0
      BY <1>1, StoreAssumption DEF TypeOK
    <2> QED  BY <1>1, <1>2, <2>1, OfHandle DEF StandOf, StoreInv, FileInv, TypeOK
  <1>12. ~swept => UNCHANGED <<db, file>> /\ pc'[p] = "ready"
    <2>1. version[p] # 0
      BY <1>1, StoreAssumption DEF TypeOK
    <2> QED  BY <1>3, <1>7, <1>11, <2>1
  <1>13. StandInv'
    <2> SUFFICES ASSUME ~swept
                 PROVE  /\ \A c \in Cleaners : pc'[c] \notin {"side", "lock", "release"}
                        /\ \A q \in Handles : StandOf(q)'
      BY <1>2 DEF StandInv
    <2>1. ASSUME NEW c \in Cleaners, pc'[c] \in {"side", "lock", "release"} PROVE FALSE
      <3>1. pc[c] = pc'[c] /\ HoldOf(c) /\ c # None
        BY <1>1, <1>7, Sorts DEF Others, PlaceInv
      <3> QED  BY <1>2, <2>1, <3>1 DEF HoldOf, Sweep
    <2>2. ASSUME NEW q \in Handles PROVE StandOf(q)'
      <3>1. StandOf(q)
        BY OfHandle
      <3>2. CASE q = p
        BY <1>2, <1>5, <1>7, <1>11, <1>12, <3>2 DEF StandOf, Syncing, Teardown, AtLock
      <3>3. CASE q # p
        <4>1. /\ pc'[q] = pc[q] /\ job'[q] = job[q] /\ conn'[q] = conn[q]
          BY <1>7, <3>3, Sorts DEF Others
        <4> QED  BY <1>2, <1>12, <3>1, <4>1 DEF StandOf, Syncing
      <3> QED  BY <3>2, <3>3
    <2> QED  BY <2>1, <2>2
  <1>14. SidesInv'
    <2> SUFFICES ASSUME ~stray, ~swept
                 PROVE  /\ \A q \in Handles : SidesOf(q)'
                        /\ side'.wal # "none" <=> side'.shm
                        /\ torn = {}
      BY <1>2 DEF SidesInv
    <2>1. side'.wal # "none" /\ side'.shm
      BY <1>1, <1>2, <1>11, PublishFacts DEF TypeOK
    <2>2. ASSUME NEW q \in Handles PROVE SidesOf(q)'
      <3>1. SidesOf(q) /\ HoldOf(q) /\ q # None
        BY OfHandle
      <3>2. CASE q = p
        BY <1>7, <1>12, <2>1, <3>2 DEF SidesOf
      <3>3. CASE q # p
        <4>1. pc'[q] = pc[q] /\ res'[q] = res[q]
          BY <1>7, <3>3, Sorts DEF Others
        <4>2. pc[q] \notin {"inspect", "recheck", "shm", "wal"}
          BY <1>2, <3>1 DEF HoldOf, SidesOf, Guarded
        <4> QED  BY <2>1, <3>1, <4>1, <4>2 DEF SidesOf
      <3> QED  BY <3>2, <3>3
    <2> QED  BY <2>1, <2>2 DEF StoreInv, SidesInv
  <1> QED  BY <1>3, <1>6, <1>8, <1>9, <1>10, <1>13, <1>14 DEF StoreInv

LEMMA TakeSyncLockKeeps ==
    ASSUME StoreInv, NEW p \in Handles, TakeSyncLock(p)
    PROVE  StoreInv'
  <1>1. /\ HandlePlace(p) /\ HoldOf(p) /\ p \in Procs /\ p \notin Cleaners /\ TypeOK /\ p # None
        /\ PlaceInv
    BY OfHandle
  <1>2. /\ pc[p] = "wantlock" /\ job[p] = "sync" /\ lockBy[fd[p]] = None
        /\ (db # Nil => ~Closing(db)) /\ Create
        /\ lockBy' = [lockBy EXCEPT ![fd[p]] = p]
        /\ sconn' = [sconn EXCEPT ![p] = Opened]
        /\ side' = (IF db = Nil THEN side ELSE Publish(db))
        /\ pc' = [pc EXCEPT ![p] = "write"]
        /\ UNCHANGED <<dir, lock, closeBy, version, job, fd, via, conn, res, bounds,
                       torn, stray, swept>>
    BY DEF TakeSyncLock, To, ghosts
  <1>3. /\ db' \in Inodes /\ db' = Opened /\ db' # Nil
        /\ file' \in [Inodes -> [schema : Nat, wal : BOOLEAN]] /\ FileInv'
        /\ db # Nil => db' = db /\ file' = file
        /\ \A q \in Handles : pc[q] \in Teardown => Target(q) # db'
    BY <1>2, OpenedFacts
  <1>4. side' \in [wal : {"none", "header", "frames"}, shm : BOOLEAN]
    BY <1>1, <1>2, PublishFacts DEF TypeOK
  <1>5. fd[p] \in Inodes /\ conn[p] # Nil
    BY <1>1, <1>2 DEF TypeOK, HoldOf, HandlePlace, Syncing, AtLock
  <1>6. TypeOK'
    BY <1>1, <1>2, <1>3, <1>4, <1>5 DEF TypeOK, bounds, Places
  <1>7. Others(p)
    BY <1>1, <1>2, <1>5, Sorts DEF TypeOK, Others
  <1>8. /\ pc'[p] = "write" /\ sconn'[p] = db' /\ lockBy'[fd[p]] = p
        /\ \A i \in Inodes : lockBy'[i] = p => i = fd[p]
    BY <1>1, <1>2, <1>3, <1>5 DEF TypeOK, HoldOf
  <1>9. PlaceInv'
    <2>1. HandlePlace(p)'
      BY <1>2, <1>3, <1>5, <1>8 DEF HandlePlace, Syncing, Opening, Guarded, Teardown, AtLock
    <2>2. HoldOf(p)'
      BY <1>1, <1>2, <1>8 DEF HoldOf, Guarded, Teardown, Sweep
    <2> QED  BY <1>1, <1>7, <2>1, <2>2, PlaceStep
  <1>10. LastCloseInv'
    BY <1>2, <1>7, <1>8, OpeningStep DEF Teardown
  <1>11. GuardedStays'
    <2> SUFFICES ASSUME NEW q \in Handles, dir = q, job[q] \in {"open", "fail"},
                        pc'[q] \in {"init", "close", "checkpoint", "shm", "wal"}
                 PROVE  conn[q] = db'
      BY <1>2 DEF GuardedStays
    <2>1. pc[q] = pc'[q] /\ HandlePlace(q)
      BY <1>7, <1>8, Sorts, OfHandle DEF Others
    <2>2. conn[q] = db /\ conn[q] # Nil
      BY <2>1 DEF StoreInv, GuardedStays, HandlePlace, Teardown
    <2> QED  BY <1>3, <2>2
  <1>12. ~swept => db # Nil /\ file[db].wal /\ conn[p] = db /\ fd[p] = lock
                   /\ file[db].schema = version[p]
    <2>1. version[p] # 0
      BY <1>1, StoreAssumption DEF TypeOK
    <2> QED
      BY <1>1, <1>2, <1>5, <2>1, OfHandle DEF StandOf, Syncing, AtLock, StoreInv, FileInv, TypeOK
  <1>13. ~swept => UNCHANGED <<db, file>>
    BY <1>3, <1>12
  <1>14. StandInv'
    <2> SUFFICES ASSUME ~swept
                 PROVE  /\ \A c \in Cleaners : pc'[c] \notin {"side", "lock", "release"}
                        /\ \A q \in Handles : StandOf(q)'
      BY <1>2 DEF StandInv
    <2>1. ASSUME NEW c \in Cleaners PROVE pc'[c] \notin {"side", "lock", "release"}
      BY <1>1, <1>7, <1>12, Sorts DEF Others, StoreInv, StandInv
    <2>2. ASSUME NEW q \in Handles PROVE StandOf(q)'
      <3>1. StandOf(q)
        BY OfHandle
      <3>2. CASE q = p
        BY <1>2, <1>8, <1>12, <1>13, <3>2 DEF StandOf, Syncing, Teardown, AtLock
      <3>3. CASE q # p
        <4>1. pc'[q] = pc[q] /\ sconn'[q] = sconn[q]
          BY <1>7, <3>3, Sorts DEF Others
        <4> QED  BY <1>2, <1>13, <3>1, <4>1 DEF StandOf, Syncing
      <3> QED  BY <3>2, <3>3
    <2> QED  BY <2>1, <2>2
  <1>15. SidesInv'
    <2> SUFFICES ASSUME ~stray, ~swept
                 PROVE  /\ \A q \in Handles : SidesOf(q)'
                        /\ side'.wal # "none" <=> side'.shm
                        /\ torn = {}
      BY <1>2 DEF SidesInv
    <2>1. side'.wal # "none" /\ side'.shm
      BY <1>1, <1>2, <1>12, PublishFacts DEF TypeOK
    <2>2. ASSUME NEW q \in Handles PROVE SidesOf(q)'
      <3>1. SidesOf(q)
        BY OfHandle
      <3>2. CASE q = p
        BY <1>2, <1>8, <2>1, <3>1, <3>2 DEF SidesOf
      <3>3. CASE q # p
        <4>1. pc'[q] = pc[q]
          BY <1>7, <3>3, Sorts DEF Others
        <4>2. pc[q] \notin Teardown
          BY <1>5, <3>3, AloneInTeardown
        <4> QED  BY <1>2, <2>1, <3>1, <4>1, <4>2 DEF SidesOf, Teardown
      <3> QED  BY <3>2, <3>3
    <2> QED  BY <2>1, <2>2 DEF StoreInv, SidesInv
  <1> QED  BY <1>3, <1>6, <1>9, <1>10, <1>11, <1>14, <1>15 DEF StoreInv

LEMMA SyncWriteKeeps ==
    ASSUME StoreInv, NEW p \in Handles, SyncWrite(p)
    PROVE  StoreInv'
  <1>1. HandlePlace(p) /\ TypeOK
    BY OfHandle
  <1>2. /\ pc[p] = "write" /\ DropConnection(p)
        /\ UNCHANGED <<lock, db, file, version, job, bounds, stray, swept>>
        /\ side' \in {side, [wal |-> "frames", shm |-> TRUE]}
        /\ torn' \in {torn, torn \union TornBy}
    BY DEF SyncWrite
  <1>3. SidesKept
    <2>1. /\ side' \in [wal : {"none", "header", "frames"}, shm : BOOLEAN] /\ torn' \subseteq Handles
          /\ side' # side => side'.wal # "none" /\ side'.shm
      <3>1. side' \in [wal : {"none", "header", "frames"}, shm : BOOLEAN]
        <4>1. CASE side' = side
          BY <1>1, <4>1 DEF TypeOK
        <4>2. CASE side' = [wal |-> "frames", shm |-> TRUE]
          BY <4>2
        <4> QED  BY <1>2, <4>1, <4>2
      <3>2. side' # side => side'.wal # "none" /\ side'.shm
        BY <1>2
      <3>3. torn' \subseteq Handles
        BY <1>1, <1>2 DEF TypeOK, TornBy
      <3> QED  BY <3>1, <3>2, <3>3
    <2>2. conn[p] # Nil
      BY <1>1, <1>2 DEF HandlePlace, Syncing
    <2>3. ASSUME ~stray, ~swept PROVE TornBy = {} /\ \A q \in Handles : pc[q] # "wal"
      <3>1. ASSUME NEW q \in Handles PROVE ~(pc[q] \in {"inspect", "recheck"} /\ via[q] = "main")
        <4>1. SidesOf(q)
          BY <2>3, OfHandle
        <4> QED  BY <2>2, <4>1 DEF SidesOf
      <3>2. ASSUME NEW q \in Handles PROVE pc[q] # "wal"
        BY <1>2, <2>2, <2>3, AloneInTeardown DEF Teardown
      <3> QED  BY <3>1, <3>2 DEF TornBy
    <2> QED  BY <1>2, <2>1, <2>3 DEF SidesKept
  <1>4. CASE LastClose(p, Target(p))
    <2>1. /\ pc' = [pc EXCEPT ![p] = "checkpoint"]
          /\ UNCHANGED <<dir, closeBy, lockBy, fd, via, res, conn, sconn>>
      BY <1>2, <1>4 DEF DropConnection, To
    <2> QED  BY <1>2, <1>3, <1>4, <2>1, TeardownStep
  <1>5. CASE ~LastClose(p, Target(p))
    <2>1. Closed(p)
      BY <1>2, <1>5 DEF DropConnection
    <2> QED  BY <1>2, <1>3, <2>1, ClosedStep
  <1> QED  BY <1>4, <1>5

-----------------------------------------------------------------------------
(* Waits that are given up, and crashes.                                     *)

\* An open that gives up has no connection; a sync that gives up keeps the handle's.
LEMMA GiveUpStep ==
    ASSUME StoreInv, NEW p \in Handles, UNCHANGED <<lock, disk, job, bounds, ghosts, conn, sconn>>,
           \/ /\ \/ pc[p] \in {"precheck", "observe", "create", "opened"}
                 \/ pc[p] = "wantlock" /\ job[p] # "sync"
              /\ Leave(p, "idle", "timeout")
           \/ pc[p] = "wantlock" /\ job[p] = "sync" /\ Leave(p, "ready", res[p])
    PROVE  StoreInv'
  <1>1. /\ HandlePlace(p) /\ p \in Procs /\ TypeOK /\ res[p] \in Results
        /\ ~swept => StandOf(p)
    BY OfHandle DEF TypeOK
  <1>2. res[p] = "unreadable" => stray \/ swept
    BY OfHandle DEF SidesOf
  <1>3. "idle" \in Places /\ "ready" \in Places /\ "timeout" \in Results
    BY DEF Places, Results
  <1>4. CASE Leave(p, "idle", "timeout") /\ ~(pc[p] = "wantlock" /\ job[p] = "sync")
    <2>1. pc'[p] = "idle" /\ conn[p] = Nil /\ sconn[p] = Nil
      BY <1>1, <1>3, <1>4, LeaveFacts DEF HandlePlace, Syncing, Teardown, AtLock
    <2>2. HandlePlace(p)'
      BY <2>1 DEF HandlePlace, Syncing, Opening, Guarded, Teardown, AtLock
    <2> QED  BY <1>3, <1>4, <2>2, LeaveStep
  <1>5. CASE pc[p] = "wantlock" /\ job[p] = "sync" /\ Leave(p, "ready", res[p])
    <2>1. pc'[p] = "ready" /\ conn[p] # Nil /\ sconn[p] = Nil
      BY <1>1, <1>3, <1>5, LeaveFacts DEF HandlePlace, Syncing, Teardown, AtLock
    <2>2. HandlePlace(p)'
      BY <2>1 DEF HandlePlace, Syncing, Opening, Guarded, Teardown, AtLock
    <2>3. ~swept => db # Nil /\ file[db].schema = version[p]
      BY <1>1, <1>5 DEF StandOf, Syncing, AtLock
    <2> QED  BY <1>1, <1>2, <1>3, <1>5, <2>2, <2>3, LeaveStep
  <1> QED  BY <1>4, <1>5

LEMMA TimeoutKeeps ==
    ASSUME StoreInv, NEW p \in Handles, Timeout(p)
    PROVE  StoreInv'
  <1>1. CASE pc[p] = "drop" /\ DropConnection(p)
    <2>1. UNCHANGED <<lock, db, file, version, job, bounds, stray, swept, side, torn>>
      BY DEF Timeout, disk, ghosts
    <2>2. SidesKept
      BY <2>1 DEF SidesKept, StoreInv, TypeOK
    <2>3. CASE LastClose(p, Target(p))
      <3>1. /\ pc' = [pc EXCEPT ![p] = "checkpoint"]
            /\ UNCHANGED <<dir, closeBy, lockBy, fd, via, res, conn, sconn>>
        BY <1>1, <2>3 DEF DropConnection, To
      <3> QED  BY <1>1, <2>1, <2>2, <2>3, <3>1, TeardownStep
    <2>4. CASE ~LastClose(p, Target(p))
      <3>1. Closed(p)
        BY <1>1, <2>4 DEF DropConnection
      <3> QED  BY <1>1, <2>1, <2>2, <3>1, ClosedStep
    <2> QED  BY <2>3, <2>4
  <1>2. CASE ~(pc[p] = "drop" /\ DropConnection(p))
    BY <1>2, GiveUpStep DEF Timeout
  <1> QED  BY <1>1, <1>2

LEMMA BusyKeeps ==
    ASSUME StoreInv, NEW p \in Handles, Busy(p)
    PROVE  StoreInv'
  BY GiveUpStep DEF Busy

\* A process that ends, or keeps the family, lets go of what it held and of nothing else.
LEMMA FreedFacts ==
    ASSUME TypeOK, NEW p \in Procs, To(p, "idle"), fd' = [fd EXCEPT ![p] = Nil],
           lockBy' = Freed(p), dir' = FreedDir(p), closeBy' = FreedClose(p)
    PROVE  /\ pc' \in [Procs -> Places] /\ fd' \in [Procs -> Inodes \union {Nil}]
           /\ lockBy' \in [Inodes -> Procs \union {None}]
           /\ dir' \in Procs \union {None} /\ closeBy' \in Procs \union {None}
           /\ \A q \in Procs \ {p} : /\ pc'[q] = pc[q] /\ fd'[q] = fd[q]
                                     /\ \A i \in Inodes : lockBy'[i] = q <=> lockBy[i] = q
                                     /\ dir' = q <=> dir = q
                                     /\ closeBy' = q <=> closeBy = q
           /\ pc'[p] = "idle" /\ HoldOf(p)'
  <1>1. p # None /\ "idle" \in Places
    BY Sorts DEF Places
  <1>2. /\ lockBy' = [i \in Inodes |-> IF lockBy[i] = p THEN None ELSE lockBy[i]]
        /\ dir' = (IF dir = p THEN None ELSE dir)
        /\ closeBy' = (IF closeBy = p THEN None ELSE closeBy)
    BY DEF Freed, FreedDir, FreedClose
  <1>3. /\ lockBy' \in [Inodes -> Procs \union {None}]
        /\ dir' \in Procs \union {None} /\ closeBy' \in Procs \union {None}
        /\ dir' # p /\ closeBy' # p /\ \A i \in Inodes : lockBy'[i] # p
    BY <1>1, <1>2 DEF TypeOK
  <1>4. /\ pc' \in [Procs -> Places] /\ fd' \in [Procs -> Inodes \union {Nil}]
        /\ pc'[p] = "idle" /\ fd'[p] = Nil
    BY <1>1 DEF To, TypeOK
  <1>5. ASSUME NEW q \in Procs \ {p}
        PROVE  /\ pc'[q] = pc[q] /\ fd'[q] = fd[q]
               /\ \A i \in Inodes : lockBy'[i] = q <=> lockBy[i] = q
               /\ dir' = q <=> dir = q
               /\ closeBy' = q <=> closeBy = q
    <2>1. q # None
      BY Sorts
    <2>2. pc'[q] = pc[q] /\ fd'[q] = fd[q]
      BY DEF To, TypeOK
    <2> QED  BY <1>2, <2>1, <2>2
  <1>6. HoldOf(p)'
    BY <1>3, <1>4 DEF HoldOf, Guarded, Sweep
  <1> QED  BY <1>3, <1>4, <1>5, <1>6

LEMMA CrashKeeps ==
    ASSUME StoreInv, NEW p \in Procs, Crash(p)
    PROVE  StoreInv'
  <1>1. TypeOK
    BY DEF StoreInv
  <1>2. /\ To(p, "idle") /\ fd' = [fd EXCEPT ![p] = Nil] /\ crashes < MaxCrashes
        /\ lockBy' = Freed(p) /\ dir' = FreedDir(p) /\ closeBy' = FreedClose(p)
        /\ crashes' = crashes + 1
        /\ UNCHANGED <<lock, db, file, side, version, job, res, opens, cleans, torn, swept>>
    BY DEF Crash, disk
  <1>3. /\ pc' \in [Procs -> Places] /\ fd' \in [Procs -> Inodes \union {Nil}]
        /\ lockBy' \in [Inodes -> Procs \union {None}]
        /\ dir' \in Procs \union {None} /\ closeBy' \in Procs \union {None}
        /\ \A q \in Procs \ {p} : /\ pc'[q] = pc[q] /\ fd'[q] = fd[q]
                                  /\ \A i \in Inodes : lockBy'[i] = q <=> lockBy[i] = q
                                  /\ dir' = q <=> dir = q
                                  /\ closeBy' = q <=> closeBy = q
        /\ pc'[p] = "idle" /\ HoldOf(p)'
    BY <1>1, <1>2, FreedFacts
  <1>4. crashes' \in 0 .. MaxCrashes
    BY <1>1, <1>2, StoreAssumption DEF TypeOK
  <1>5. CASE p \in Handles
    <2>1. /\ conn' = [conn EXCEPT ![p] = Nil] /\ sconn' = [sconn EXCEPT ![p] = Nil]
          /\ via' = [via EXCEPT ![p] = "none"] /\ stray' = (stray \/ pc[p] = "wal")
      BY <1>5 DEF Crash
    <2>2. TypeOK'
      <3>1. /\ conn' \in [Handles -> Inodes \union {Nil}] /\ sconn' \in [Handles -> Inodes \union {Nil}]
            /\ via' \in [Handles -> {"none", "live", "main"}] /\ stray' \in BOOLEAN
        BY <1>1, <2>1 DEF TypeOK
      <3> QED  BY <1>1, <1>2, <1>3, <1>4, <3>1 DEF TypeOK
    <2>3. /\ Others(p) /\ pc'[p] = "idle" /\ HoldOf(p)'
          /\ conn'[p] = Nil /\ sconn'[p] = Nil /\ via'[p] = "none"
      <3>1. /\ conn'[p] = Nil /\ sconn'[p] = Nil /\ via'[p] = "none"
            /\ \A q \in Handles \ {p} : conn'[q] = conn[q] /\ sconn'[q] = sconn[q] /\ via'[q] = via[q]
        BY <1>1, <1>5, <2>1 DEF TypeOK
      <3> QED  BY <1>2, <1>3, <3>1 DEF Others
    <2>4. HandlePlace(p)'
      BY <2>3 DEF HandlePlace, Syncing, Opening, Guarded, Teardown, AtLock
    <2>5. StandOf(p)'
      BY <2>3 DEF StandOf, Syncing, Teardown, AtLock
    <2>6. ~stray' /\ ~swept => SidesOf(p)'
      BY <1>2, <1>5, <2>1, <2>3, OfHandle DEF SidesOf
    <2> QED
      BY <1>2, <1>5, <2>1, <2>2, <2>3, <2>4, <2>5, <2>6, Sorts, QuietStep DEF Teardown
  <1>6. CASE p \notin Handles
    <2>1. UNCHANGED <<conn, sconn, via, stray>> /\ p \in Cleaners
      BY <1>6, Sorts DEF Crash
    <2>2. TypeOK'
      <3>1. /\ conn' \in [Handles -> Inodes \union {Nil}] /\ sconn' \in [Handles -> Inodes \union {Nil}]
            /\ via' \in [Handles -> {"none", "live", "main"}] /\ stray' \in BOOLEAN
        BY <1>1, <2>1 DEF TypeOK
      <3> QED  BY <1>1, <1>2, <1>3, <1>4, <3>1 DEF TypeOK
    <2>3. Others(p) /\ pc'[p] = "idle" /\ HoldOf(p)'
      BY <1>2, <1>3, <2>1 DEF Others
    <2>4. CleanerPlace(p)'
      BY <2>3 DEF CleanerPlace
    <2> QED  BY <1>2, <1>6, <2>1, <2>2, <2>3, <2>4, QuietStep
  <1> QED  BY <1>5, <1>6

-----------------------------------------------------------------------------
(* clean_old_databases.                                                      *)

\* What the invariant says of one cleaner.
LEMMA OfCleaner ==
    ASSUME StoreInv, NEW c \in Cleaners
    PROVE  CleanerPlace(c) /\ HoldOf(c) /\ c \in Procs /\ c \notin Handles /\ c # None /\ TypeOK
  BY Sorts DEF StoreInv, PlaceInv

LEMMA KeptStep ==
    ASSUME StoreInv, NEW c \in Cleaners, Kept(c),
           UNCHANGED <<lock, disk, job, via, conn, sconn, res, bounds, ghosts>>
    PROVE  StoreInv'
  <1>1. c \in Procs /\ c \notin Handles /\ TypeOK
    BY OfCleaner
  <1>2. /\ To(c, "idle") /\ fd' = [fd EXCEPT ![c] = Nil]
        /\ lockBy' = Freed(c) /\ dir' = FreedDir(c) /\ closeBy' = FreedClose(c)
    BY DEF Kept
  <1>3. TypeOK'
    BY <1>1, <1>2, FreedFacts DEF TypeOK, disk, bounds, ghosts
  <1>4. Others(c) /\ pc'[c] = "idle" /\ HoldOf(c)'
    BY <1>1, <1>2, FreedFacts DEF Others
  <1>5. CleanerPlace(c)'
    BY <1>4 DEF CleanerPlace
  <1> QED  BY <1>1, <1>3, <1>4, <1>5, QuietStep DEF disk, ghosts

LEMMA CleanOpenLockKeeps ==
    ASSUME StoreInv, NEW c \in Cleaners, CleanOpenLock(c)
    PROVE  StoreInv'
  <1>1. CleanerPlace(c) /\ HoldOf(c) /\ c \in Procs /\ c \notin Handles /\ TypeOK /\ Fresh \in Inodes
    BY OfCleaner, FreshIsFree DEF StoreInv, PlaceInv
  <1>2. /\ pc[c] = "idle" /\ pc' = [pc EXCEPT ![c] = "wantlock"]
        /\ lock' = (IF lock = Nil THEN Fresh ELSE lock) /\ fd' = [fd EXCEPT ![c] = lock']
        /\ cleans < MaxCleans /\ cleans' = cleans + 1
        /\ UNCHANGED <<dir, lockBy, closeBy, db, file, side, version, job, via, conn, sconn, res,
                       opens, crashes, torn, stray, swept>>
    BY DEF CleanOpenLock, To, disk, ghosts
  <1>3. lock' \in Inodes /\ lock' # Nil
    BY <1>1, <1>2, Sorts DEF TypeOK
  <1>4. TypeOK'
    BY <1>1, <1>2, <1>3, StoreAssumption DEF TypeOK, Places
  <1>5. Others(c) /\ pc'[c] = "wantlock" /\ fd'[c] = lock'
    BY <1>1, <1>2 DEF TypeOK, Others
  <1>6. CleanerPlace(c)'
    BY <1>5 DEF CleanerPlace
  <1>7. HoldOf(c)'
    BY <1>1, <1>2, <1>3, <1>5 DEF HoldOf, Guarded, Teardown, Sweep
  <1> QED  BY <1>1, <1>2, <1>4, <1>5, <1>6, <1>7, QuietStep

LEMMA TryLocksKeeps ==
    ASSUME StoreInv, NEW c \in Cleaners, TryLocks(c)
    PROVE  StoreInv'
  <1>1. CleanerPlace(c) /\ HoldOf(c) /\ c \in Procs /\ c \notin Handles /\ c # None /\ TypeOK
    BY OfCleaner
  <1>2. UNCHANGED <<lock, disk, job, via, conn, sconn, res, bounds, ghosts>>
    BY DEF TryLocks
  <1>3. CASE Kept(c)
    BY <1>2, <1>3, KeptStep
  <1>4. CASE ~Kept(c) /\ pc[c] = "wantlock"
    <2>1. /\ lockBy[fd[c]] = None /\ lockBy' = [lockBy EXCEPT ![fd[c]] = c]
          /\ pc' = [pc EXCEPT ![c] = "trydir"] /\ UNCHANGED <<dir, closeBy, fd>>
      BY <1>4 DEF TryLocks, To
    <2>2. fd[c] \in Inodes
      BY <1>1, <1>4 DEF HoldOf, TypeOK
    <2>3. TypeOK'
      BY <1>1, <1>2, <2>1, <2>2 DEF TypeOK, Places, disk, bounds, ghosts
    <2>4. Others(c) /\ pc'[c] = "trydir" /\ \A i \in Inodes : lockBy'[i] = c => i = fd[c]
      BY <1>1, <1>2, <2>1, <2>2, Sorts DEF TypeOK, Others, HoldOf
    <2>5. CleanerPlace(c)'
      BY <2>4 DEF CleanerPlace
    <2>6. HoldOf(c)'
      BY <1>1, <1>4, <2>1, <2>4 DEF HoldOf, Guarded, Teardown, Sweep
    <2> QED  BY <1>1, <1>2, <2>3, <2>4, <2>5, <2>6, QuietStep DEF disk, ghosts
  <1>5. CASE ~Kept(c) /\ pc[c] = "trydir"
    <2>1. /\ dir = None /\ dir' = c
          /\ pc' = [pc EXCEPT ![c] = "tryclose"] /\ UNCHANGED <<lockBy, closeBy, fd>>
      BY <1>5 DEF TryLocks, To
    <2>2. TypeOK'
      BY <1>1, <1>2, <2>1 DEF TypeOK, Places, disk, bounds, ghosts
    <2>3. Others(c) /\ pc'[c] = "tryclose"
      BY <1>1, <1>2, <2>1, Sorts DEF TypeOK, Others
    <2>4. CleanerPlace(c)'
      BY <2>3 DEF CleanerPlace, Sweep
    <2>5. HoldOf(c)'
      BY <1>1, <1>5, <2>1, <2>3 DEF HoldOf, Guarded, Teardown, Sweep
    <2> QED  BY <1>1, <1>2, <2>2, <2>3, <2>4, <2>5, QuietStep DEF disk, ghosts
  <1>6. CASE ~Kept(c) /\ pc[c] = "tryclose"
    <2>1. /\ closeBy = None /\ closeBy' = c
          /\ pc' = [pc EXCEPT ![c] = "db"] /\ UNCHANGED <<lockBy, dir, fd>>
      BY <1>6 DEF TryLocks, To
    <2>2. TypeOK'
      BY <1>1, <1>2, <2>1 DEF TypeOK, Places, disk, bounds, ghosts
    <2>3. Others(c) /\ pc'[c] = "db"
      BY <1>1, <1>2, <2>1, Sorts DEF TypeOK, Others
    <2>4. CleanerPlace(c)'
      BY <2>3 DEF CleanerPlace, Sweep
    <2>5. HoldOf(c)'
      BY <1>1, <1>6, <2>1, <2>3 DEF HoldOf, Guarded, Teardown, Sweep
    <2> QED  BY <1>1, <1>2, <2>2, <2>3, <2>4, <2>5, QuietStep DEF disk, ghosts
  <1> QED  BY <1>3, <1>4, <1>5, <1>6 DEF TryLocks

\* Clean holds the directory while it unlinks: no handle reads or tears down then.
LEMMA SweptAlone ==
    ASSUME StoreInv, ~stray, ~swept, NEW c \in Cleaners, pc[c] \in {"db", "side", "lock"},
           NEW q \in Handles
    PROVE  pc[q] \notin {"inspect", "recheck", "shm", "wal"} /\ res[q] # "unreadable"
  <1>1. HoldOf(c) /\ c \notin Handles
    BY OfCleaner
  <1>2. SidesOf(q) /\ HoldOf(q)
    BY OfHandle
  <1> QED  BY <1>1, <1>2 DEF SidesOf, HoldOf, Guarded, Sweep

\* The invariant's parts that an unlink cannot disturb.
LEMMA UnlinkStep ==
    ASSUME StoreInv, NEW c \in Cleaners, Unlink(c)
    PROVE  /\ TypeOK' /\ PlaceInv' /\ LastCloseInv' /\ FileInv' /\ GuardedStays'
           /\ Others(c) /\ pc[c] \in {"db", "side", "lock"}
           /\ \A q \in Handles : pc'[q] = pc[q]
  <1>1. CleanerPlace(c) /\ HoldOf(c) /\ c \in Procs /\ c \notin Handles /\ c # None /\ TypeOK
    BY OfCleaner
  <1>2. UNCHANGED <<dir, lockBy, closeBy, file, version, job, fd, via, conn, sconn, res, bounds,
                    torn, stray>>
    BY DEF Unlink
  <1>3. /\ pc[c] \in {"db", "side", "lock"}
        /\ \E s \in {"side", "lock", "release"} : pc' = [pc EXCEPT ![c] = s]
        /\ db' \in {db, Nil} /\ lock' \in {lock, Nil} /\ side' \in {side, NoSide}
        /\ swept' \in BOOLEAN
    BY <1>1 DEF Unlink, To, TypeOK
  <1>4. side' \in [wal : {"none", "header", "frames"}, shm : BOOLEAN]
    <2>1. CASE side' = side
      BY <1>1, <2>1 DEF TypeOK
    <2>2. CASE side' = NoSide
      BY <2>2 DEF NoSide
    <2> QED  BY <1>3, <2>1, <2>2
  <1>5. pc' \in [Procs -> Places] /\ pc'[c] \in {"side", "lock", "release"}
        /\ \A q \in Procs \ {c} : pc'[q] = pc[q]
    BY <1>1, <1>3 DEF TypeOK, Places
  <1>6. TypeOK'
    BY <1>1, <1>2, <1>3, <1>4, <1>5 DEF TypeOK, bounds
  <1>7. Others(c) /\ \A q \in Handles : pc'[q] = pc[q]
    BY <1>1, <1>2, <1>5, Sorts DEF Others
  <1>8. CleanerPlace(c)'
    BY <1>5 DEF CleanerPlace, Sweep
  <1>9. HoldOf(c)'
    BY <1>1, <1>2, <1>3, <1>5 DEF HoldOf, Guarded, Teardown, Sweep
  <1>10. PlaceInv'
    BY <1>1, <1>7, <1>8, <1>9, PlaceStep DEF StoreInv
  <1>11. LastCloseInv'
    BY <1>1, <1>7, LastCloseStep DEF StoreInv
  <1>12. FileInv' /\ GuardedStays'
    BY <1>1, <1>2, <1>3 DEF StoreInv, FileInv, GuardedStays, HoldOf, Sweep
  <1> QED  BY <1>3, <1>6, <1>7, <1>10, <1>11, <1>12

\* Each file that goes, and what stood on it.
LEMMA UnlinkKeeps ==
    ASSUME StoreInv, NEW c \in Cleaners, Unlink(c)
    PROVE  StoreInv'
  <1>1. /\ TypeOK' /\ PlaceInv' /\ LastCloseInv' /\ FileInv' /\ GuardedStays'
        /\ Others(c) /\ pc[c] \in {"db", "side", "lock"}
        /\ \A q \in Handles : pc'[q] = pc[q]
    BY UnlinkStep
  <1>2. UNCHANGED <<dir, file, version, job, fd, via, conn, sconn, res, torn, stray>>
    BY DEF Unlink
  <1>3. swept => swept'
    BY DEF Unlink
  <1>4. ASSUME ~swept', NEW q \in Handles
        PROVE  StandOf(q)' /\ (conn[q] # Nil => UNCHANGED <<db, side>>)
    <2>1. StandOf(q) /\ HandlePlace(q)
      BY <1>3, <1>4, OfHandle
    <2>2. pc'[q] = pc[q]
      BY <1>1
    <2>3. CASE pc[c] = "db"
      <3>1. db' = Nil /\ lock' = lock /\ side' = side /\ (db = Nil \/ pc[q] = "idle")
        BY <1>4, <2>3 DEF Unlink
      <3>2. CASE db = Nil
        BY <1>2, <2>1, <2>2, <3>1, <3>2 DEF StandOf, Syncing
      <3>3. CASE pc[q] = "idle"
        BY <1>2, <2>1, <2>2, <3>1, <3>3 DEF StandOf, HandlePlace, Syncing, Teardown, AtLock
      <3> QED  BY <3>1, <3>2, <3>3
    <2>4. CASE pc[c] # "db"
      <3>1. db' = db /\ db = Nil
        BY <1>1, <1>3, <1>4, <2>4 DEF Unlink, StoreInv, StandInv
      <3>2. conn[q] = Nil /\ ~Syncing(q)
        BY <2>1, <3>1 DEF StandOf
      <3>3. ~(pc[q] \in {"wantlock", "write"} /\ job[q] = "sync")
        BY <3>2 DEF Syncing, AtLock
      <3> QED  BY <1>2, <2>1, <2>2, <3>1, <3>2, <3>3 DEF StandOf, Syncing
    <2> QED  BY <2>3, <2>4
  <1>5. StandInv'
    <2>1. ASSUME ~swept', NEW d \in Cleaners, pc'[d] \in {"side", "lock", "release"} PROVE db' = Nil
      <3>1. CASE pc[c] = "db"
        BY <3>1 DEF Unlink
      <3>2. CASE pc[c] # "db"
        BY <1>1, <1>3, <2>1, <3>2 DEF Unlink, StoreInv, StandInv
      <3> QED  BY <3>1, <3>2
    <2> QED  BY <1>4, <2>1 DEF StandInv
  <1>6. SidesInv'
    <2> SUFFICES ASSUME ~stray, ~swept'
                 PROVE  /\ \A q \in Handles : SidesOf(q)'
                        /\ side'.wal # "none" <=> side'.shm
                        /\ torn = {}
      BY <1>2 DEF SidesInv
    <2>1. ASSUME NEW q \in Handles
          PROVE  pc[q] \notin {"inspect", "recheck", "shm", "wal"} /\ res[q] # "unreadable"
      BY <1>1, <1>3, SweptAlone
    <2>2. ASSUME NEW q \in Handles PROVE SidesOf(q)'
      <3>1. SidesOf(q)
        BY <1>3, OfHandle
      <3>2. conn[q] # Nil => UNCHANGED <<db, side>>
        BY <1>4
      <3> QED  BY <1>1, <1>2, <2>1, <3>1, <3>2 DEF SidesOf
    <2>3. side.wal # "none" <=> side.shm
      BY <1>3, <2>1 DEF StoreInv, SidesInv
    <2>4. side' \in {side, NoSide} /\ NoSide.wal = "none" /\ ~NoSide.shm
      BY DEF Unlink, NoSide
    <2> QED  BY <1>3, <2>2, <2>3, <2>4 DEF StoreInv, SidesInv
  <1> QED  BY <1>1, <1>5, <1>6 DEF StoreInv

LEMMA CleanReleaseKeeps ==
    ASSUME StoreInv, NEW c \in Cleaners, CleanRelease(c)
    PROVE  StoreInv'
  BY KeptStep DEF CleanRelease

-----------------------------------------------------------------------------
(* The invariant, and the properties it implies.                             *)

LEMMA StoreInvInit ==
    ASSUME Init
    PROVE  StoreInv
  <1>1. PICK i \in Inodes, s \in {0} \union {version[p] : p \in Handles} :
           \/ db = Nil /\ s = 0 /\ file = [x \in Inodes |-> Empty]
           \/ /\ db = i
              /\ file = [x \in Inodes |-> IF x = i THEN [Empty EXCEPT !.schema = s, !.wal = s # 0]
                                                   ELSE Empty]
    BY DEF Init
  <1>2. s \in Nat
    BY StoreAssumption DEF Init
  <1> DEFINE w == s # 0
             F == [Empty EXCEPT !.schema = s, !.wal = w]
  <1>3. /\ F \in [schema : Nat, wal : BOOLEAN] /\ (F.wal <=> F.schema # 0)
        /\ Empty \in [schema : Nat, wal : BOOLEAN] /\ (Empty.wal <=> Empty.schema # 0)
    <2>1. Empty \in [schema : Nat, wal : BOOLEAN] /\ Empty.schema = 0 /\ Empty.wal = FALSE
      BY DEF Empty
    <2>2. w \in BOOLEAN
      OBVIOUS
    <2> HIDE DEF w
    <2>3. F \in [schema : Nat, wal : BOOLEAN] /\ F.schema = s /\ F.wal = w
      BY <1>2, <2>1, <2>2
    <2> QED  BY <2>1, <2>3 DEF w
  <1>4. /\ file \in [Inodes -> [schema : Nat, wal : BOOLEAN]] /\ db \in Inodes \union {Nil}
        /\ FileInv
    <2>1. CASE db = Nil /\ file = [x \in Inodes |-> Empty]
      BY <1>3, <2>1 DEF FileInv
    <2>2. CASE db = i /\ file = [x \in Inodes |-> IF x = i THEN F ELSE Empty]
      <3> HIDE DEF F
      <3> QED  BY <1>3, <2>2 DEF FileInv
    <2> QED  BY <1>1, <2>1, <2>2
  <1>5. TypeOK
    <2>1. /\ lockBy \in [Inodes -> Procs \union {None}] /\ pc \in [Procs -> Places]
          /\ fd \in [Procs -> Inodes \union {Nil}]
          /\ job \in [Handles -> {"open", "sync", "drop", "fail"}]
          /\ via \in [Handles -> {"none", "live", "main"}]
          /\ conn \in [Handles -> Inodes \union {Nil}] /\ sconn \in [Handles -> Inodes \union {Nil}]
          /\ res \in [Handles -> Results]
      BY DEF Init, Places, Results
    <2>2. side \in [wal : {"none", "header", "frames"}, shm : BOOLEAN]
      BY DEF Init, NoSide
    <2>3. opens \in 0 .. MaxOpens /\ cleans \in 0 .. MaxCleans /\ crashes \in 0 .. MaxCrashes
      BY StoreAssumption DEF Init
    <2> QED  BY <1>4, <2>1, <2>2, <2>3 DEF Init, TypeOK
  <1>6. /\ dir = None /\ closeBy = None /\ lock = Nil /\ torn = {}
        /\ \A j \in Inodes : lockBy[j] = None
        /\ \A p \in Procs : pc[p] = "idle" /\ fd[p] = Nil
        /\ \A p \in Handles : conn[p] = Nil /\ sconn[p] = Nil /\ res[p] = "none"
        /\ side.wal = "none" /\ ~side.shm
    BY DEF Init, NoSide
  <1>7. PlaceInv
    <2>1. ASSUME NEW c \in Cleaners PROVE CleanerPlace(c)
      BY <1>6, Sorts DEF CleanerPlace
    <2>2. ASSUME NEW p \in Handles PROVE HandlePlace(p)
      BY <1>6, Sorts DEF HandlePlace, Syncing, Opening, Guarded, Teardown, AtLock
    <2>3. ASSUME NEW p \in Procs PROVE HoldOf(p)
      BY <1>6, Sorts DEF HoldOf, Guarded, Teardown, Sweep
    <2> QED  BY <2>1, <2>2, <2>3 DEF PlaceInv
  <1>8. LastCloseInv /\ GuardedStays
    BY <1>6, Sorts DEF LastCloseInv, GuardedStays, Teardown
  <1>9. StandInv
    <2>1. ASSUME NEW p \in Handles PROVE StandOf(p)
      BY <1>6, Sorts DEF StandOf, Syncing, Teardown, AtLock
    <2> QED  BY <1>6, <2>1, Sorts DEF StandInv
  <1>10. SidesInv
    <2>1. ASSUME NEW p \in Handles PROVE SidesOf(p)
      BY <1>6, Sorts DEF SidesOf
    <2> QED  BY <1>6, <2>1 DEF SidesInv
  <1> QED  BY <1>4, <1>5, <1>7, <1>8, <1>9, <1>10 DEF StoreInv

LEMMA StoreInvStep ==
    ASSUME StoreInv, [Next]_vars
    PROVE  StoreInv'
  <1>1. ASSUME NEW p \in Handles, BeginOpen(p) \/ DropHandle(p) \/ StartSync(p) \/ Step(p)
        PROVE  StoreInv'
    <2>1. CASE BeginOpen(p) \/ DropHandle(p) \/ StartSync(p)
      BY <2>1, BeginOpenKeeps, DropHandleKeeps, StartSyncKeeps
    <2>2. CASE \/ Precheck(p) \/ Inspect(p) \/ CheckHeader(p) \/ OpenLockFile(p)
               \/ TakeSetupLock(p) \/ Observe(p) \/ Recheck(p) \/ CreateFile(p) \/ Initialize(p)
      BY <2>2, PrecheckKeeps, InspectKeeps, CheckHeaderKeeps, OpenLockFileKeeps,
         TakeSetupLockKeeps, ObserveKeeps, RecheckKeeps, CreateFileKeeps, InitializeKeeps
    <2>3. CASE \/ Close(p) \/ Checkpoint(p) \/ UnlinkShm(p) \/ UnlinkWal(p) \/ OpenWriter(p)
               \/ ObserveDrop(p) \/ TakeSyncLock(p) \/ SyncWrite(p) \/ Timeout(p) \/ Busy(p)
      BY <2>3, CloseKeeps, CheckpointKeeps, UnlinkShmKeeps, UnlinkWalKeeps, OpenWriterKeeps,
         ObserveDropKeeps, TakeSyncLockKeeps, SyncWriteKeeps, TimeoutKeeps, BusyKeeps
    <2> QED  BY <1>1, <2>1, <2>2, <2>3 DEF Step
  <1>2. ASSUME NEW c \in Cleaners, CleanOpenLock(c) \/ CleanStep(c)
        PROVE  StoreInv'
    BY <1>2, CleanOpenLockKeeps, TryLocksKeeps, UnlinkKeeps, CleanReleaseKeeps DEF CleanStep
  <1>3. ASSUME NEW p \in Procs, Crash(p) PROVE StoreInv'
    BY <1>3, CrashKeeps
  <1>4. CASE UNCHANGED vars
    BY <1>4 DEF vars, locks, disk, bounds, ghosts, StoreInv, TypeOK, PlaceInv, CleanerPlace,
                HandlePlace, HoldOf, Syncing, LastCloseInv, AloneAt, Target, FileInv, GuardedStays,
                StandInv, StandOf, SidesInv, SidesOf
  <1> QED  BY <1>1, <1>2, <1>3, <1>4 DEF Next

\* Every index store of orbit-graph keeps the inductive invariant, whatever the number of
\* handles and cleaners and wherever opens, syncs, closes, cleans and crashes interleave.
THEOREM StoreInvHolds == Spec => []StoreInv
  <1>1. Init => StoreInv
    BY StoreInvInit
  <1>2. StoreInv /\ [Next]_vars => StoreInv'
    BY StoreInvStep
  <1> QED  BY <1>1, <1>2, PTL DEF Spec

\* The identity check of an open (inspect_identity under the observation lock) never runs
\* over a checkpoint of the main file it reads alone and never meets half of the sidecars,
\* for any number of processes, unless a close gave up on the lock, a crash cut a teardown
\* or clean took the database away.
THEOREM IdentitiesReadWhole == Spec => []IdentityReadsAreWhole
  <1>1. StoreInv => IdentityReadsAreWhole
    BY DEF StoreInv, SidesInv, SidesOf, IdentityReadsAreWhole
  <1> QED  BY <1>1, StoreInvHolds, PTL

\* The holder of the directory waits for nobody, and the holder of a lock file at most
\* for the directory.
LEMMA HoldersRun ==
    ASSUME StoreInv
    PROVE  /\ CloseLockUncontended
           /\ dir \in Procs => WaitsFor(dir) = {}
           /\ \A i \in Inodes : lockBy[i] \in Procs => WaitsFor(lockBy[i]) \subseteq {dir}
  <1>1. ASSUME NEW p \in Procs, pc[p] = "close" PROVE closeBy = None
    <2> SUFFICES ASSUME closeBy \in Procs PROVE FALSE
      BY DEF StoreInv, TypeOK
    <2>1. HoldOf(p) /\ HoldOf(closeBy)
      BY DEF StoreInv, PlaceInv
    <2>2. dir = p /\ dir = closeBy /\ pc[closeBy] \in Teardown \union Sweep
      BY <1>1, <2>1 DEF HoldOf, Guarded
    <2> QED  BY <1>1, <2>2 DEF Teardown, Sweep
  <1>2. CloseLockUncontended
    BY <1>1, Sorts DEF CloseLockUncontended
  <1>3. ASSUME dir \in Procs PROVE WaitsFor(dir) = {}
    <2>1. pc[dir] \in Guarded \union Teardown \union Sweep
      BY <1>3 DEF StoreInv, PlaceInv, HoldOf
    <2>2. pc[dir] = "close" => {closeBy} \ {None} = {}
      BY <1>1, <1>3
    <2> QED  BY <2>1, <2>2 DEF WaitsFor, Guarded, Teardown, Sweep
  <1>4. ASSUME NEW i \in Inodes, lockBy[i] \in Procs PROVE WaitsFor(lockBy[i]) \subseteq {dir}
    <2> DEFINE q == lockBy[i]
    <2>1. pc[q] \in {"observe", "write", "trydir"} \union Guarded \union Teardown \union Sweep
      BY <1>4 DEF StoreInv, PlaceInv, HoldOf
    <2>2. pc[q] = "close" => {closeBy} \ {None} = {}
      BY <1>1, <1>4
    <2> HIDE DEF q
    <2>3. WaitsFor(q) \subseteq {dir}
      BY <2>1, <2>2 DEF WaitsFor, Guarded, Teardown, Sweep
    <2> QED  BY <2>3 DEF q
  <1> QED  BY <1>2, <1>3, <1>4

\* A database is used under its own schema and by one sync at a time, stays at its path
\* while an opener or a closer works on it, and its locks are waited for in one order, for
\* any number of handles and cleaners.
THEOREM StoreStaysGuarded == Spec => []StoreIsGuarded
  <1>1. ASSUME StoreInv PROVE OwnSchemaOnly
    <2> SUFFICES ASSUME ~swept, NEW p \in Handles
                 PROVE  /\ pc[p] = "ready" => conn[p] = db /\ file[db].schema = version[p]
                        /\ sconn[p] # Nil => sconn[p] = conn[p]
      BY DEF OwnSchemaOnly
    <2>1. StandOf(p) /\ HandlePlace(p)
      BY <1>1, OfHandle
    <2> QED  BY <2>1 DEF StandOf, HandlePlace
  <1>2. ASSUME StoreInv PROVE SyncsExclude
    <2> SUFFICES ASSUME ~swept, NEW p \in Handles, NEW q \in Handles, p # q,
                        sconn[p] # Nil, sconn[q] # Nil
                 PROVE  FALSE
      BY DEF SyncsExclude
    <2>1. ASSUME NEW r \in Handles, sconn[r] # Nil PROVE lockBy[lock] = r
      <3>1. StandOf(r) /\ HandlePlace(r) /\ HoldOf(r)
        BY <1>2, OfHandle
      <3>2. pc[r] = "write" /\ job[r] = "sync"
        BY <2>1, <3>1 DEF StandOf, HandlePlace
      <3> QED  BY <3>1, <3>2 DEF StandOf, HoldOf
    <2> QED  BY <2>1
  <1>3. ASSUME StoreInv PROVE NoWaitCycle
    <2> SUFFICES ASSUME NEW p \in Procs, NEW q \in WaitsFor(p), NEW r \in WaitsFor(q)
                 PROVE  WaitsFor(r) = {}
      BY DEF NoWaitCycle
    <2>1. TypeOK /\ HoldOf(p) /\ (pc[p] = "close" => p \in Handles)
      BY <1>3, Sorts DEF StoreInv, PlaceInv, CleanerPlace, Sweep
    <2>2. CASE pc[p] = "wantlock" /\ p \in Handles
      <3>1. fd[p] \in Inodes /\ q = lockBy[fd[p]] /\ q \in Procs
        BY <2>1, <2>2 DEF WaitsFor, HoldOf, TypeOK
      <3>2. r = dir
        BY <1>3, <3>1, HoldersRun
      <3>3. dir \in Procs \/ dir = None
        BY <2>1 DEF TypeOK
      <3>4. r # None
        BY <3>1 DEF WaitsFor
      <3> QED  BY <1>3, <3>2, <3>3, <3>4, HoldersRun
    <2>3. CASE pc[p] \in {"precheck", "observe", "opened", "drop"}
      <3>1. q = dir /\ q \in Procs
        BY <2>1, <2>3 DEF WaitsFor, TypeOK
      <3> QED  BY <1>3, <3>1, HoldersRun
    <2>4. CASE pc[p] = "close"
      BY <1>3, <2>1, <2>4, HoldersRun DEF WaitsFor, CloseLockUncontended
    <2> QED  BY <2>2, <2>3, <2>4 DEF WaitsFor
  <1>4. StoreInv => StoreIsGuarded
    BY <1>1, <1>2, <1>3, HoldersRun DEF StoreIsGuarded, StoreInv
  <1> QED  BY <1>4, StoreInvHolds, PTL

=============================================================================
