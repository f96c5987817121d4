------------------------ MODULE CoalescedSyncProofs ------------------------
(* Proofs about CoalescedSync for every number of threads and edits.         *)
EXTENDS CoalescedSync, FiniteSetTheorems, TLAPS

\* What the calls return: errors are told from reports and from no result.
LEMMA ResultKinds ==
    /\ NoResult \notin Results
    /\ {Failure, Panicked, TimedOut} \subseteq Results
    /\ \A m \in Modes : Report(m) \in Results
    /\ Failure.kind # "ok" /\ Panicked.kind # "ok" /\ TimedOut.kind # "ok" /\ NoResult.kind # "ok"
  BY DEF NoResult, Results, Failure, Panicked, TimedOut, Report

\* A thread that is about to call leaves an entry for itself: there are as many
\* entries as threads, and it holds none.
LEMMA EntryIsFree ==
    ASSUME SyncTypeOK, EntriesHeld, NEW t \in Threads, pc[t] = "idle"
    PROVE  FreeEntry \in Entries /\ \A u \in Threads : entry[u] # FreeEntry
  <1> DEFINE n == Cardinality(Threads)
             others == Threads \ {t}
  <1>1. n \in Nat /\ IsFiniteSet(others) /\ Cardinality(others) = n - 1
    BY CoalescedAssumption, FS_CardinalityType, FS_RemoveElement
  <1>2. IsFiniteSet(Entries) /\ Cardinality(Entries) = n
    <2>1. IsFiniteSet(1 .. n) /\ Cardinality(1 .. n) = IF 1 > n THEN 0 ELSE n - 1 + 1
      BY SMTT(30), <1>1, FS_Interval
    <2> QED  BY <1>1, <2>1 DEF Entries
  <1>3. entry[t] = NoEntry /\ NoEntry \notin Entries
    BY <1>1 DEF EntriesHeld, Leading, Running, NoEntry, Entries
  <1>4. \E e \in Entries : \A u \in Threads : entry[u] # e
    <2> SUFFICES ASSUME \A e \in Entries : \E u \in Threads : entry[u] = e
                 PROVE  FALSE
      OBVIOUS
    <2> DEFINE f == [e \in Entries |-> CHOOSE u \in others : entry[u] = e]
    <2>1. \A e \in Entries : f[e] \in others /\ entry[f[e]] = e
      BY <1>3
    <2>2. f \in [Entries -> others]
      BY <2>1
    <2>3. Cardinality(others) < Cardinality(Entries)
      BY <1>1, <1>2
    <2> HIDE DEF f, others, n
    <2>4. \E x, y \in Entries : x # y /\ f[x] = f[y]
      BY <1>1, <1>2, <2>2, <2>3, FS_PigeonHole
    <2> QED  BY <2>1, <2>4
  <1> QED  BY <1>4 DEF FreeEntry

LEMMA SyncInvInit == SyncInit => SyncInv
  <1> SUFFICES ASSUME SyncInit PROVE SyncInv
    OBVIOUS
  <1> USE CoalescedAssumption DEF SyncInit
  <1>1. SyncTypeOK
    BY DEF SyncTypeOK
  <1>2. LockHeld /\ EntriesHeld
    BY DEF LockHeld, EntriesHeld, Leading, Running
  <1>3. ResultsSet /\ RunsAreFresh
    BY ResultKinds DEF ResultsSet, RunsAreFresh
  <1> QED  BY <1>1, <1>2, <1>3 DEF SyncInv

-----------------------------------------------------------------------------
(* One lemma per step.                                                       *)

LEMMA EnvironmentSteps ==
    ASSUME SyncInv, Edit \/ OtherLocks \/ OtherUnlocks
    PROVE  SyncInv'
  <1> USE CoalescedAssumption DEF SyncInv, coalescing, calls
  <1>1. CASE Edit
    <2>1. SyncTypeOK'
      BY <1>1 DEF Edit, SyncTypeOK
    <2>2. RunsAreFresh'
      BY <1>1 DEF Edit, SyncTypeOK, RunsAreFresh
    <2> QED
      BY <1>1, <2>1, <2>2 DEF Edit, LockHeld, EntriesHeld, ResultsSet, Leading, Running
  <1>2. CASE OtherLocks \/ OtherUnlocks
    BY <1>2 DEF OtherLocks, OtherUnlocks, SyncTypeOK, LockHeld, EntriesHeld, ResultsSet,
                RunsAreFresh, Leading, Running
  <1> QED  BY <1>1, <1>2

LEMMA CallStep ==
    ASSUME SyncInv, NEW t \in Threads, NEW m \in Modes, Call(t, m)
    PROVE  SyncInv'
  <1> USE CoalescedAssumption DEF SyncInv, Call, Joins
  <1>1. FreeEntry \in Entries /\ \A u \in Threads : entry[u] # FreeEntry
    BY EntryIsFree
  <1>2. FreeEntry # NoEntry
    BY <1>1 DEF SyncTypeOK, Entries, NoEntry
  <1>3. SyncTypeOK'
    BY <1>1 DEF SyncTypeOK
  <1>4. LockHeld'
    BY DEF SyncTypeOK, LockHeld
  <1>5. EntriesHeld'
    BY <1>1, <1>2 DEF SyncTypeOK, EntriesHeld, Leading, Running
  <1>6. ResultsSet'
    <2> USE DEF EntriesHeld, Leading, Running
    <2>1. entry[t] = NoEntry /\ NoEntry \notin Entries /\ slot' = slot
      BY CoalescedAssumption, FS_CardinalityType DEF NoEntry, Entries
    <2>2. \A u \in Threads : u # t => entry'[u] = entry[u] /\ pc'[u] = pc[u]
      BY DEF SyncTypeOK
    <2>3. \A e \in Entries : slot'[e] # NoResult => \E u \in Threads : entry'[u] = e
      BY <2>1, <2>2 DEF ResultsSet
    <2>4. \A u \in Threads : pc'[u] = "remove" => slot'[entry'[u]] # NoResult
      BY <2>1, <2>2 DEF SyncTypeOK, ResultsSet
    <2>5. \A u \in Threads : pc'[u] = "follow" /\ entry'[u] # inflight' => slot'[entry'[u]] # NoResult
      <3> SUFFICES ASSUME NEW u \in Threads, pc'[u] = "follow", entry'[u] # inflight'
                   PROVE  slot'[entry'[u]] # NoResult
        OBVIOUS
      <3>1. u # t
        BY DEF SyncTypeOK
      <3>2. pc[u] = "follow" /\ entry[u] # NoEntry /\ entry'[u] = entry[u]
        BY <2>2, <3>1
      <3>3. entry[u] # inflight
        BY <3>2
      <3> QED  BY <2>1, <3>2, <3>3 DEF ResultsSet
    <2> QED  BY <2>3, <2>4, <2>5 DEF ResultsSet
  <1>7. RunsAreFresh'
    BY DEF SyncTypeOK, RunsAreFresh
  <1> QED  BY <1>3, <1>4, <1>5, <1>6, <1>7

\* The steps of a run: from the lock file to the result.
LEMMA RunSteps ==
    ASSUME SyncInv, NEW t \in Threads,
           \/ TakeLock(t) \/ LockTimesOut(t) \/ Scan(t) \/ Write(t)
           \/ RunFails(t) \/ RunPanics(t)
    PROVE  SyncInv'
  <1> USE CoalescedAssumption, ResultKinds
      DEF SyncInv, TakeLock, LockTimesOut, Scan, Write, RunFails, RunPanics, Walked,
          AfterPanic, ReadEdits
  <1>1. SyncTypeOK'
    <2>1. CASE TakeLock(t) \/ LockTimesOut(t) \/ RunFails(t) \/ RunPanics(t)
      BY <2>1 DEF SyncTypeOK
    <2>2. CASE Scan(t)
      BY <2>2 DEF SyncTypeOK
    <2>3. CASE Write(t)
      <3>1. indexed' \in 0 .. version
        BY <2>3 DEF SyncTypeOK, RunsAreFresh
      <3> QED  BY <2>3, <3>1 DEF SyncTypeOK
    <2> QED  BY <2>1, <2>2, <2>3
  <1>2. LockHeld'
    BY DEF SyncTypeOK, LockHeld
  <1>3. EntriesHeld'
    BY DEF SyncTypeOK, EntriesHeld, Leading, Running
  <1>4. ResultsSet'
    BY DEF SyncTypeOK, ResultsSet
  <1>5. RunsAreFresh'
    BY DEF SyncTypeOK, RunsAreFresh
  <1> QED  BY <1>1, <1>2, <1>3, <1>4, <1>5

\* The leader's guard: it publishes, sets a failure if nothing was published,
\* and takes the entry out of the map.
LEMMA GuardSteps ==
    ASSUME SyncInv, NEW t \in Threads, Publish(t) \/ DropSets(t)
    PROVE  SyncInv'
  <1> USE CoalescedAssumption, ResultKinds DEF SyncInv, Publish, DropSets, SetResult
  <1>1. entry[t] \in Entries /\ entry[t] = inflight /\ Leading(t)
    BY DEF SyncTypeOK, EntriesHeld, Leading, NoEntry
  <1>2. SyncTypeOK'
    BY DEF SyncTypeOK
  <1>3. LockHeld' /\ RunsAreFresh'
    BY DEF SyncTypeOK, LockHeld, RunsAreFresh
  <1>4. EntriesHeld'
    BY DEF SyncTypeOK, EntriesHeld, Leading, Running
  <1>5. ResultsSet'
    <2>1. \A e \in Entries : slot'[e] # slot[e] => e = entry[t]
      BY DEF SyncTypeOK
    <2>2. \A e \in Entries : slot[e] # NoResult => slot'[e] # NoResult
      BY DEF SyncTypeOK
    <2>3. DropSets(t) => slot'[entry[t]] # NoResult
      BY <1>1 DEF SyncTypeOK
    <2>4. \A u \in Threads : pc'[u] # pc[u] => u = t
      BY DEF SyncTypeOK
    <2>5. \A u \in Threads : pc[u] = "follow" => entry[u] \in Entries
      BY DEF SyncTypeOK, EntriesHeld, NoEntry
    <2>6. \A e \in Entries : slot'[e] # NoResult => \E u \in Threads : entry'[u] = e
      BY <2>1 DEF ResultsSet
    <2>7. \A u \in Threads : pc'[u] = "follow" /\ entry'[u] # inflight' => slot'[entry'[u]] # NoResult
      BY <2>2, <2>5 DEF ResultsSet, SyncTypeOK
    <2>8. \A u \in Threads : pc'[u] = "remove" => slot'[entry'[u]] # NoResult
      <3> SUFFICES ASSUME NEW u \in Threads, pc'[u] = "remove"
                   PROVE  slot'[entry'[u]] # NoResult
        OBVIOUS
      <3>1. CASE u = t
        BY <2>3, <3>1 DEF SyncTypeOK
      <3>2. CASE u # t
        <4>1. pc[u] = "remove" /\ entry'[u] = entry[u]
          BY <2>4, <3>2
        <4>2. u = t
          BY <4>1, <1>1 DEF EntriesHeld, Leading
        <4> QED  BY <4>2, <3>2
      <3> QED  BY <3>1, <3>2
    <2> QED  BY <2>6, <2>7, <2>8 DEF ResultsSet
  <1> QED  BY <1>2, <1>3, <1>4, <1>5

\* A thread lets go of its entry: the entries of the others keep their results.
LEMMA Releasing ==
    ASSUME SyncTypeOK, NEW t \in Threads, entry[t] \in Entries, Release(t)
    PROVE  /\ slot' \in [Entries -> Results \cup {NoResult}]
           /\ entry' \in [Threads -> Entries \cup {NoEntry}]
           /\ entry'[t] = NoEntry
           /\ \A u \in Threads \ {t} : entry'[u] = entry[u] /\ slot'[entry[u]] = slot[entry[u]]
           /\ \A e \in Entries : slot'[e] # NoResult =>
                 slot[e] # NoResult /\ (e = entry[t] => \E u \in Threads \ {t} : entry[u] = e)
  BY DEF SyncTypeOK, Release

LEMMA DropRemovesStep ==
    ASSUME SyncInv, NEW t \in Threads, DropRemoves(t)
    PROVE  SyncInv'
  <1> USE CoalescedAssumption, ResultKinds DEF SyncInv, DropRemoves
  <1>1. entry[t] \in Entries /\ entry[t] = inflight /\ Leading(t)
    BY DEF SyncTypeOK, EntriesHeld, Leading, NoEntry
  <1>2. inflight' = NoEntry
    BY <1>1
  <1>3. \A u \in Threads \ {t} : entry'[u] = entry[u] /\ slot'[entry[u]] = slot[entry[u]] /\ pc'[u] = pc[u]
    BY <1>1, Releasing DEF SyncTypeOK
  <1>4. entry'[t] = NoEntry /\ pc'[t] = "ran"
    BY <1>1, Releasing DEF SyncTypeOK
  <1>5. \A u \in Threads \ {t} : ~Leading(u)
    BY <1>1 DEF EntriesHeld
  <1>6. SyncTypeOK'
    BY <1>1, <1>2, Releasing DEF SyncTypeOK
  <1>7. LockHeld' /\ RunsAreFresh'
    BY DEF SyncTypeOK, LockHeld, RunsAreFresh
  <1>8. \A u \in Threads : ~Leading(u)'
    BY <1>3, <1>4, <1>5 DEF Leading, Running
  <1>9. EntriesHeld'
    BY <1>2, <1>3, <1>4, <1>5, <1>8 DEF EntriesHeld
  <1>10. ResultsSet'
    <2>1. \A e \in Entries : slot'[e] # NoResult => \E u \in Threads : entry'[u] = e
      BY <1>1, <1>3, Releasing DEF ResultsSet
    <2>2. \A u \in Threads : pc'[u] = "follow" => slot'[entry'[u]] # NoResult
      BY <1>1, <1>3, <1>4 DEF ResultsSet
    <2>3. \A u \in Threads : pc'[u] # "remove"
      BY <1>8 DEF Leading
    <2> QED  BY <2>1, <2>2, <2>3 DEF ResultsSet
  <1> QED  BY <1>6, <1>7, <1>9, <1>10

\* A follower stops waiting.
LEMMA FollowerSteps ==
    ASSUME SyncInv, NEW t \in Threads, Share(t) \/ FollowerTimesOut(t)
    PROVE  SyncInv'
  <1> USE CoalescedAssumption, ResultKinds DEF SyncInv, Share, FollowerTimesOut
  <1>1. entry[t] \in Entries /\ pc[t] = "follow"
    BY DEF SyncTypeOK, EntriesHeld, NoEntry
  <1>2. \A u \in Threads \ {t} : entry'[u] = entry[u] /\ slot'[entry[u]] = slot[entry[u]] /\ pc'[u] = pc[u]
    BY <1>1, Releasing DEF SyncTypeOK
  <1>3. entry'[t] = NoEntry /\ pc'[t] = "shared" /\ inflight' = inflight
    BY <1>1, Releasing DEF SyncTypeOK
  <1>4. SyncTypeOK'
    BY <1>1, Releasing DEF SyncTypeOK
  <1>5. LockHeld' /\ RunsAreFresh'
    BY DEF SyncTypeOK, LockHeld, RunsAreFresh
  <1>6. \A u \in Threads : Leading(u)' <=> Leading(u)
    BY <1>1, <1>2, <1>3 DEF Leading, Running
  <1>7. EntriesHeld'
    <2>1. ~Leading(t)
      BY <1>1 DEF Leading, Running
    <2> QED  BY <1>2, <1>3, <1>6, <2>1 DEF EntriesHeld
  <1>8. ResultsSet'
    <2>1. \A e \in Entries : slot'[e] # NoResult => \E u \in Threads : entry'[u] = e
      BY <1>1, <1>2, Releasing DEF ResultsSet
    <2>2. \A u \in Threads : pc'[u] = "follow" /\ entry'[u] # inflight' => slot'[entry'[u]] # NoResult
      BY <1>2, <1>3 DEF ResultsSet
    <2>3. \A u \in Threads : pc'[u] = "remove" => slot'[entry'[u]] # NoResult
      BY <1>2, <1>3 DEF ResultsSet
    <2> QED  BY <2>1, <2>2, <2>3 DEF ResultsSet
  <1> QED  BY <1>4, <1>5, <1>7, <1>8

LEMMA ReturnStep ==
    ASSUME SyncInv, NEW t \in Threads, Return(t)
    PROVE  SyncInv'
  <1> USE CoalescedAssumption, ResultKinds DEF SyncInv, Return
  <1>1. SyncTypeOK'
    BY DEF SyncTypeOK
  <1>2. LockHeld' /\ RunsAreFresh'
    BY DEF SyncTypeOK, LockHeld, RunsAreFresh
  <1>3. EntriesHeld' /\ ResultsSet'
    BY DEF SyncTypeOK, EntriesHeld, ResultsSet, Leading, Running
  <1> QED  BY <1>1, <1>2, <1>3

\* Every step of a thread or of its environment keeps the invariant.
LEMMA SyncInvStep == SyncInv /\ [SyncNext]_syncVars => SyncInv'
  <1> SUFFICES ASSUME SyncInv, [SyncNext]_syncVars
               PROVE  SyncInv'
    OBVIOUS
  <1>1. CASE UNCHANGED syncVars
    BY <1>1 DEF SyncInv, syncVars, coalescing, calls, SyncTypeOK, LockHeld, EntriesHeld,
                ResultsSet, RunsAreFresh, Leading, Running
  <1>2. CASE Edit \/ OtherLocks \/ OtherUnlocks
    BY <1>2, EnvironmentSteps
  <1>3. ASSUME NEW t \in Threads, NEW m \in Modes, Call(t, m)
        PROVE  SyncInv'
    BY <1>3, CallStep
  <1>4. ASSUME NEW t \in Threads, Step(t) \/ Return(t)
        PROVE  SyncInv'
    BY <1>4, RunSteps, GuardSteps, DropRemovesStep, FollowerSteps, ReturnStep DEF Step, Work
  <1> QED  BY <1>1, <1>2, <1>3, <1>4 DEF SyncNext

LEMMA SyncInvAlways == SyncInit /\ [][SyncNext]_syncVars => []SyncInv
  BY SyncInvInit, SyncInvStep, PTL

\* A run holds the entry in the map, and there is one entry: so there is one run,
\* and whoever waits without a result waits for it.
LEMMA SyncInvSuffices == SyncInv => OneLiveRun /\ LeadersAreFresh
  <1> SUFFICES ASSUME SyncInv PROVE OneLiveRun /\ LeadersAreFresh
    OBVIOUS
  <1>1. OneRunAtATime
    BY DEF SyncInv, EntriesHeld, Leading, OneRunAtATime
  <1>2. NoDeadLeader
    BY DEF SyncInv, EntriesHeld, ResultsSet, NoDeadLeader
  <1>3. LeadersAreFresh
    <2> SUFFICES ASSUME NEW t \in Threads, Succeeds(t), pc[t] = "ran"
                 PROVE  indexed >= asked[t]
      BY DEF LeadersAreFresh
    <2> QED  BY DEF SyncInv, SyncTypeOK, RunsAreFresh, Succeeds
  <1> QED  BY <1>1, <1>2, <1>3 DEF SyncInv, OneLiveRun

-----------------------------------------------------------------------------
(* Theorems.                                                                 *)

\* However many threads call and however their leaders fail, panic or time out,
\* one run at a time writes the database and nobody waits on an entry whose
\* leader is gone (coalesced, LeaderGuard).
THEOREM OneLiveRunAlways == SyncSpec => []OneLiveRun
  BY SyncInvAlways, SyncInvSuffices, PTL DEF SyncSpec

\* A caller that led its run and is told of success finds every edit made before
\* its call in the index, for every number of threads and edits (run_once).
THEOREM LeadersStayFresh == SyncSpec => []LeadersAreFresh
  BY SyncInvAlways, SyncInvSuffices, PTL DEF SyncSpec
=============================================================================
