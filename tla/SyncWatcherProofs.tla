------------------------- MODULE SyncWatcherProofs -------------------------
(* Proofs about SyncWatcher for every channel capacity and number of edits.  *)
EXTENDS SyncWatcher, CoalescedSyncProofs

\* What the watcher adds leaves the syncs as CoalescedSync has them: each of its
\* steps is one of their steps or none.
LEMMA WatchStepsSync == [WatchNext]_vars => [SyncNext]_syncVars
  <1> USE CoalescedAssumption, WatcherAssumption
  <1> SUFFICES ASSUME [WatchNext]_vars PROVE [SyncNext]_syncVars
    OBVIOUS
  <1>1. CASE UNCHANGED vars
    BY <1>1 DEF vars
  <1>2. CASE WatchedEdit \/ OtherProcess
    BY <1>2 DEF WatchedEdit, OtherProcess, SyncNext
  <1>3. ASSUME NEW t \in Threads, SyncStep(t) PROVE SyncNext
    BY <1>3 DEF SyncStep, SyncNext
  <1>4. CASE StartSync
    BY <1>4 DEF StartSync, SyncNext
  <1>5. CASE EndSync \/ SyncReturns
    BY <1>5 DEF EndSync, SyncReturns, SyncNext
  <1>6. ASSUME NEW m \in Modes, CallSync(m) PROVE SyncNext
    BY <1>6 DEF CallSync, SyncNext
  <1>7. CASE Touch \/ Overflows \/ (\E e \in Events : Forward(e)) \/ LoopTop \/ DebouncePasses
             \/ Receive \/ Poll \/ StartWatcher \/ StartFails \/ DropHandle \/ JoinOrDetach
    BY <1>7 DEF Touch, Overflows, Forward, LoopTop, DebouncePasses, Receive, Poll, StartWatcher, StartFails,
                DropHandle, JoinOrDetach
  <1> QED  BY <1>1, <1>2, <1>3, <1>4, <1>5, <1>6, <1>7 DEF WatchNext

LEMMA WatchInvInit == WatchInit => WatchInv
  <1> SUFFICES ASSUME WatchInit PROVE WatchInv
    OBVIOUS
  <1>1. SyncInv
    BY SyncInvInit DEF WatchInit
  <1>2. WatchTypeOK
    <2>1. queue \in Seq(Events) /\ Len(queue) <= Capacity
      BY WatcherAssumption DEF WatchInit
    <2>2. {dropped, stop, spoiled} \subseteq BOOLEAN /\ due \in {"none", "waiting", "passed"}
      BY DEF WatchInit
    <2> QED  BY <1>1, <2>1, <2>2 DEF WatchInit, WatchTypeOK, SyncInv
  <1>3. LoopSyncs
    BY WatcherAssumption DEF WatchInit, SyncInit, LoopSyncs
  <1>4. LateIsLast /\ LoopOfHandle
    BY DEF WatchInit, LateIsLast, LoopOfHandle
  <1> QED  BY <1>1, <1>2, <1>3, <1>4 DEF WatchInv

\* A step of a call neither begins nor ends one.
LEMMA StepStaysInCall ==
    ASSUME SyncTypeOK, NEW t \in Threads, Step(t)
    PROVE  \A u \in Threads : pc'[u] = "idle" <=> pc[u] = "idle"
  <1> USE DEF SyncTypeOK
  <1>1. CASE TakeLock(t) \/ LockTimesOut(t) \/ Scan(t)
    BY <1>1 DEF TakeLock, LockTimesOut, Scan
  <1>2. CASE Write(t) \/ RunFails(t) \/ RunPanics(t)
    BY <1>2 DEF Write, RunFails, RunPanics, AfterPanic
  <1>3. CASE Publish(t) \/ DropSets(t) \/ DropRemoves(t)
    BY <1>3 DEF Publish, DropSets, DropRemoves
  <1>4. CASE Share(t) \/ FollowerTimesOut(t)
    BY <1>4 DEF Share, FollowerTimesOut
  <1> QED  BY <1>1, <1>2, <1>3, <1>4 DEF Step, Work

\* An event that is given to the callback leaves the channel within its bound.
LEMMA ForwardKeepsQueue ==
    ASSUME WatchTypeOK, NEW e \in Events, forward_event(e)
    PROVE  queue' \in Seq(Events) /\ Len(queue') <= Capacity /\ dropped' \in BOOLEAN
  <1> USE WatcherAssumption DEF WatchTypeOK
  <1>1. CASE queue' = queue
    BY <1>1 DEF forward_event
  <1>2. CASE Room /\ queue' = Append(queue, e) /\ UNCHANGED dropped
    BY <1>2 DEF Room
  <1> QED  BY <1>1, <1>2 DEF forward_event

\* The events of a step: what is raised, forwarded and received are events.
LEMMA WatchTypes == WatchInv /\ [WatchNext]_vars /\ SyncInv' => WatchTypeOK'
  <1> SUFFICES ASSUME WatchInv, [WatchNext]_vars, SyncInv' PROVE WatchTypeOK'
    OBVIOUS
  <1> USE WatcherAssumption DEF WatchInv, SyncInv, WatchTypeOK
  <1>1. SyncTypeOK'
    OBVIOUS
  <1>2. {Change, SelfRead, StateWrite, Overflow} \subseteq Events
    BY DEF Events
  <1>0. <<>> \in Seq(Events) /\ Len(<<>>) <= Capacity
    OBVIOUS
  <1>3. CASE UNCHANGED vars
    BY <1>1, <1>3 DEF vars, watchVars
  <1>4. CASE WatchedEdit \/ Overflows \/ OtherProcess
    BY <1>1, <1>2, <1>4 DEF WatchedEdit, Overflows, OtherProcess, watchVars
  <1>11. CASE Touch
    <2>1. queue' \in Seq(Events) /\ Len(queue') <= Capacity /\ dropped' \in BOOLEAN
      BY <1>2, <1>11, ForwardKeepsQueue DEF Touch
    <2> QED  BY <1>1, <1>11, <2>1 DEF Touch
  <1>5. ASSUME NEW e \in Events, Forward(e) PROVE WatchTypeOK'
    <2>1. queue' \in Seq(Events) /\ Len(queue') <= Capacity /\ dropped' \in BOOLEAN
      BY <1>5, ForwardKeepsQueue DEF Forward
    <2>2. kernel' \subseteq Events
      BY <1>5 DEF Forward
    <2> QED  BY <1>1, <1>5, <2>1, <2>2 DEF Forward
  <1>6. ASSUME NEW t \in Threads, SyncStep(t) PROVE WatchTypeOK'
    <2>1. UNCHANGED <<queue, dropped>> \/ \E e \in {SelfRead, StateWrite} : forward_event(e)
      BY <1>6 DEF SyncStep
    <2>2. queue' \in Seq(Events) /\ Len(queue') <= Capacity /\ dropped' \in BOOLEAN
      <3>1. CASE UNCHANGED <<queue, dropped>>
        BY <3>1
      <3>2. CASE \E e \in {SelfRead, StateWrite} : forward_event(e)
        BY <1>2, <3>2, ForwardKeepsQueue
      <3> QED  BY <2>1, <3>1, <3>2
    <2> QED  BY <1>1, <1>6, <2>2 DEF SyncStep
  <1>13. ThreadEnds => /\ kernel' = {} /\ queue' \in Seq(Events) /\ Len(queue') <= Capacity
                       /\ dropped' \in BOOLEAN /\ due' = "none" /\ loop' = "exit"
    BY <1>0 DEF ThreadEnds
  <1>7. CASE LoopTop
    <2>1. CASE ThreadEnds
      BY <1>1, <1>7, <1>13, <2>1 DEF LoopTop
    <2>2. CASE loop' = "recv"
      BY <1>1, <1>7, <2>2 DEF LoopTop, ThreadEnds
    <2> QED  BY <1>7, <2>1, <2>2 DEF LoopTop
  <1>14. CASE Receive
    <2>1. Tail(queue) \in Seq(Events) /\ Len(Tail(queue)) <= Capacity
      BY <1>14 DEF Receive
    <2> QED  BY <1>1, <1>14, <2>1 DEF Receive
  <1>15. CASE DebouncePasses \/ Poll
    BY <1>1, <1>15 DEF DebouncePasses, Poll
  <1>8. CASE StartSync
    <2>1. spoiled' \in BOOLEAN /\ late' \in Nat /\ due' = "none"
      BY <1>8 DEF StartSync
    <2> QED  BY <1>1, <1>8, <2>1 DEF StartSync
  <1>12. CASE EndSync
    <2>1. spoiled' \in BOOLEAN
      BY <1>12 DEF EndSync
    <2>2. CASE ThreadEnds
      BY <1>1, <1>12, <1>13, <2>1, <2>2 DEF EndSync
    <2>3. CASE loop' = "top"
      BY <1>1, <1>12, <2>1, <2>3 DEF EndSync, ThreadEnds
    <2> QED  BY <1>12, <2>2, <2>3 DEF EndSync
  <1>9. CASE StartWatcher \/ StartFails \/ SyncReturns \/ DropHandle \/ JoinOrDetach
    BY <1>1, <1>9 DEF StartWatcher, StartFails, SyncReturns, DropHandle, JoinOrDetach
  <1>10. ASSUME NEW m \in Modes, CallSync(m) PROVE WatchTypeOK'
    BY <1>1, <1>10 DEF CallSync
  <1> QED  BY <1>3, <1>4, <1>5, <1>6, <1>7, <1>8, <1>9, <1>10, <1>11, <1>12, <1>14, <1>15 DEF WatchNext

LEMMA LoopSteps ==
    WatchInv /\ [WatchNext]_vars => LoopSyncs' /\ LateIsLast' /\ LoopOfHandle'
  <1> SUFFICES ASSUME WatchInv, [WatchNext]_vars
               PROVE  LoopSyncs' /\ LateIsLast' /\ LoopOfHandle'
    OBVIOUS
  <1> USE WatcherAssumption DEF WatchInv, LoopSyncs, LateIsLast, LoopOfHandle
  <1>1. SyncTypeOK /\ WatchTypeOK
    BY DEF WatchTypeOK
  <1>2. CASE UNCHANGED vars
    BY <1>2 DEF vars, watchVars, syncVars, coalescing, calls
  <1>3. CASE WatchedEdit \/ Touch \/ Overflows \/ OtherProcess
    BY <1>3 DEF WatchedEdit, Touch, Overflows, OtherProcess, watchVars, syncVars, coalescing, calls,
                Edit, OtherLocks, OtherUnlocks
  <1>4. ASSUME NEW e \in Events, Forward(e) PROVE LoopSyncs' /\ LateIsLast' /\ LoopOfHandle'
    BY <1>4 DEF Forward, syncVars, coalescing, calls
  <1>5. ASSUME NEW t \in Threads, SyncStep(t) PROVE LoopSyncs' /\ LateIsLast' /\ LoopOfHandle'
    BY <1>1, <1>5, StepStaysInCall DEF SyncStep
  <1>6. CASE LoopTop \/ DebouncePasses \/ Receive \/ Poll
    BY <1>6 DEF LoopTop, DebouncePasses, Receive, Poll, SeesStop, ThreadEnds, syncVars, coalescing, calls
  <1>7. CASE StartSync
    BY <1>1, <1>7 DEF StartSync, Call, SyncTypeOK
  <1>8. CASE EndSync
    BY <1>1, <1>8 DEF EndSync, ThreadEnds, Return, SyncTypeOK
  <1>9. CASE StartWatcher \/ StartFails \/ DropHandle \/ JoinOrDetach
    BY <1>1, <1>9 DEF StartWatcher, StartFails, DropHandle, JoinOrDetach, ThreadFinished,
                      syncVars, coalescing, calls, WatchTypeOK
  <1>10. CASE SyncReturns
    BY <1>1, <1>10 DEF SyncReturns, Return, SyncTypeOK
  <1>11. ASSUME NEW m \in Modes, CallSync(m) PROVE LoopSyncs' /\ LateIsLast' /\ LoopOfHandle'
    BY <1>1, <1>11 DEF CallSync, Call, SyncTypeOK
  <1> QED
    BY <1>2, <1>3, <1>4, <1>5, <1>6, <1>7, <1>8, <1>9, <1>10, <1>11 DEF WatchNext

LEMMA WatchInvStep == WatchInv /\ [WatchNext]_vars => WatchInv'
  <1> SUFFICES ASSUME WatchInv, [WatchNext]_vars PROVE WatchInv'
    OBVIOUS
  <1>1. SyncInv'
    BY WatchStepsSync, SyncInvStep DEF WatchInv
  <1> QED  BY <1>1, WatchTypes, LoopSteps DEF WatchInv

LEMMA WatchInvAlways == WatchInit /\ [][WatchNext]_vars => []WatchInv
  BY WatchInvInit, WatchInvStep, PTL

\* The threads of a handle with a watcher are two callers of coalesced: whatever
\* the event loop does, their calls behave as CoalescedSync says.
THEOREM WatcherCoalesces == WatchSpec => SyncInit /\ [][SyncNext]_syncVars
  <1>1. WatchInit => SyncInit
    BY DEF WatchInit
  <1> QED  BY <1>1, WatchStepsSync, PTL DEF WatchSpec

\* A dropped handle leaves nothing that writes the index: at most one sync begins
\* after the stop flag, and a joined thread is out of its loop, its run and the
\* lock, for every capacity of the channel (stop_and_join, FinishedGuard).
THEOREM DropsLeaveNothing == WatchSpec => []DropLeavesNothing
  <1>1. WatchInv => DropLeavesNothing
    <2> SUFFICES ASSUME WatchInv PROVE DropLeavesNothing
      OBVIOUS
    <2>1. AtMostOneLateSync
      BY DEF WatchInv, LateIsLast, AtMostOneLateSync
    <2>2. JoinedMeansGone
      BY WatcherAssumption DEF WatchInv, SyncInv, LockHeld, LoopSyncs, LoopOfHandle,
                               JoinedMeansGone, Watching
    <2> QED  BY <2>1, <2>2 DEF WatchInv, DropLeavesNothing
  <1> QED  BY <1>1, WatchInvAlways, PTL DEF WatchSpec
=============================================================================
