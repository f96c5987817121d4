---------------------------- MODULE SyncWatcher ----------------------------
(* The background watcher of one Graph handle, over CoalescedSync: the       *)
(* notify callback, the event loop's thread, and the handle that starts and  *)
(* drops them.                                                               *)
(*                                                                           *)
(*   src/crates/orbit-graph/src/sync/watcher.rs                              *)
(*   src/crates/orbit-graph/src/graph/mod.rs     Graph::from_opened, drop    *)
(*                                                                           *)
(* The handle's own thread syncs at open and may sync later; the watcher's   *)
(* thread syncs when its debounce passes.  Both go through coalesced.        *)
EXTENDS CoalescedSync, Sequences

CONSTANTS
    watcher,    \* the thread of the event loop
    opener,     \* the thread that opens, uses and drops the handle
    Capacity    \* EVENT_CHANNEL_CAPACITY

ASSUME WatcherAssumption ==
    /\ Threads = {watcher, opener} /\ watcher # opener
    /\ Capacity \in Nat \ {0}

VARIABLES
    kernel,     \* notifications the callback has not been given yet
    queue,      \* the channel between the callback and the loop
    dropped,    \* the callback could not queue an event
    due,        \* no sync is scheduled, its debounce runs, or it has passed
    loop,       \* where the event loop is
    stop,       \* the stop flag
    handle,     \* where the Graph handle is
    spoiled,    \* history: a watcher sync joined another's run, or failed
    late        \* history: syncs the loop started after the stop flag was set

watchVars == <<kernel, queue, dropped, due, loop, stop, handle, spoiled, late>>
vars == <<syncVars, watchVars>>

\* What an event says: the backend may have lost some, the path was only read,
\* every path is in an ignored top-level directory.
Event(kind, rescan, access, ignored) ==
    [kind |-> kind, rescan |-> rescan, access |-> access, ignored |-> ignored]
Change == Event("change", FALSE, FALSE, FALSE)
SelfRead == Event("read", FALSE, TRUE, FALSE)
StateWrite == Event("change", FALSE, FALSE, TRUE)
Overflow == Event("other", TRUE, FALSE, FALSE)
Events == {Change, SelfRead, StateWrite, Overflow}

\* Seeded bug: reading a file counts as changing it.
ReadRequiresSync(e) == e.rescan \/ ~e.ignored

\* Seeded bug: the rescan flag is not looked at.
RescanIgnored(e) == ~e.rescan /\ ~e.access /\ ~e.ignored

\* event_requires_sync.
EventRequiresSync(e) == e.rescan \/ (~e.access /\ ~e.ignored)

Watching == loop \in {"top", "recv", "sync"}

WatchInit ==
    /\ SyncInit
    /\ kernel = {}
    /\ queue = <<>>
    /\ dropped = FALSE
    /\ due = "none"
    /\ loop = "off"
    /\ stop = FALSE
    /\ handle = "starting"
    /\ spoiled = FALSE
    /\ late = 0

\* The channel has room.
Room == Len(queue) < Capacity

\* The callback is given an event: what requires no sync goes no further.
forward_event(e) ==
    \/ /\ ~EventRequiresSync(e) \/ ~Watching
       /\ UNCHANGED <<queue, dropped>>
    \/ /\ EventRequiresSync(e) /\ Watching /\ Room
       /\ queue' = Append(queue, e)
       /\ UNCHANGED dropped
    \/ /\ EventRequiresSync(e) /\ Watching /\ ~Room
       /\ dropped' = TRUE
       /\ UNCHANGED queue

-----------------------------------------------------------------------------
\* Environment: a file is replaced, and a notification of it.
WatchedEdit ==
    /\ Edit
    /\ kernel' = IF Watching THEN kernel \cup {Change} ELSE kernel
    /\ UNCHANGED <<queue, dropped, due, loop, stop, handle, spoiled, late>>

\* Environment: a file is written again, with what it had already; nothing
\* bounds how often.
Touch ==
    /\ Watching
    /\ forward_event(Change)
    /\ UNCHANGED <<syncVars, kernel, due, loop, stop, handle, spoiled, late>>

\* Environment: the backend loses notifications and says so.
Overflows ==
    /\ Change \in kernel
    /\ kernel' = (kernel \ {Change}) \cup {Overflow}
    /\ UNCHANGED <<syncVars, queue, dropped, due, loop, stop, handle, spoiled, late>>

\* Environment: another process and the lock file.
OtherProcess ==
    /\ OtherLocks \/ OtherUnlocks
    /\ UNCHANGED watchVars

\* The callback, on the backend's thread, is given what was raised.
Forward(e) ==
    /\ e \in kernel
    /\ kernel' = kernel \ {e}
    /\ forward_event(e)
    /\ UNCHANGED <<syncVars, due, loop, stop, handle, spoiled, late>>

\* A sync's steps.  Its reads and its writes to the database are notified too,
\* and delivered at once: the callback has no use for them, however late.
SyncStep(t) ==
    /\ Step(t)
    /\ CASE pc[t] = "locked" /\ pc'[t] # "drop" -> forward_event(SelfRead)
         [] pc[t] = "scanned" /\ pc'[t] # "drop" -> forward_event(StateWrite)
         [] OTHER -> UNCHANGED <<queue, dropped>>
    /\ UNCHANGED <<kernel, due, loop, stop, handle, spoiled, late>>

-----------------------------------------------------------------------------
(* The event loop.  Every event that requires a sync restarts the debounce,  *)
(* as often as one comes (schedule).                                         *)

SeesStop == stop

\* The thread ends: its watch, its channel and its schedule go with it.
ThreadEnds == loop' = "exit" /\ kernel' = {} /\ queue' = <<>> /\ dropped' = FALSE /\ due' = "none"

\* The loop's condition and the count of dropped events.
LoopTop ==
    /\ loop = "top"
    /\ \/ SeesStop /\ ThreadEnds
       \/ /\ ~SeesStop
          /\ due' = IF dropped THEN "waiting" ELSE due
          /\ dropped' = FALSE
          /\ loop' = "recv"
          /\ UNCHANGED <<kernel, queue>>
    /\ UNCHANGED <<syncVars, stop, handle, spoiled, late>>

\* Time: debounce has gone by since the sync was last scheduled.
DebouncePasses ==
    /\ due = "waiting"
    /\ due' = "passed"
    /\ UNCHANGED <<syncVars, kernel, queue, dropped, loop, stop, handle, spoiled, late>>

\* recv_timeout returns an event, even when the debounce has passed.
Receive ==
    /\ loop = "recv" /\ queue # <<>>
    /\ queue' = Tail(queue)
    /\ due' = IF EventRequiresSync(Head(queue)) THEN "waiting" ELSE due
    /\ loop' = "top"
    /\ UNCHANGED <<syncVars, kernel, dropped, stop, handle, spoiled, late>>

\* recv_timeout returns none, and no sync is due yet.
Poll ==
    /\ loop = "recv" /\ queue = <<>> /\ due # "passed"
    /\ loop' = "top"
    /\ UNCHANGED <<syncVars, kernel, queue, dropped, due, stop, handle, spoiled, late>>

\* recv_timeout returns none and the debounce has passed: run_background_sync.
StartSync ==
    /\ loop = "recv" /\ queue = <<>> /\ due = "passed"
    /\ due' = "none"
    /\ Call(watcher, "auto")
    /\ loop' = "sync"
    /\ spoiled' = (spoiled \/ Joins)
    /\ late' = IF stop THEN late + 1 ELSE late
    /\ UNCHANGED <<kernel, queue, dropped, stop, handle>>

\* The sync returns; its error is only logged.  A panic ends the thread.
EndSync ==
    /\ loop = "sync"
    /\ Return(watcher)
    /\ \/ /\ pc[watcher] = "ran" /\ reply[watcher] = Panicked
          /\ ThreadEnds
       \/ /\ ~(pc[watcher] = "ran" /\ reply[watcher] = Panicked)
          /\ loop' = "top"
          /\ UNCHANGED <<kernel, queue, dropped, due>>
    /\ spoiled' = (spoiled \/ reply[watcher].kind # "ok")
    /\ UNCHANGED <<stop, handle, late>>

-----------------------------------------------------------------------------
(* The handle.                                                              *)

\* SyncWatcher::start: the worktree is watched and the loop runs ...
StartWatcher ==
    /\ handle = "starting"
    /\ loop' = "top"
    /\ handle' = "started"
    /\ UNCHANGED <<syncVars, kernel, queue, dropped, due, stop, spoiled, late>>

\* ... or the backend refuses, or reports too late, and the thread is stopped.
StartFails ==
    /\ MayFail /\ handle = "starting"
    /\ loop' \in {"exit", "top"}
    /\ stop' = TRUE
    /\ handle' = "dropping"
    /\ UNCHANGED <<syncVars, kernel, queue, dropped, due, spoiled, late>>

\* from_opened: the initial sync, and Graph::sync later.
CallSync(m) ==
    /\ \/ handle = "started" /\ m = "auto"
       \/ handle = "open"
    /\ Call(opener, m)
    /\ handle' = IF handle = "started" THEN "opening" ELSE handle
    /\ UNCHANGED <<kernel, queue, dropped, due, loop, stop, spoiled, late>>

\* The sync returns; an initial sync that failed drops the handle.
SyncReturns ==
    /\ Return(opener)
    /\ \/ /\ handle = "opening" /\ reply[opener].kind # "ok"
          /\ handle' = "dropping"
          /\ stop' = TRUE
       \/ /\ handle = "open" \/ reply[opener].kind = "ok"
          /\ handle' = "open"
          /\ UNCHANGED stop
    /\ UNCHANGED <<kernel, queue, dropped, due, loop, spoiled, late>>

\* Seeded bug: the thread is taken to have stopped.
ThreadFinishedAssumed == TRUE

\* The thread's FinishedGuard was dropped.
ThreadFinished == loop = "exit"

\* SyncWatcher::drop: the flag is set, then the thread joined or, after
\* JOIN_TIMEOUT, detached.
DropHandle ==
    /\ handle = "open" /\ pc[opener] = "idle"
    /\ stop' = TRUE
    /\ handle' = "dropping"
    /\ UNCHANGED <<syncVars, kernel, queue, dropped, due, loop, spoiled, late>>

JoinOrDetach ==
    /\ handle = "dropping"
    /\ handle' = IF ThreadFinished THEN "joined" ELSE "detached"
    /\ UNCHANGED <<syncVars, kernel, queue, dropped, due, loop, stop, spoiled, late>>

WatchNext ==
    \/ WatchedEdit
    \/ Touch
    \/ Overflows
    \/ OtherProcess
    \/ \E e \in Events : Forward(e)
    \/ \E t \in Threads : SyncStep(t)
    \/ LoopTop
    \/ DebouncePasses
    \/ Receive
    \/ Poll
    \/ StartSync
    \/ EndSync
    \/ StartWatcher
    \/ StartFails
    \/ \E m \in Modes : CallSync(m)
    \/ SyncReturns
    \/ DropHandle
    \/ JoinOrDetach

\* Threads are scheduled, time passes, the backend delivers what it raised, an
\* open handle finishes opening, no other process keeps the lock for good.
\* Nothing says that the loop ever finds its queue empty after a debounce: a
\* worktree that is written to faster than that keeps the sync from starting.
Fairness ==
    /\ \A t \in Threads : WF_vars(SyncStep(t))
    /\ \A e \in Events : WF_vars(Forward(e))
    /\ WF_vars(LoopTop)
    /\ WF_vars(DebouncePasses)
    /\ WF_vars(Receive)
    /\ WF_vars(Poll)
    /\ WF_vars(StartSync)
    /\ WF_vars(EndSync)
    /\ WF_vars(StartWatcher)
    /\ WF_vars(CallSync("auto") /\ handle = "started")
    /\ WF_vars(SyncReturns)
    /\ WF_vars(OtherProcess /\ lock = Other)

WatchSpec == WatchInit /\ [][WatchNext]_vars /\ Fairness

-----------------------------------------------------------------------------
(* Properties.                                                              *)

\* Every variable holds a value of its kind; the channel keeps its bound.
WatchTypeOK ==
    /\ SyncTypeOK
    /\ kernel \subseteq Events
    /\ queue \in Seq(Events) /\ Len(queue) <= Capacity
    /\ dropped \in BOOLEAN
    /\ due \in {"none", "waiting", "passed"}
    /\ loop \in {"off", "top", "recv", "sync", "exit"}
    /\ stop \in BOOLEAN
    /\ handle \in {"starting", "started", "opening", "open", "dropping",
                   "joined", "detached"}
    /\ spoiled \in BOOLEAN
    /\ late \in Nat

\* The worktree is left alone for good.
ComesToRest == <>[][~Touch]_vars

\* Every change of a worktree that comes to rest reaches the index, however the
\* events of it are filtered, queued, dropped or lost, unless the handle is
\* dropped, one of the watcher's syncs failed or one was answered by a run
\* already under way (event_loop: "once no relevant event has arrived for
\* debounce").
ChangesReachIndexAlone ==
    \A v \in 1 .. MaxEdits :
        ComesToRest => (version >= v /\ Watching ~> indexed >= v \/ spoiled \/ stop)

\* Once the worktree rests, so does the watcher: a sync's own reads and writes
\* schedule no other (event_requires_sync; ORB-13169).
IdleIsQuiet == ComesToRest => <>[](loop # "sync")

\* A thread that was told to stop exits, whatever it waits for and however many
\* events come.
StopIsHeeded == stop ~> loop = "exit"

\* A thread that was told to stop starts at most the one sync whose wait had
\* begun (stop_and_join detaches a thread that "can at most finish a sync").
AtMostOneLateSync == late <= 1

\* Once a drop has joined the thread, nothing of it is left: no run, no lock, no
\* event loop that could start one (stop_and_join, FinishedGuard).
JoinedMeansGone ==
    handle = "joined" => ~Watching /\ pc[watcher] = "idle" /\ lock # watcher

\* The watcher comes to rest: when the worktree does, and when it is told to.
WatcherRests == IdleIsQuiet /\ StopIsHeeded

\* A dropped handle leaves nothing that writes the index, but for the one sync
\* its thread was in or about to start; the channel never outgrows its bound.
DropLeavesNothing == WatchTypeOK /\ AtMostOneLateSync /\ JoinedMeansGone

-----------------------------------------------------------------------------
(* The inductive invariant behind DropLeavesNothing.                        *)

\* The loop waits for a sync exactly while its thread is in a call.
LoopSyncs == loop = "sync" <=> pc[watcher] # "idle"

\* The sync begun after the stop flag was set is the loop's last: it was
\* received for before, and the loop's condition comes next.
LateIsLast == late # 0 => late = 1 /\ stop /\ loop \in {"sync", "top", "exit"}

\* There is no loop before the watcher starts, and a joined thread has left it.
LoopOfHandle ==
    /\ handle = "starting" => loop = "off"
    /\ handle = "joined" => loop = "exit"

WatchInv == SyncInv /\ WatchTypeOK /\ LoopSyncs /\ LateIsLast /\ LoopOfHandle
=============================================================================
