--------------------------- MODULE CoalescedSync ---------------------------
(* Concurrent syncs of one database: the threads of a process share a run,  *)
(* processes exclude each other by the database's lock file.                *)
(*                                                                          *)
(*   src/crates/orbit-graph/src/sync/mod.rs   run, run_once, coalesced,     *)
(*                                            LeaderGuard                   *)
(*   src/crates/orbit-graph/src/lock.rs       FileLockGuard                 *)
(*                                                                          *)
(* What a run does to the index is GraphSync; here the worktree is the      *)
(* number of edits made to it, and the index the number of edits it is      *)
(* known to hold.  Time is left out: a wait may time out whenever it waits. *)
EXTENDS Integers, FiniteSets

CONSTANTS
    Threads,            \* threads of this process that sync the database
    Modes,              \* the SyncModes the calls ask for
    MaxEdits,           \* bound on the edits of the worktree
    MayFail,            \* a run may return an error or panic
    LockContended,      \* another process may hold the database's lock
    FollowersTimeOut    \* a follower may wait longer than its bound

NoOne == "no one"
Other == "another process"

ASSUME CoalescedAssumption ==
    /\ Threads # {} /\ IsFiniteSet(Threads)
    /\ {NoOne, Other} \cap Threads = {}
    /\ "auto" \in Modes /\ Modes \subseteq {"auto", "full"}
    /\ MaxEdits \in Nat
    /\ {MayFail, LockContended, FollowersTimeOut} \subseteq BOOLEAN

VARIABLES
    version,    \* edits of the worktree so far
    indexed,    \* edits the index holds: the first this many, at least
    lock,       \* who holds the lock file
    inflight,   \* the IN_FLIGHT_SYNCS entry of this database
    slot,       \* InFlightSync::result of each entry
    pc,         \* where a thread is in its call
    entry,      \* the entry a thread holds
    asked,      \* edits when the thread's call began
    mode,       \* SyncMode of the thread's call
    seen,       \* edits when the thread's run scanned the worktree
    reply       \* what its call returns

\* Entries are shared pointers: one is free once no thread holds it, and a
\* thread holds at most one.
Entries == 1 .. Cardinality(Threads)
NoEntry == 0

\* What a call returns: the report of a run that was started in a mode, or an
\* error.
NoResult == [kind |-> "none", mode |-> "auto"]
Failure == [kind |-> "failed", mode |-> "auto"]
Panicked == [kind |-> "panicked", mode |-> "auto"]
TimedOut == [kind |-> "timed out", mode |-> "auto"]
Report(m) == [kind |-> "ok", mode |-> m]
Results == {Failure, Panicked, TimedOut} \cup {Report(m) : m \in Modes}

calls == <<pc, entry, asked, mode, seen, reply>>
coalescing == <<lock, inflight, slot, calls>>
syncVars == <<version, indexed, coalescing>>

\* The thread runs the sync its entry stands for.
Running(t) == pc[t] \in {"lead", "locked", "scanned"}

\* The thread's LeaderGuard is alive.
Leading(t) == Running(t) \/ pc[t] \in {"publish", "drop", "remove"}

FreeEntry == CHOOSE e \in Entries : \A t \in Threads : entry[t] # e

SyncInit ==
    /\ version = 0
    /\ indexed = 0
    /\ lock = NoOne
    /\ inflight = NoEntry
    /\ slot = [e \in Entries |-> NoResult]
    /\ pc = [t \in Threads |-> "idle"]
    /\ entry = [t \in Threads |-> NoEntry]
    /\ asked = [t \in Threads |-> 0]
    /\ mode = [t \in Threads |-> "auto"]
    /\ seen = [t \in Threads |-> 0]
    /\ reply = [t \in Threads |-> NoResult]

-----------------------------------------------------------------------------
\* Environment: the worktree changes.
Edit ==
    /\ version < MaxEdits
    /\ version' = version + 1
    /\ UNCHANGED <<indexed, coalescing>>

\* Environment: another process takes and releases the lock file.
OtherLocks ==
    /\ LockContended /\ lock = NoOne
    /\ lock' = Other
    /\ UNCHANGED <<version, indexed, inflight, slot, calls>>

OtherUnlocks ==
    /\ lock = Other
    /\ lock' = NoOne
    /\ UNCHANGED <<version, indexed, inflight, slot, calls>>

\* Seeded bug: the entry is looked up and inserted under two locks.
JoinsNever == FALSE

\* The call finds the database's entry.
Joins == inflight # NoEntry

\* coalesced, up to its first wait: the caller joins the entry or inserts one.
Call(t, m) ==
    /\ pc[t] = "idle"
    /\ asked' = [asked EXCEPT ![t] = version]
    /\ mode' = [mode EXCEPT ![t] = m]
    /\ \/ /\ Joins
          /\ entry' = [entry EXCEPT ![t] = inflight]
          /\ pc' = [pc EXCEPT ![t] = "follow"]
          /\ UNCHANGED <<inflight, slot>>
       \/ /\ ~Joins
          /\ inflight' = FreeEntry
          /\ entry' = [entry EXCEPT ![t] = FreeEntry]
          /\ pc' = [pc EXCEPT ![t] = "lead"]
          /\ UNCHANGED slot
    /\ UNCHANGED <<version, indexed, lock, seen, reply>>

\* run_once: the lock file is taken ...
TakeLock(t) ==
    /\ pc[t] = "lead" /\ lock = NoOne
    /\ lock' = t
    /\ pc' = [pc EXCEPT ![t] = "locked"]
    /\ UNCHANGED <<version, indexed, inflight, slot, entry, asked, mode, seen, reply>>

\* ... or waited for in vain.
LockTimesOut(t) ==
    /\ pc[t] = "lead" /\ lock # NoOne
    /\ pc' = [pc EXCEPT ![t] = "publish"]
    /\ reply' = [reply EXCEPT ![t] = TimedOut]
    /\ UNCHANGED <<version, indexed, lock, inflight, slot, entry, asked, mode, seen>>

\* Seeded bug: an earlier run's walk is used again.
WalkedBefore == indexed

\* The edits the walk sees.
Walked == version

\* run_once: the worktree is scanned.
Scan(t) ==
    /\ pc[t] = "locked"
    /\ seen' = [seen EXCEPT ![t] = Walked]
    /\ pc' = [pc EXCEPT ![t] = "scanned"]
    /\ UNCHANGED <<version, indexed, lock, inflight, slot, entry, asked, mode, reply>>

\* The edits extraction may have read: those of the scan at least.
ReadEdits(t) == seen[t] .. version

\* run_once: both passes are written and the lock is dropped.  Edits made after
\* the scan are indexed too when extraction happens to read them.
Write(t) ==
    /\ pc[t] = "scanned"
    /\ \E v \in ReadEdits(t) :
          indexed' = IF v > indexed THEN v ELSE indexed
    /\ lock' = NoOne
    /\ reply' = [reply EXCEPT ![t] = Report(mode[t])]
    /\ pc' = [pc EXCEPT ![t] = "publish"]
    /\ UNCHANGED <<version, inflight, slot, entry, asked, mode, seen>>

\* run_once returns an error; the lock is dropped.
RunFails(t) ==
    /\ MayFail /\ pc[t] \in {"locked", "scanned"}
    /\ lock' = NoOne
    /\ reply' = [reply EXCEPT ![t] = Failure]
    /\ pc' = [pc EXCEPT ![t] = "publish"]
    /\ UNCHANGED <<version, indexed, inflight, slot, entry, asked, mode, seen>>

\* Seeded bug: the unwinding leader leaves its entry as it is.
AfterPanicLost == "idle"

\* A panic skips publish and goes on to the guard's drop.
AfterPanic == "drop"

\* run_once panics: the lock is dropped, then the leader's guard.
RunPanics(t) ==
    /\ MayFail /\ pc[t] \in {"locked", "scanned"}
    /\ lock' = NoOne
    /\ reply' = [reply EXCEPT ![t] = Panicked]
    /\ pc' = [pc EXCEPT ![t] = AfterPanic]
    /\ UNCHANGED <<version, indexed, inflight, slot, entry, asked, mode, seen>>

\* LeaderGuard::set_result.
SetResult(e, r) == slot' = [slot EXCEPT ![e] = IF @ = NoResult THEN r ELSE @]

\* The thread drops its pointer to the entry; the last one frees it.
Release(t) ==
    /\ entry' = [entry EXCEPT ![t] = NoEntry]
    /\ slot' = IF \A u \in Threads \ {t} : entry[u] # entry[t]
               THEN [slot EXCEPT ![entry[t]] = NoResult] ELSE slot

\* LeaderGuard::publish.
Publish(t) ==
    /\ pc[t] = "publish"
    /\ SetResult(entry[t], reply[t])
    /\ pc' = [pc EXCEPT ![t] = "drop"]
    /\ UNCHANGED <<version, indexed, lock, inflight, entry, asked, mode, seen, reply>>

\* LeaderGuard::drop: a leader that published nothing publishes a failure ...
DropSets(t) ==
    /\ pc[t] = "drop"
    /\ SetResult(entry[t], Panicked)
    /\ pc' = [pc EXCEPT ![t] = "remove"]
    /\ UNCHANGED <<version, indexed, lock, inflight, entry, asked, mode, seen, reply>>

\* ... and its entry is taken out of the map.
DropRemoves(t) ==
    /\ pc[t] = "remove"
    /\ inflight' = IF inflight = entry[t] THEN NoEntry ELSE inflight
    /\ Release(t)
    /\ pc' = [pc EXCEPT ![t] = "ran"]
    /\ UNCHANGED <<version, indexed, lock, asked, mode, seen, reply>>

\* A follower finds the result set.
Share(t) ==
    /\ pc[t] = "follow" /\ slot[entry[t]] # NoResult
    /\ reply' = [reply EXCEPT ![t] = slot[entry[t]]]
    /\ Release(t)
    /\ pc' = [pc EXCEPT ![t] = "shared"]
    /\ UNCHANGED <<version, indexed, lock, inflight, asked, mode, seen>>

\* A follower's bound passes without a result.
FollowerTimesOut(t) ==
    /\ FollowersTimeOut
    /\ pc[t] = "follow" /\ slot[entry[t]] = NoResult
    /\ reply' = [reply EXCEPT ![t] = TimedOut]
    /\ Release(t)
    /\ pc' = [pc EXCEPT ![t] = "shared"]
    /\ UNCHANGED <<version, indexed, lock, inflight, asked, mode, seen>>

\* The call returns its result to the caller, or unwinds into it.
Return(t) ==
    /\ pc[t] \in {"ran", "shared"}
    /\ pc' = [pc EXCEPT ![t] = "idle"]
    /\ asked' = [asked EXCEPT ![t] = 0]
    /\ mode' = [mode EXCEPT ![t] = "auto"]
    /\ seen' = [seen EXCEPT ![t] = 0]
    /\ reply' = [reply EXCEPT ![t] = NoResult]
    /\ UNCHANGED <<version, indexed, lock, inflight, slot, entry>>

\* The steps of a call between its first and its return that wait for no bound
\* of a follower to pass.
Work(t) ==
    \/ TakeLock(t)
    \/ LockTimesOut(t)
    \/ Scan(t)
    \/ Write(t)
    \/ RunFails(t)
    \/ RunPanics(t)
    \/ Publish(t)
    \/ DropSets(t)
    \/ DropRemoves(t)
    \/ Share(t)

Step(t) == Work(t) \/ FollowerTimesOut(t)

SyncNext ==
    \/ Edit
    \/ OtherLocks
    \/ OtherUnlocks
    \/ \E t \in Threads, m \in Modes : Call(t, m)
    \/ \E t \in Threads : Step(t) \/ Return(t)

\* A thread that can take a step of its call eventually takes one; the operating
\* system schedules it.  Nothing obliges a thread to call, a follower's bound to
\* pass, a file to change or another process to lock.
SyncSpec ==
    /\ SyncInit
    /\ [][SyncNext]_syncVars
    /\ \A t \in Threads : WF_syncVars(Work(t) \/ Return(t))

-----------------------------------------------------------------------------
(* Properties.                                                              *)

\* Every variable holds a value of its kind.
SyncTypeOK ==
    /\ version \in 0 .. MaxEdits
    /\ indexed \in 0 .. version
    /\ lock \in Threads \cup {NoOne, Other}
    /\ inflight \in Entries \cup {NoEntry}
    /\ slot \in [Entries -> Results \cup {NoResult}]
    /\ pc \in [Threads -> {"idle", "lead", "locked", "scanned", "publish",
                           "drop", "remove", "follow", "ran", "shared"}]
    /\ entry \in [Threads -> Entries \cup {NoEntry}]
    /\ asked \in [Threads -> 0 .. MaxEdits]
    /\ mode \in [Threads -> Modes]
    /\ seen \in [Threads -> 0 .. MaxEdits]
    /\ reply \in [Threads -> Results \cup {NoResult}]

\* A sync runs once per database at a time within the process, even while the
\* lock is contended and leaders fail, panic and time out (coalesced).
OneRunAtATime == \A t, u \in Threads : Running(t) /\ Running(u) => t = u

\* The map never holds an entry whose leader is gone, and whoever follows an
\* entry without a result has a leader at work on it: nobody waits on a dead
\* leader (LeaderGuard).
NoDeadLeader ==
    /\ inflight # NoEntry =>
          \E t \in Threads : Leading(t) /\ entry[t] = inflight
    /\ \A u \in Threads : pc[u] = "follow" /\ slot[entry[u]] = NoResult =>
          \E t \in Threads : Leading(t) /\ entry[t] = entry[u]

\* The call is about to report success.
Succeeds(t) == pc[t] \in {"ran", "shared"} /\ reply[t].kind = "ok"

\* A call that ran the sync itself and is told it succeeded has an index with
\* every edit made before the call (run_once scans after the call begins).
LeadersAreFresh ==
    \A t \in Threads : Succeeds(t) /\ pc[t] = "ran" => indexed >= asked[t]

\* A call returns without the help of a follower's bound, though leaders may fail
\* or panic: the guard wakes the followers (LeaderGuard::drop).
CallReturns(t) == pc[t] # "idle" ~> pc[t] = "idle"

\* However leaders fail, panic and time out, one run at a time writes the
\* database and nobody waits for a run that nobody leads.
OneLiveRun == SyncTypeOK /\ OneRunAtATime /\ NoDeadLeader

-----------------------------------------------------------------------------
(* The inductive invariant behind OneLiveRun and LeadersAreFresh.           *)

\* The lock file is held by the thread that is between taking and dropping it.
LockHeld == \A t \in Threads : lock = t <=> pc[t] \in {"locked", "scanned"}

\* Leaders and followers hold an entry, nobody else does; the one leader's is
\* the entry in the map.
EntriesHeld ==
    /\ \A t \in Threads : entry[t] # NoEntry <=> Leading(t) \/ pc[t] = "follow"
    /\ \A t \in Threads : Leading(t) => entry[t] = inflight
    /\ \A t, u \in Threads : Leading(t) /\ Leading(u) => t = u
    /\ inflight # NoEntry => \E t \in Threads : Leading(t)

\* Only an entry that somebody holds has a result, and one that has left the
\* map, or is about to, has one.
ResultsSet ==
    /\ \A e \in Entries : slot[e] # NoResult => \E t \in Threads : entry[t] = e
    /\ \A t \in Threads : pc[t] = "follow" /\ entry[t] # inflight => slot[entry[t]] # NoResult
    /\ \A t \in Threads : pc[t] = "remove" => slot[entry[t]] # NoResult

\* A run has scanned after its call began, and its success stands for the index.
RunsAreFresh ==
    \A t \in Threads :
       /\ asked[t] <= version
       /\ pc[t] = "scanned" => asked[t] <= seen[t] /\ seen[t] <= version
       /\ pc[t] \in {"publish", "drop", "remove", "ran"} /\ reply[t].kind = "ok"
             => asked[t] <= indexed

SyncInv == SyncTypeOK /\ LockHeld /\ EntriesHeld /\ ResultsSet /\ RunsAreFresh
=============================================================================
