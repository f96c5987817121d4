# TLA+ specifications of orbit-graph

orbit-graph keeps a code graph (files, symbols, imports, references) of a
worktree in SQLite, refreshes it incrementally, keeps a history of what landed,
and answers queries and recommendations from both, through a command line, a
library handle and a plugin. These modules model the parts whose correctness
depends on the order of steps, on failures between them, on several threads and
processes, or on decisions with many cases. Parsing source text and presenting
results are outside.

Paths below are relative to `src/crates/`; `og` stands for `orbit-graph/src`,
`ogc` for `orbit-graph-changes/src`, `cli` for `orbit-graph-cli/src`.

## Inventory

| Part | State it keeps | Operations | Hard because | Correct when |
|---|---|---|---|---|
| Index synchronization (`og/sync`) | tables `files`, `symbols`, `imports`, `refs`; the `sync_pending` marker | `scan`, pass 1 (a transaction per changed file), pass 2 (one for all refs) | the worktree changes while it is read; a run fails or dies between two commits; incremental runs revisit only some refs | rows are whole; refs are those of a full rebuild; a completed run has indexed what it read |
| Reference resolution (`og/sync/pass2`) | none | the ladder of rules that choose a ref's target | re-exports, trait impls, packages, stale resolutions | resolved by what the file writes; re-resolved when that changes |
| Coalescing (`og/sync/mod.rs`, `og/lock.rs`) | in-flight table; lock file | `coalesced`, leader and follower | leaders fail and panic; followers time out; calls join at any stage | one run at a time; nobody waits for a dead leader |
| Background watcher (`og/sync/watcher.rs`) | event channel, debounce, stop flag | notify callback, event loop, start, stop | events are lost; syncs raise events; the handle is dropped at any moment | changes are indexed; the loop rests; a dropped handle leaves nothing |
| Graph handle (`og/graph/mod.rs`) | store, policy, watcher | open, sync, reads under a policy | wall clock, checkouts | a read is as recent as its policy says |
| Store and clean (`og/store`, `og/clean.rs`, `og/db_path`) | database families, WAL sidecars, `.lock`, `.close.lock`, observation lock | open, observe, close, migrate, clean | processes do all of these at once; lock files are unlinked | a database is used under its own schema, by one sync, and stays while it is guarded |
| State files (`og/state_dir.rs`) | directories, markers, files | create, check, `atomic_write` | rivals, kills, power losses | private, ours and whole |
| Plugin index (`cli/plugin/code_index.rs`) | generations, pointer, ownership record, build lock | bounded `graph_sync`, queries | deadlines against completion; kills; queries in between | readers see complete indexes; only own files are removed |
| Snapshot cache (`ogc/cache.rs`) | entries, staging directories, lock files | `lookup`, `stage`, `publish`, `clean` | workers of several versions on one entry | nothing held is removed; newer entries stay |
| Comparison snapshots (`ogc/snapshot.rs`) | trees and indexes of two revisions | materialize, index, publish, cancel | two threads; the worktree is edited | a side is its whole tree or says what is missing |
| Change analysis, evidence (`ogc`) | none | pair symbols, walk, bound | limits, deadlines, namesakes | sound pairs; nothing lost in silence |
| Queries (`og/query`) | none | refs, callees, impact, trace | cycles and bounds | the reachable ones within the bounds |
| History (`og/store/history.rs`, `orbit-graph-extract/src/history.rs`) | scopes, cursors, deliveries | sync, rebuild, import, migrate | branches are forced; processes of several contracts | the cursor tells the truth; verified deliveries stay |
| Recommendation, evaluation (`og/recommend.rs`, `og/evaluation.rs`) | a cache of symbol tables | replay, rank, score | cut-offs, renames | nothing later than the cut-off has a say |
| Plugin protocol (`cli/plugin`) | child processes | tools, Orbit sessions, imports | pipes, deadlines, process groups | calls are contained; answers are of the request |
| Extractors, selectors, command line, redaction | none | text in, text out | | not modelled |

Interactions: `Graph::sync` and the watcher go through `coalesced`, which runs
the pipeline under the database's lock file, in the family that `Store` opened;
the plugin's build thread runs the same pipeline on a private generation and
publishes the file; queries open published databases read-only; change analysis
indexes its two sides through the snapshot cache and asks them the queries; the
recommendation reads the history that sync and `orbit_sync` wrote.
`PROJECT.json` lists the hazards with the lines where they bite.

## Modules

| Module | Models | Composition |
|---|---|---|
| `GraphSync` | one database's pipeline | |
| `CoalescedSync` | threads and processes that sync one database | |
| `SyncWatcher` | the watcher of a handle | extends `CoalescedSync`: its syncs are calls of it |
| `PublishedIndex` | what the plugin promises of its index | abstract |
| `CodeIndex` | generations, pointer, record, lock, bounded calls | implements `PublishedIndex` |
| `IndexStore` | one database family: opens, syncs, closes, clean | |
| `SnapshotCache` | one commit's entry of the snapshot cache | |
| `HistoryIndex` | the delivery history of a repository | |
| `ChangedSymbols`, `ChangesAnalysis` | pairing of symbols; a whole analysis | the second extends the first |
| `GraphQueries`, `Evidence` | queries of an index; the walks over them | the second extends the first |
| `Procedure` and the modules that extend it | one run of a sequential procedure: `HistoryExtract`, `Recommend`, `Associations`, `Timestamps`, `OrbitSession`, `OrbitSync`, `RefResolution`, `TargetSymbolCache`, `StateDir`, `DatabaseFamilies`, `ReadPolicy`, `Evaluation`, `LiveEvaluation`, `PluginTools`, `Snapshots` | side by side in `MCRules`; `ReadPolicy` extends `DatabaseFamilies` and `TargetSymbolCache` extends `StateDir`, for the properties of both |
| `*Proofs` | theorems about the module they are named after; `ProcedureProofs` about seven of the procedures | extend them; `SyncWatcherProofs` also `CoalescedSyncProofs` |
| `MC*` | instances for TLC | |

Operators whose comment begins with "Seeded bug" are variants of the definition
that follows them; no specification uses them, they show that a property
notices them.

### GraphSync

State: `disk`, `mtime` (the worktree, `clock` its present), `body`, `hash`,
`stamp`, `size`, `refs` (the row of a file with its symbols and refs), `pending`
(the `sync_pending` marker), and the run's own variables, which a crash resets.
The histories `had`, `edited`, `hit`, `raced` serve the properties. A content is a
model value; the tables `Defines`, `Uses`, `Aliases` and `ByteLen` say what the
extractor finds in it, so that any extractor is covered. `StartScan`,
`ScanUnread`, `ScanHash`, `ScanFails` are the scanner, one file at a time;
`DeleteFile`, `ReadBytes`, `ReadMtime`, `ExtractFails`, `WriteFile` pass 1, in
which extraction reads the bytes and only then the mtime; `Pass2` the one
transaction that resolves refs and stamps the rows. `Cancel`, `Abort`, `Finish`
end a run, `ForgetRun` is a process that dies, and `Edit` changes a file
between any two of them, under any mtime up to the present: copy and archive
tools preserve old ones (`og/sync/scanner.rs:156`) and clocks are coarse. So a
file may be replaced by one with the same length and an mtime it had before;
`Disguised` names such files.

### CoalescedSync and SyncWatcher

`Call` joins the in-flight run or becomes its leader; the leader takes the lock
file, scans, reads and writes, or fails, or panics; the steps of `LeaderGuard`
and of the caller around the table's mutex are separate, and so are the
follower's. Edits are counted, and the database is the number of edits it
holds, which is all that freshness needs. In `SyncWatcher`, `forward_event` is
the notify callback (`try_send` into a channel of `Capacity`), `LoopTop`,
`Receive`, `Poll`, `StartSync`, `EndSync` the loop; the handle starts, syncs,
drops and joins. `due` is the schedule: every event that requires a sync restarts
the debounce, `DebouncePasses` is time, and a sync starts when the queue is
empty after it. `Touch` is any further event, without a bound on their number.
The kernel may lose events and then raises one that asks for a rescan.

### CodeIndex

A generation is its extractor version and number. `StartCall` to
`CreateGeneration` are `sync` up to its thread; `BuildEnds` to `SetFinished` are
`BuildJob::run`, which keeps the slot's mutex from the moment it looks at it;
`GiveUp` and `TakeResult` are `wait_until`. `EndProcess` is an answered call's
end or a kill at any point. `DirSyncMayFail` lets the flush that follows
`atomic_write`'s rename fail, `DamageRecord` makes the record unreadable,
`Upgrade` installs another extractor. A query chooses a generation and opens it
in two steps.

### IndexStore

A lock file can be unlinked and made again, so the sync lock is held on an
inode, not on a name; inodes are numbers that are used again once nothing
refers to them. Opening (`BeginOpen` to `OpenWriter`), syncing (`StartSync` to
`SyncWrite`), closing (`DropHandle` to `UnlinkWal`) and clean (`CleanOpenLock`
to `CleanRelease`) are sequences of steps under the three locks, any of which
may time out or be cut by a crash. SQLite is external: it is modelled by how the
store uses it (creation on open, WAL sidecars, checkpoint and unlink on the last
close). The ghosts `torn`, `stray` and `swept` remember identity reads that a
checkpoint ran under, teardowns that ran unguarded, and a database that clean
took from under a handle.

### SnapshotCache

Every call addresses files by path, and between two calls a path may come to
lead to something else, so `dirs` numbers the directories and their lock files.
Lookups, removals (with the steps of `fs::remove_dir_all`), staging, publishing
and clean are step sequences of workers of several binary versions. `spoiled`
is history: it is set when a path leads a call to another directory or lock file
than the one it looked at before, when a lookup has to make the lock file of a
published entry, when a build starts although a clean has unlinked the
`building.lock` it holds, and when a removal stops halfway.

### HistoryIndex

`db` is the index's file (rows and a scope with cursor, bounded bootstrap and
contract for each key), `prev` the file of the previous schema, `tip` the
branches. A process opens (`OpenIndex` to `FinishOpen`, with the copy and the
migration of credentialed scopes), reads its scope, walks and commits a sync
batch, rebuilds, imports or adds a supplied text; it may be abandoned between
any two steps, and `MoveBranch` forces the branch. Commits are numbers and
`Chain` gives each its first-parent ancestors.

### ChangesAnalysis and Evidence

`ChangedSymbols` pairs the symbols of two trees through the rungs of
`compare_files`; `ChangesAnalysis` runs the whole call, whose snapshots are
taken by one thread a side while refs move, files are edited and the deadline
passes. `GraphQueries` are the statements of an index, `Evidence` the walks over
them, one edge a step, cut by depth, node, path and time bounds. Namesakes are
resolved as the code does it in each place: `qualified_index` keeps the last.

### The procedures of MCRules

Each starts from every call of a small family and runs to its end; where other
processes act meanwhile, they act between any two steps.

- `HistoryExtract`: which symbols a delivery changed, paired across revisions.
- `Recommend`, `Associations`, `Timestamps`: replay with a cut-off, lineage,
  weights, distances, co-change, and the instants these compare.
- `Evaluation`, `LiveEvaluation`: which cases are admitted, what they may be
  trained on, their truth and metrics.
- `RefResolution`: the target of a Rust ref and whether a sync revisits it.
- `TargetSymbolCache`, `StateDir`: files and directories under rivals, kills
  and power losses.
- `DatabaseFamilies`, `ReadPolicy`: which database a checkout reads, writes and
  cleans, and when a read syncs first.
- `OrbitSession`, `OrbitSync`, `PluginTools`: a bounded child process, whose
  number may belong to a foreign group once it is reaped (`PidReused`, `killpg`),
  a batch of imports, and the tools' checks, callbacks and bounds.
- `Snapshots`: a revision's tree on disk, the uncommitted state, both sides.

## What the runs check

| Run | Shows |
|---|---|
| `GraphSync` | a row with a hash holds that content's symbols and refs (`CurrentRowsAreWhole`); incremental refs are those of a rebuild (`RefsMatchFullRebuild`); a row an interrupted run left is not taken for current (`PendingNeverSkipped`), nor one whose mtime or length changed, to whatever mtime (`FastPathSound`); a completed run has indexed what it read (`CompletedSyncIsCurrent`) |
| `CoalescedSync` | one live run (`OneLiveRun`), fresh for the call that led it (`LeadersAreFresh`); `EveryCallReturns` |
| `SyncWatcher` | a change of a worktree that comes to rest is indexed unless a sync of the watcher failed or joined another's (`ChangesReachIndexAlone`); then the loop rests too, and a stop flag always ends it (`WatcherRests`); a dropped handle leaves nothing (`DropLeavesNothing`) |
| `CodeIndex` | across an upgrade, what is published is whole (`PublishedIsWhole`), readers never see part of an index (`ReadersNeverPartial`), and builds, pointer and queries implement `PublishedIndex` (`ImplementsPublished`) |
| `CodeIndexFaults` | with flushes that fail after the rename: leftovers are recorded, foreign files kept, answered calls unlocked (`LeftoversAreOurs`); a given-up build does not publish (`NoLatePublish`); `CallsEnd` |
| `CodeIndexPartial` | violated: such a flush makes the next build's unfinished database the published one |
| `index_store` | identity checks never run over a checkpoint or half of the sidecars (`IdentityReadsAreWhole`); own schema, one sync, no replacement under guard, no cycle of waits (`StoreIsGuarded`) |
| `SnapshotCache` | entries in use and builds in progress stay (`NothingHeldIsRemoved`), and so do a newer binary's entries (`NewerStays`), unless a path led a call astray |
| `HistoryIndex` | rows are exactly what the cursor vouches for (`CursorCoversRows`); readable rows are of the reader's contract (`ReadableIsCurrent`); verified deliveries stay (`VerifiedStay`) |
| `ChangesAnalysis` | `PairingIsSound`, `NothingIsLost`, and the call `Returns` |
| `evidence` | walks find all that is reachable or report the bound that cut them (`WalksAreExact`); answers are the best of what they found (`AnswersAreTheBest`) |
| `Rules` | one property for each group of procedures, above |

The violated run is a finding; `PROJECT.json` quotes the sentence it contradicts.

### Bounds

- `GraphSync`: two files, three contents (a definition and a use of one length,
  one over the size cap) and `MaxClock` = 3, so two edits, with every mtime up to
  the present; any number of runs, failures and crashes. That lets a definition
  change or move under a reference while a run is interrupted, and a file change
  back or be replaced under its old mtime. The files are interchangeable
  (`SYMMETRY`). Contents of different lengths below the cap are left to the
  theorems.
- `CoalescedSync`: three threads (a leader, a follower and one that arrives
  while the entry is removed), another process at the lock, one edit.
  `EveryCallReturns` is of one thread; threads are interchangeable.
- `SyncWatcher`: the two threads of a handle, a channel of one event, one edit
  that the index can lack, and any number of further events (`Touch`), which fill
  the channel and restart the debounce. It may stop: a watcher that ended, with
  no edits left, does nothing more; deadlock is not checked.
- `CodeIndex`: two processes, one query, two generations of each of two
  extractors, so that one is superseded, removed and followed by another while
  a query remembers it. `CodeIndexFaults`: one extractor, no queries.
- `IndexStore`: two handles of one or two schema versions, a cleaner, two opens,
  one clean, one crash, timeouts anywhere. The bounds on opens and cleans end a
  behaviour, so deadlock is not checked; `NoWaitCycle` says what deadlock would.
- `SnapshotCache`: users of two versions and a clean, two directories at once
  and two files of a lock name (two cleans are left to the proof); states after
  `spoiled` are not explored, since the properties say nothing of them.
- `HistoryIndex`: a chain of three commits, two branches of which one moves, two
  processes, one verified delivery, batches of one. No verified delivery is
  imported on the branch that does not move (`ImportsOnMain`); the theorems need
  no such bound.
- `ChangesAnalysis`, `evidence`, `Rules`: every input of the families in their
  MC modules, chosen so that namesakes, renames, cycles, ties, cut-offs and full
  buffers occur. A procedure ends, so `Rules` does not check deadlock.

### Fairness

- `CoalescedSync`: weak fairness of each thread's steps once it has called (the
  system schedules threads, a run is finite, the wait for the lock is bounded),
  not of calls, edits, failures, panics or a follower's timeout, so that
  `EveryCallReturns` owes nothing to the latter.
- `SyncWatcher`: also of the callback, the loop and time (`DebouncePasses`), all
  weak. The debounce has no upper limit (`og/sync/watcher.rs:283`): a steady
  stream of events keeps a sync from starting, so `ChangesReachIndexAlone` and the
  first half of `WatcherRests` are about worktrees that come to rest
  (`ComesToRest`), as the code's comment says (`og/sync/watcher.rs:251`). Without
  that condition TLC shows the starvation.
- `CodeIndex`: weak fairness of a process's build thread and of its wait.
- `ChangesAnalysis`: weak fairness of the call and of its two workers; the
  deadline need not pass.

The other specifications state safety only.

## What is proved

For every value of the constants that the modules' assumptions allow.

**`GraphSyncProofs`**: `TypeCorrect`, `RowsAreWhole`; `RefsAreRebuilt` where
re-exports keep names (`RenamingFree`); `FastPathIsSound`;
`PendingIsNeverSkipped` and `SyncIsCurrent` where no file has the epoch's mtime.
No theorem assumes that an edit changes the mtime.
`Shape` (how a row and a run's working set are formed) is inductive alone. Over
it, `RefsInv` says that the refs of every row are those of a rebuild except for
names the run has still to revisit, which the marker remembers across a crash.
`FastInv` says that a row, outside races, records an mtime and a content that
were on disk together (`had`), and that what the walk saw of a file holds until
it is edited; with it and `Times` `FastSafe` is inductive, and on that rests
`PromiseInv`, which follows each file through scan, queue and pass 1
so that `Finish` finds it accounted for.

**`CoalescedSyncProofs`**: `OneLiveRunAlways`, `LeadersStayFresh`. One run at a
time is not inductive: the invariant ties the lock, the in-flight table and each
thread's place together (an entry's leader is at work on it, a follower's entry
has a result or a leader, a run's mark is no older than its leader's call). That
a new leader finds a number for its entry is a counting argument over threads.

**`SyncWatcherProofs`**: `WatcherCoalesces` shows that the watcher, the handle
and the worktree take only steps of `CoalescedSync`, so its invariants carry
over; `DropsLeaveNothing` adds what the loop's place, the stop flag and the
handle's state know of each other.

**`CodeIndexProofs`**: where the directory flush does not fail,
`PublishedStaysWhole`, `QueriesSeeWholeIndexes`, `PublishingGoesForward` and
`DirectoryImplementsPublished`, the refinement, step by step: only the rename of
the pointer replaces, only an upgrade withdraws, and a query misses its version
only after that was superseded. `LockInv`: whoever prepares or builds holds the
lock. `DoomedInv`: what is about to be removed is not published. `FreshInv`:
what is built has a number above any published one, so nothing a query
remembers (`ChosenInv`) is created again. `CodeIndexPartial` shows the condition
is needed. Whatever fails, `LeftoversStayOurs` and `GivenUpIsFinal`, by
`FaultInv`, which relates the slot, the build's place and the lock.

**`HistoryIndexProofs`**: `CursorTellsTheTruth`, `VerifiedDeliveriesStay`,
`ReadersSeeTheirContract`. `CoverInv` says of every scope in the database, in
the previous schema's file and in the hands of a process that rows, cursor and
bootstrap agree, and of every batch in flight that it is what its scope lacks of
the scope that follows; the compare-and-swap of the commit does the rest.
`ContractInv` says that a scope counts as current only with rows of the
contract, and has a contract of its own only if it stores something. The third
theorem is for processes of one program (`OneProgram`): a handle that an older
program holds may insert rows of its contract after a newer one's rebuild.
**`IndexStoreProofs`**: `IdentitiesReadWhole`, `StoreStaysGuarded`, for any number
of handles, cleaners, opens, cleans and crashes, and any assignment of schema
versions to the handles. Both follow from `StoreInv` (`StoreInvHolds`).
`PlaceInv` says what a process's place tells of its connections and of the locks
it holds, and on which inode; with it alone the lock order has no cycle.
`LastCloseInv` and `GuardedStays`: nobody else connects to a database that is
being closed for the last time, and clean, which needs the directory, cannot
take a guarded one. `StandInv` holds unless clean took the database away: all
who are connected are connected to the file at the path, under their own schema,
and wait for or hold the lock file that has the name; so two syncs meet at one
inode. `SidesInv` holds unless a teardown ran unguarded besides: the sidecars
come and go together, and while someone is connected nobody reads the main file
alone. That a file about to be created finds a free inode number is a counting
argument, from the assumption that there are more numbers than the paths and the
processes can refer to (`StoreAssumption`).

**`SnapshotCacheProofs`**: `HeldStays` and `NewerEntriesStay`, for any number of
users and cleans (the run has one clean), versions, directories and lock files.
Both follow from `CacheInv` (`CacheInvHolds`). `FormInv` holds always: a worker's
place tells which files it has open and how, locks on one file exclude each
other, one directory has the commit's name and a directory has one maker.
`HoldInv` holds until `spoiled`: an entry is whole or someone empties it, and then
that one alone, who holds its lock and has listed exactly what is in it; who
empties a staging directory has listed nothing of a build that goes on; and what
a worker judged is still of the version it judged. So a shared and an exclusive
lock would meet on one file if anything held were removed.

**`ProcedureProofs`**: the procedures that other processes, threads or
checkouts disturb, each by an invariant of its own.

- `SessionIsContained` (`CallsAreContained`), by `SessionInv`: time passes only
  where the caller waits (`ClockInv`); what was read and what is in the pipe is
  what was written, and the reader ends at the limit or at the end of the output
  (`ReaderInv`); the queue is a suffix of what was read (`QueueInv`); a reaped
  leader leaves no group, and no signal is sent to its number, which a foreign
  group may have (`ReapInv`).
- `DatabasesAreOwned` (`DatabasesAreTheirOwn`), by `FamilyInv` and `PolicyInv`.
  `FilesInv`: names are distinct, and what a file holds follows from its name,
  except for the plain ones of several branches, whose file says whose it is.
  `GitInv`: Git keeps the ancestors of what it keeps. Assumed: a commit's history
  contains it and its ancestors' histories; the twelve digits in a file name
  tell the repository's commits apart; no branch is called `HEAD`.
- `StateIsSafe` (`StateFilesAreSafe`), by `DirInv` and `CacheInv`. `WalkInv`: the
  components a walk has passed are directories of ours and stay so. `TouchInv`:
  nothing is touched by a reader or where Git tracks the directory, and a mode
  is repaired only of what is ours. `FileInv` and `PromiseInv`: an entry's bytes
  are whole, on disk and as they would come back after a power loss. `ListInv`:
  what a pruner listed, against what others create and remove meanwhile; the
  bound follows by an injection of the files that remain into those it kept.
  Assumed: scratch and private directories lie inside the root, and a sibling
  process creates what this program creates.
- `MaintenanceIsHonest`, `RankedTextIsTheTasks`: four of the seven parts of
  `ToolsAreHonest`. Assumed: an observation that is not refused names a task.
- `SidesAreWhole`, `StatusIsDisclosed`: four of the six parts of
  `SidesAreFaithful`, for two sides in any order. Assumed: Git reports a path
  once, and only an oversize blob is excluded with its size.

The smallest missing component, the last link and the first flag of a status are
minima of sets of numbers: their existence is proved from the well-foundedness
of `<` (`Smallest`), applied to a set.

The inductive invariants were checked with TLC before they were proved. Where
they are kept beside the properties they support, a run's instance can be used
to check them again.

Only model-checked:

- liveness (`EveryCallReturns`, `ChangesReachIndexAlone`, `WatcherRests`,
  `CallsEnd`, `Returns`): fairness and `ENABLED` are out of the prover's reach;
- what the algorithms compute: `ChangesAnalysis`, `Evidence`, and of the
  procedures `HistoryExtract`, `Recommend`, `Associations`, `Timestamps`,
  `RefResolution`, `OrbitSync`, `Evaluation`, `LiveEvaluation`. Their properties
  say what `SelectSeq`, folds, sums and sorts over sequences and recursive
  functions over commits return for every input. That is induction over data,
  whose theorems take an operator as a parameter, which the provers cannot
  instantiate;
- for the same reason, the query tools' bounds and counts and the merging of
  search hits (`AnswerFits`, `CutsAreReported`, `HitsKeepTheirRank`), and the
  materialization of a tree (`EveryEntryIsAccounted`, `OnlyClashesFail`).

## Observations

Behaviour the models show, or that was set apart in them, and that has no run of
its own.

- Sync: extraction reads the bytes and then the mtime (`og/sync/pass1.rs:437`,
  `:449`), so a rewrite of equal length in between leaves a stale row that the
  fast path skips (`FastPathSound` sets it apart); so does a replacement by as
  many bytes under an mtime the file had before, which the fast path passes over
  by design (`og/sync/scanner.rs:156`: a changed size is noticed; `Disguised`
  sets it apart in automatic runs, a full run notices it); a ref through
  `pub use m::b as a` in an unchanged file is not re-resolved
  (`og/sync/pass2.rs:405`); adding `src/lib.rs` changes the package identity
  that refs of unchanged files were resolved with; a file that outgrows the size
  cap after the walk keeps its rows; a file stamped with the epoch matches the
  pending mtime.
- Coalescing: a call may join a run that has already scanned
  (`og/sync/mod.rs:293`), and a full sync an automatic one.
- Watcher: a worktree that keeps changing faster than the debounce is not synced
  until it pauses; `sync_due` is cleared before a sync that can fail
  (`og/sync/watcher.rs:298`); nothing schedules it again.
- Store: after a clean under a live handle, syncs write to a re-created database
  while reads use the unlinked one, and two syncs may hold locks on two inodes
  of one name; the handle's own connection is opened without a second identity
  check (`og/graph/mod.rs:271`); a crash between the unlink of `-shm` and of
  `-wal` makes every later open refuse (`og/store/mod.rs:547`); the close lock
  is never contended.
- Families: a legacy database of a branch named like a detached commit makes
  that checkout refuse to open; a handle keeps writing the database of the
  branch it was opened on. A clock set back makes windowed reads fail until it
  has passed the recorded time.
- Snapshot cache: a removal unlinks `in_use.lock` and a lookup makes a new one
  (`ogc/cache.rs:541`); a removal that opened the lock file before the entry was
  replaced removes the new one; a removal killed halfway leaves an entry the
  next lookup takes for a hit. Of two cleans, one may unlink the `building.lock`
  a build has created and not yet locked, the other make it again, so that the
  first cannot remove the directory: the build then locks a file without a name
  and goes on in a directory the second clean removes (`ogc/cache.rs:1282`).
- Snapshots: a side that finished before the cancellation is published, although
  `ogc/snapshot.rs:273` says neither is.
- History: an off-chain cursor is not refused when the walk stops at its limit
  (`og/store/history.rs:1330`); an older program's handle may still write rows
  of its contract after a newer rebuild.
- Symbol pairing in history: a deleted `A::new` may take `B::new`; an added
  symbol may be paired with one that still exists.
- Changes: duplicated selectors are paired as renamed in renamed files;
  `fit_to_bytes` adds its flags after the loop, so the document may not fit; a
  worktree diff reads the disk later than the snapshot does.
- Evidence: of the symbols with one qualified name, outbound evidence leads to
  the last in path order, whichever is called (`ogc/evidence.rs:849`); relation
  edges have `module:` selectors that `refs` resolves to
  nothing; a node is expanded on its shortest chain only, so a test that reaches
  by a longer chain of calls may be missed; reports cut by the time budget are
  remembered.
- Recommendation: in a strict replay, a boundary tied to the target task only by
  a record of unknown landing time is not held out.
- Plugin: two racing imports of one pair differ in `captured_at`, so the second
  is `excluded` although verified; `recommend` without hybrid accepts and ignores
  `workspace`.

## What is not modelled

Language extractors and selector parsing (pure text processing; tables in the
models), SQL inside a transaction (a transaction is one step), presentation,
redaction and error texts, timing and sizes except where a guard depends on
them. `PROJECT.json` says for each component what is left out of it.

## What is left

- An abstract index ("the rows are those of some past worktree, a completed sync
  moves them forward") that `GraphSync` implements.
