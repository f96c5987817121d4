----------------------------- MODULE CodeIndex -----------------------------
(* The plugin's code-graph index: generations of a database, the pointer    *)
(* that publishes one, and the bounded graph_sync calls that build them.    *)
(*                                                                          *)
(*   src/crates/orbit-graph-cli/src/plugin/code_index.rs                    *)
(*   src/crates/orbit-graph/src/state_dir.rs   atomic_write                 *)
(*                                                                          *)
(* Each process serves one call at a time: its calling thread waits until a *)
(* deadline, its build thread works on.  A generation is its extractor      *)
(* version and its number; its database and sidecars are one file here.     *)
(* Time is left out: the deadline may pass at any moment of the wait.       *)
EXTENDS Integers, FiniteSets

CONSTANTS
    Procs,          \* processes that serve graph_sync
    Readers,        \* processes that query the published index
    MaxNumber,      \* bound on generation numbers
    MaxExtractor,   \* bound on extractor upgrades
    ForeignFiles,   \* files with a generation's name that may be there at first
    DirSyncMayFail, \* flushing the directory after a rename may fail
    None

ASSUME CodeIndexAssumption ==
    /\ MaxNumber \in Nat /\ MaxExtractor \in Nat \ {0}
    /\ DirSyncMayFail \in BOOLEAN
    /\ ForeignFiles \subseteq (1 .. MaxExtractor) \X (1 .. MaxNumber)
    /\ None \notin ((1 .. MaxExtractor) \X (1 .. MaxNumber)) \cup Procs

Generations == (1 .. MaxExtractor) \X (1 .. MaxNumber)

VARIABLES
    extractor,  \* EXTRACTOR_VERSION of the installed plugin
    files,      \* generations with a file in the index directory
    whole,      \* those whose database is complete and finalized
    foreign,    \* files of generations no build created
    pointer,    \* the generation graph.current.json names
    owned,      \* the generations graph.owned.json records
    lost,       \* history: generations a damaged record forgot
    lock,       \* the process that holds graph.maintain.lock
    call,       \* where a process's calling thread is
    build,      \* where its build thread is
    gen,        \* the generation its call builds
    doomed,     \* generations its call has still to remove
    slot,       \* Shared::slot of its call
    chosen,     \* the generation a reader's query read from the pointer
    met         \* what its last query found there

directory == <<files, whole, foreign, pointer, owned, lost>>
procs == <<lock, call, build, gen, doomed, slot>>
readers == <<chosen, met>>
vars == <<extractor, directory, procs, readers>>

\* IndexState::read: the published generation, if a reader of this extractor
\* version can use it.
Ready ==
    IF pointer # None /\ pointer[1] = extractor /\ pointer \in files
    THEN pointer ELSE None

\* Seeded bug: numbering starts over at every build.
FreeFromOne == {n \in 1 .. MaxNumber : <<extractor, n>> \notin files}

\* next_generation_name: the numbers after the published one, or from 1, whose
\* database and sidecars are absent; the first of them is used.
FreeNumbers ==
    {n \in 1 .. MaxNumber : /\ <<extractor, n>> \notin files
                            /\ Ready # None => n > Ready[2]}

IsNextGeneration(g) ==
    /\ g[1] = extractor /\ g[2] \in FreeNumbers
    /\ \A k \in FreeNumbers : g[2] <= k

Init ==
    /\ extractor = 1
    /\ foreign \in SUBSET ForeignFiles
    /\ files = foreign
    /\ whole = {}
    /\ pointer = None
    /\ owned = {}
    /\ lost = {}
    /\ lock = None
    /\ call = [p \in Procs |-> "idle"]
    /\ build = [p \in Procs |-> "none"]
    /\ gen = [p \in Procs |-> None]
    /\ doomed = [p \in Procs |-> {}]
    /\ slot = [p \in Procs |-> "none"]
    /\ chosen = [r \in Readers |-> None]
    /\ met = [r \in Readers |-> "nothing"]

-----------------------------------------------------------------------------
(* The call, up to the build.                                               *)

\* remove_superseded_generations: what the record names and is not published.
Superseded == owned \ {Ready}

\* sync: the lock is taken without waiting and the published state read; a call
\* that finds it taken returns an error and changes nothing.
StartCall(p) ==
    /\ call[p] = "idle" /\ build[p] = "none" /\ lock = None
    /\ lock' = p
    /\ call' = [call EXCEPT ![p] = "prepare"]
    /\ doomed' = [doomed EXCEPT ![p] = Superseded]
    /\ UNCHANGED <<extractor, directory, build, gen, slot, readers>>

\* remove_superseded_generations, one generation.
RemoveSuperseded(p, g) ==
    /\ call[p] = "prepare" /\ g \in doomed[p]
    /\ files' = files \ {g}
    /\ whole' = whole \ {g}
    /\ doomed' = [doomed EXCEPT ![p] = @ \ {g}]
    /\ UNCHANGED <<extractor, foreign, pointer, owned, lost, lock, call, build, gen,
                   slot, readers>>

\* Seeded bug: the new generation is not recorded before it is created.
RecordKept(g) == {Ready} \ {None}

\* What write_owned records: the published generation and the new one.
Record(g) == ({Ready} \ {None}) \cup {g}

\* sync: the new generation is named and recorded.
RecordGeneration(p) ==
    /\ call[p] = "prepare" /\ doomed[p] = {}
    /\ \E g \in Generations :
          /\ IsNextGeneration(g)
          /\ gen' = [gen EXCEPT ![p] = g]
          /\ owned' = Record(g)
    /\ lost' = lost \ owned'
    /\ call' = [call EXCEPT ![p] = "recorded"]
    /\ UNCHANGED <<extractor, files, whole, foreign, pointer, lock, build, doomed, slot,
                   readers>>

\* sync: the generation is created, empty or as a copy of the published one,
\* and the build thread started.
CreateGeneration(p) ==
    /\ call[p] = "recorded"
    /\ files' = files \cup {gen[p]}
    /\ build' = [build EXCEPT ![p] = "building"]
    /\ call' = [call EXCEPT ![p] = "waiting"]
    /\ slot' = [slot EXCEPT ![p] = "running"]
    /\ UNCHANGED <<extractor, whole, foreign, pointer, owned, lost, lock, gen, doomed,
                   readers>>

\* Any of the steps above fails: the call returns the error and the lock is
\* dropped.  A generation whose copy failed halfway stays.
PrepareFails(p) ==
    /\ call[p] \in {"prepare", "recorded"}
    /\ files' \in {files, files \cup (IF call[p] = "recorded" THEN {gen[p]} ELSE {})}
    /\ lock' = None
    /\ call' = [call EXCEPT ![p] = "error"]
    /\ doomed' = [doomed EXCEPT ![p] = {}]
    /\ gen' = [gen EXCEPT ![p] = None]
    /\ UNCHANGED <<extractor, whole, foreign, pointer, owned, lost, build, slot, readers>>

-----------------------------------------------------------------------------
(* The build thread.                                                        *)

\* BuildJob::build ends: completed, cancelled by its observer, or failed.
BuildEnds(p) ==
    /\ build[p] = "building"
    /\ \E outcome \in {"completed", "discard empty", "discard error"} :
          build' = [build EXCEPT ![p] = outcome]
    /\ UNCHANGED <<extractor, directory, lock, call, gen, doomed, slot, readers>>

\* Seeded bug: a caller that gave up is not looked for.
GivenUpNever(p) == FALSE

\* The caller stopped waiting.
GivenUp(p) == slot[p] = "abandoned"

\* BuildJob::run takes the slot: for an abandoned build the generation goes,
\* then the lock ...
Discards(p) ==
    /\ build[p] \in {"completed", "discard empty", "discard error"} /\ GivenUp(p)
    /\ build' = [build EXCEPT ![p] = "discard abandoned"]
    /\ UNCHANGED <<extractor, directory, lock, call, gen, doomed, slot, readers>>

\* Seeded bug: the pointer is written before the database is finalized.
FinalizeLater(p) ==
    /\ build[p] = "completed" /\ ~GivenUp(p)
    /\ slot' = [slot EXCEPT ![p] = "taken"]
    /\ build' = [build EXCEPT ![p] = "publish"]
    /\ UNCHANGED <<extractor, directory, lock, call, gen, doomed, readers>>

\* ... for a completed one the database is finalized, the slot kept ...
Finalize(p) ==
    /\ build[p] = "completed" /\ ~GivenUp(p)
    /\ whole' = whole \cup {gen[p]}
    /\ slot' = [slot EXCEPT ![p] = "taken"]
    /\ build' = [build EXCEPT ![p] = "publish"]
    /\ UNCHANGED <<extractor, files, foreign, pointer, owned, lost, lock, call, gen,
                   doomed, readers>>

\* ... and a failed or cancelled one is discarded with the slot taken.
TakeSlot(p) ==
    /\ build[p] \in {"discard empty", "discard error"}
    /\ ~GivenUp(p) /\ slot[p] # "taken"
    /\ slot' = [slot EXCEPT ![p] = "taken"]
    /\ UNCHANGED <<extractor, directory, lock, call, build, gen, doomed, readers>>

\* publish: the pointer is renamed into place ...
RenamePointer(p) ==
    /\ build[p] = "publish"
    /\ pointer' = gen[p]
    /\ build' = [build EXCEPT ![p] = "renamed"]
    /\ UNCHANGED <<extractor, files, whole, foreign, owned, lost, lock, call, gen,
                   doomed, slot, readers>>

\* ... or finalizing or writing it failed before that ...
PublishFails(p) ==
    /\ build[p] = "publish"
    /\ build' = [build EXCEPT ![p] = "discard error"]
    /\ UNCHANGED <<extractor, directory, lock, call, gen, doomed, slot, readers>>

\* ... and the directory is flushed, or atomic_write returns that error.
SyncDirectory(p) ==
    /\ build[p] = "renamed"
    /\ \/ build' = [build EXCEPT ![p] = "unlock published"]
       \/ DirSyncMayFail /\ build' = [build EXCEPT ![p] = "discard error"]
    /\ UNCHANGED <<extractor, directory, lock, call, gen, doomed, slot, readers>>

\* discard: the generation's files go, as far as they can be removed.
Discard(p) ==
    /\ \/ build[p] \in {"discard empty", "discard error"} /\ slot[p] = "taken"
       \/ build[p] = "discard abandoned"
    /\ \/ files' = files \ {gen[p]} /\ whole' = whole \ {gen[p]}
       \/ UNCHANGED <<files, whole>>
    /\ build' = [build EXCEPT ![p] =
                   CASE build[p] = "discard empty" -> "unlock incomplete"
                     [] build[p] = "discard error" -> "unlock error"
                     [] build[p] = "discard abandoned" -> "unlock abandoned"]
    /\ UNCHANGED <<extractor, foreign, pointer, owned, lost, lock, call, gen, doomed,
                   slot, readers>>

\* What is left to the build thread once the lock is released.
Outcome(p) ==
    CASE build[p] = "unlock published" -> "published"
      [] build[p] = "unlock incomplete" -> "incomplete"
      [] build[p] = "unlock error" -> "error"
      [] build[p] = "unlock abandoned" -> "none"

\* Seeded bug: the lock is left to the end of the build thread.
LockKept(p) == lock

\* FileExt::unlock: the build lock is free.
Unlocked(p) == None

\* BuildJob::run: the lock is released ...
Unlock(p) ==
    /\ build[p] \in {"unlock published", "unlock incomplete", "unlock error",
                     "unlock abandoned"}
    /\ lock' = Unlocked(p)
    /\ build' = [build EXCEPT ![p] = Outcome(p)]
    /\ gen' = [gen EXCEPT ![p] = None]
    /\ UNCHANGED <<extractor, directory, call, doomed, slot, readers>>

\* ... and the result set for the caller.
SetFinished(p) ==
    /\ build[p] \in {"published", "incomplete", "error"}
    /\ slot' = [slot EXCEPT ![p] = build[p]]
    /\ build' = [build EXCEPT ![p] = "none"]
    /\ UNCHANGED <<extractor, directory, lock, call, gen, doomed, readers>>

\* The build thread panics: nothing is discarded or set, the lock is dropped.
BuildPanics(p) ==
    /\ build[p] = "building"
    /\ lock' = None
    /\ build' = [build EXCEPT ![p] = "none"]
    /\ gen' = [gen EXCEPT ![p] = None]
    /\ UNCHANGED <<extractor, directory, call, doomed, slot, readers>>

-----------------------------------------------------------------------------
(* The calling thread's wait, crashes and readers.                          *)

\* wait_until: the deadline passes while the slot is free and not finished.
GiveUp(p) ==
    /\ call[p] = "waiting" /\ slot[p] = "running"
    /\ slot' = [slot EXCEPT ![p] = "abandoned"]
    /\ call' = [call EXCEPT ![p] = "gave up"]
    /\ UNCHANGED <<extractor, directory, lock, build, gen, doomed, readers>>

\* wait_until: the result is there.
TakeResult(p) ==
    /\ call[p] = "waiting" /\ slot[p] \in {"published", "incomplete", "error"}
    /\ call' = [call EXCEPT ![p] = slot[p]]
    /\ slot' = [slot EXCEPT ![p] = "none"]
    /\ UNCHANGED <<extractor, directory, lock, build, gen, doomed, readers>>

\* The process answers and is ready for another call, or is killed.
EndProcess(p) ==
    /\ call[p] # "idle"
    /\ lock' = IF lock = p THEN None ELSE lock
    /\ call' = [call EXCEPT ![p] = "idle"]
    /\ build' = [build EXCEPT ![p] = "none"]
    /\ gen' = [gen EXCEPT ![p] = None]
    /\ doomed' = [doomed EXCEPT ![p] = {}]
    /\ slot' = [slot EXCEPT ![p] = "none"]
    /\ UNCHANGED <<extractor, directory, readers>>

\* Environment: the record is damaged; read_owned takes it for empty.
DamageRecord ==
    /\ owned # {}
    /\ lost' = lost \cup owned
    /\ owned' = {}
    /\ UNCHANGED <<extractor, files, whole, foreign, pointer, procs, readers>>

\* Environment: a plugin with another extractor is installed; calls under way
\* belong to the old one and are let finish.
Upgrade ==
    /\ extractor < MaxExtractor
    /\ \A p \in Procs : call[p] = "idle" /\ build[p] = "none"
    /\ extractor' = extractor + 1
    /\ UNCHANGED <<directory, procs, readers>>

\* Seeded bug: the pointer's extractor version is not looked at.
ChooseAnyGeneration(r) ==
    /\ chosen[r] = None /\ pointer \in files
    /\ chosen' = [chosen EXCEPT ![r] = pointer]
    /\ UNCHANGED <<extractor, directory, procs, met>>

\* A query reads the pointer ...
ChooseGeneration(r) ==
    /\ chosen[r] = None /\ Ready # None
    /\ chosen' = [chosen EXCEPT ![r] = Ready]
    /\ UNCHANGED <<extractor, directory, procs, met>>

\* ... and opens the database it names.
OpenGeneration(r) ==
    /\ chosen[r] # None
    /\ met' = [met EXCEPT ![r] = IF chosen[r] \notin files THEN "missing"
                                ELSE IF chosen[r] \in whole THEN "whole" ELSE "partial"]
    /\ chosen' = [chosen EXCEPT ![r] = None]
    /\ UNCHANGED <<extractor, directory, procs>>

\* The call before its build, the build thread and the wait of one process.
PrepareStep(p) ==
    \/ StartCall(p)
    \/ \E g \in Generations : RemoveSuperseded(p, g)
    \/ RecordGeneration(p)
    \/ CreateGeneration(p)
    \/ PrepareFails(p)

BuildStep(p) ==
    \/ BuildEnds(p)
    \/ Discards(p)
    \/ Finalize(p)
    \/ TakeSlot(p)
    \/ RenamePointer(p)
    \/ PublishFails(p)
    \/ SyncDirectory(p)
    \/ Discard(p)
    \/ Unlock(p)
    \/ SetFinished(p)
    \/ BuildPanics(p)

WaitStep(p) == GiveUp(p) \/ TakeResult(p)

Next ==
    \/ \E p \in Procs :
          \/ PrepareStep(p)
          \/ BuildStep(p)
          \/ WaitStep(p)
          \/ EndProcess(p)
    \/ DamageRecord
    \/ Upgrade
    \/ \E r \in Readers :
          \/ ChooseGeneration(r)
          \/ OpenGeneration(r)

Spec == Init /\ [][Next]_vars

\* The two threads of a process are scheduled; a build ends, a deadline passes.
FairSpec ==
    /\ Spec
    /\ \A p \in Procs : WF_vars(BuildStep(p)) /\ WF_vars(WaitStep(p))

-----------------------------------------------------------------------------
(* Properties, and the inductive invariant behind them.                      *)

\* The state has its types.
TypeOK ==
    /\ extractor \in 1 .. MaxExtractor
    /\ files \subseteq Generations /\ whole \subseteq files
    /\ foreign \subseteq Generations
    /\ pointer \in Generations \cup {None}
    /\ owned \subseteq Generations /\ lost \subseteq Generations
    /\ lock \in Procs \cup {None}
    /\ call \in [Procs -> {"idle", "prepare", "recorded", "waiting", "gave up",
                           "published", "incomplete", "error"}]
    /\ build \in [Procs -> {"none", "building", "completed", "publish", "renamed",
                            "discard empty", "discard error", "discard abandoned",
                            "unlock published", "unlock incomplete", "unlock error",
                            "unlock abandoned", "published", "incomplete", "error"}]
    /\ gen \in [Procs -> Generations \cup {None}]
    /\ doomed \in [Procs -> SUBSET Generations]
    /\ slot \in [Procs -> {"none", "running", "taken", "abandoned", "published",
                           "incomplete", "error"}]
    /\ chosen \in [Readers -> Generations \cup {None}]
    /\ met \in [Readers -> {"nothing", "missing", "whole", "partial"}]

\* The generation the pointer publishes for the installed extractor is there
\* and complete, whatever builds failed, were abandoned or killed since
\* (code_index.rs: "leaves the published generation untouched").
PublishedIsWhole ==
    pointer # None /\ pointer[1] = extractor => pointer \in whole

\* A query never opens a generation that is still being built, even when the
\* one it chose was superseded and removed in between (code_index.rs: "Readers
\* only ever see a complete index").
ReadersNeverPartial == \A r \in Readers : met[r] # "partial"

\* Publishing never goes back: under one extractor a new pointer names a later
\* generation (next_generation_name).
PointerAdvances ==
    [][pointer' # pointer /\ pointer # None /\ pointer[1] = pointer'[1]
          => pointer'[2] > pointer[2]]_vars

\* The pointer names a generation of the installed extractor.
Current == pointer # None /\ pointer[1] = extractor

\* A generation no pointer has named yet.
Fresh(g) ==
    g \in Generations /\ g[1] = extractor /\ (Current => g[2] > pointer[2])

\* The build thread has not released the lock; its generation is unpublished.
Holding ==
    {"building", "completed", "publish", "renamed", "discard empty", "discard error",
     "discard abandoned", "unlock published", "unlock incomplete", "unlock error",
     "unlock abandoned"}
Unpublished ==
    {"building", "completed", "publish", "discard empty", "discard error",
     "discard abandoned"}

\* Whoever changes the directory holds the lock, removes nothing published and
\* builds a generation later than any published one; what a query chose is
\* complete, or gone for good.
LockInv ==
    \A p \in Procs :
       /\ call[p] \in {"prepare", "recorded"} => lock = p /\ build[p] = "none"
       /\ build[p] \in Holding => lock = p
DoomedInv ==
    \A p \in Procs :
       /\ doomed[p] # {} => call[p] = "prepare"
       /\ Current => pointer \notin doomed[p]
FreshInv ==
    \A p \in Procs :
       /\ call[p] = "recorded" \/ build[p] \in Unpublished => Fresh(gen[p])
       /\ build[p] \in Unpublished => gen[p] \in files
       /\ build[p] = "publish" => gen[p] \in whole
ChosenInv ==
    \A r \in Readers : chosen[r] # None =>
       /\ chosen[r] \in files => chosen[r] \in whole
       /\ chosen[r][1] <= extractor
       /\ chosen[r][1] = extractor => Current /\ chosen[r][2] <= pointer[2]

\* The inductive invariant, where a flushed directory never fails.
IndInv ==
    /\ TypeOK /\ PublishedIsWhole /\ ReadersNeverPartial
    /\ pointer # None => pointer[1] <= extractor
    /\ LockInv /\ DoomedInv /\ FreshInv /\ ChosenInv

\* A generation is newer by its extractor, then by its number.
NewerGeneration(g, h) == g[1] > h[1] \/ (g[1] = h[1] /\ g[2] > h[2])

Published ==
    INSTANCE PublishedIndex WITH
        Queries <- Readers, Versions <- Generations, Newer <- NewerGeneration, NoVersion <- None,
        contract <- extractor, current <- Ready, asked <- chosen, answer <- met

\* The directory of generations, with its pointer, record and lock, its builds
\* and their failures, implements PublishedIndex: to a query there is one index,
\* replaced at once by newer ones and never withdrawn, and a query misses its
\* version only after that was replaced (code_index.rs: sync, BuildJob::run,
\* IndexState::read; query.rs: execute).
ImplementsPublished == Published!Spec

\* A file no build created is never removed or built into, whatever its name
\* (remove_superseded_generations, next_generation_name: ownership comes from the
\* record).
ForeignKept ==
    /\ foreign \subseteq files
    /\ \A p \in Procs : gen[p] \notin foreign

\* A generation left behind by a failed, abandoned or killed build stays on
\* record, so that a later build removes it, unless the record was damaged
\* (write_owned before create_private_file).
LeftoversRecorded == files \ (foreign \cup lost) \subseteq owned

\* A call that answered without waiting for its build is not followed by that
\* build's publication (BuildJob::run looks at the slot it keeps while it
\* publishes).
NoLatePublish ==
    [][\A p \in Procs : call[p] = "gave up" /\ lock = p => pointer' = pointer]_vars

\* A call that returned its build's result no longer holds the build lock, so
\* the caller's next call is not refused (BuildJob::run: "a `sync` that has
\* returned never still holds it").
AnsweredIsUnlocked ==
    \A p \in Procs : call[p] \in {"published", "incomplete", "error"} => lock # p

\* Every call is answered: by the build, or by the deadline however the build
\* thread ends (Shared::wait_until).
CallIsAnswered == \A p \in Procs : call[p] = "waiting" ~> call[p] # "waiting"

\* A build nobody waits for any more frees the lock (BuildJob::run).
AbandonedFreesLock == \A p \in Procs : GivenUp(p) ~> lock # p

\* Whatever fails and whenever a process is killed, what is left behind can be
\* told from what is not the index's, and is never left locked by an answered
\* call (recover_obsolete_generations, run_shared).
LeftoversAreOurs == LeftoversRecorded /\ ForeignKept /\ AnsweredIsUnlocked

\* Every call ends: its caller is answered, and a build nobody waits for gives
\* the lock back.
CallsEnd == CallIsAnswered /\ AbandonedFreesLock

-----------------------------------------------------------------------------
(* The inductive invariant behind LeftoversAreOurs and NoLatePublish, which   *)
(* holds whether or not a flush of the directory fails.                       *)

\* The results a build thread leaves, and where it has kept the slot for one.
Answers == {"published", "incomplete", "error"}
SlotKept ==
    Answers \cup {"publish", "renamed", "unlock published", "unlock incomplete",
                  "unlock error"}

\* The slot decides between the caller and its build: one of them takes it, and
\* a result is there only once the lock is free.
SlotInv ==
    \A p \in Procs :
       /\ call[p] \in {"idle", "prepare", "recorded"} => slot[p] = "none" /\ build[p] = "none"
       /\ call[p] = "gave up" => slot[p] = "abandoned"
       /\ build[p] \in SlotKept => slot[p] = "taken"
       /\ call[p] \in Answers \/ build[p] \in Answers \/ slot[p] \in Answers => lock # p

\* The index takes nothing for its own that no build created.
OwnershipInv ==
    /\ foreign \subseteq files
    /\ pointer \notin foreign /\ owned \cap foreign = {}
    /\ \A p \in Procs : gen[p] \notin foreign /\ doomed[p] \cap foreign = {}

\* The build thread may still discard its generation.
Discardable == Unpublished \cup {"renamed"}

\* What is on record and neither published nor to be removed is gone; a new
\* generation is on record before it is created and there until it is discarded.
RecordInv ==
    /\ LeftoversRecorded
    /\ \A p \in Procs :
          /\ call[p] = "prepare" =>
                Ready \notin doomed[p] /\ files \cap owned \subseteq doomed[p] \cup {Ready}
          /\ call[p] = "recorded" => gen[p] \in owned \cup lost
          /\ build[p] \in Discardable => gen[p] \in files

FaultInv == TypeOK /\ LockInv /\ SlotInv /\ OwnershipInv /\ RecordInv
=============================================================================
