------------------------- MODULE TargetSymbolCache -------------------------
(* The cached symbol tables of recommendation targets: processes that read,  *)
(* write and prune one directory while any of them may be killed, and while  *)
(* the machine may lose power.                                               *)
(*                                                                           *)
(*   cache          src/crates/orbit-graph/src/recommend.rs                  *)
(*   atomic_write   src/crates/orbit-graph/src/state_dir.rs                  *)
(*                                                                           *)
(* The directory is what the processes see and what a power loss leaves of   *)
(* it: an entry of it survives as it was last flushed or as it is now, and a *)
(* file that was not flushed comes back cut short.  A name says the          *)
(* extractor version and the tree, so what a whole file holds follows from   *)
(* its name.                                                                 *)
EXTENDS StateDir, FiniteSets

CONSTANTS
    CacheCalls,     \* [version, tree]: of each process
    Writers,        \* the processes; a restarted one has its old pid
    CacheKeep,      \* TARGET_SYMBOL_CACHE_KEEP
    DeadTempAge,    \* TARGET_SYMBOL_CACHE_DEAD_TEMP_AGE
    StaleTempAge,   \* TARGET_SYMBOL_CACHE_STALE_TEMP_AGE
    MaxTime,        \* bound on the clock
    MaxRestarts     \* bound on kills and on power losses

\* A pid is none of the names of entries; CacheKeep is at least the entry that
\* was just written.
ASSUME CacheAssumption ==
    /\ "none" \notin Writers /\ IsFiniteSet(Writers) /\ CacheKeep \in Nat \ {0}
    /\ \A c \in CacheCalls : \A p \in Writers : c.version[p] \in Nat

NoFile == [bytes |-> "none", synced |-> TRUE, time |-> 0, made |-> 0]

EntryName(p) == [version |-> call.version[p], tree |-> call.tree[p], pid |-> "none"]
TempName(p) == [version |-> call.version[p], tree |-> call.tree[p], pid |-> p]
CacheNames == {EntryName(p) : p \in Writers} \cup {TempName(p) : p \in Writers}
Present == {n \in CacheNames : acc.files[n] # NoFile}

CacheInit ==
    /\ call \in CacheCalls
    /\ at = "cache"
    /\ acc = [files |-> [n \in CacheNames |-> NoFile], flushed |-> [n \in CacheNames |-> NoFile],
              pc |-> [p \in Writers |-> "read"], answer |-> [p \in Writers |-> "none"],
              listed |-> [p \in Writers |-> {}], promised |-> {}, clock |-> 0, made |-> 0, restarts |-> 0]

CacheStep(p, from, to, new) ==
    /\ acc.pc[p] = from
    /\ acc' = [new EXCEPT !.pc[p] = to]
    /\ UNCHANGED <<call, at>>

\* A write that fails is given up: the temporary file goes, the answer stays.
GiveUp(p, from) == CacheStep(p, from, "done", [acc EXCEPT !.files[TempName(p)] = NoFile])

Whole(n) == acc.files[n].bytes = "whole"

\* A hit is touched; anything else in the entry is a miss.
ReadEntry(p) ==
    \/ /\ Whole(EntryName(p))
       /\ CacheStep(p, "read", "done",
               [acc EXCEPT !.answer[p] = "redacted", !.files[EntryName(p)].time = acc.clock])
    \/ /\ ~Whole(EntryName(p))
       /\ CacheStep(p, "read", "temp", acc)

\* extract_symbols and redact_cached_signatures.
ExtractSymbols(p) == CacheStep(p, "temp", "create", [acc EXCEPT !.answer[p] = "redacted"])

\* new_private_file: the file must not exist, and one that a killed process
\* with the same pid left behind makes the write fail.
CreateTemp(p) ==
    \/ /\ acc.files[TempName(p)] = NoFile
       /\ CacheStep(p, "create", "write",
               [acc EXCEPT !.files[TempName(p)] = [bytes |-> "partial", synced |-> FALSE, time |-> acc.clock,
                                               made |-> acc.made + 1],
                           !.made = @ + 1])
    \/ acc.files[TempName(p)] # NoFile /\ GiveUp(p, "create")

\* The open file is written even when its name is gone.
WriteTemp(p) ==
    \/ CacheStep(p, "write", "sync",
            IF acc.files[TempName(p)] = NoFile THEN acc
            ELSE [acc EXCEPT !.files[TempName(p)].bytes = "whole", !.files[TempName(p)].time = acc.clock])
    \/ GiveUp(p, "write")

\* Seeded bug: the file is renamed before it is flushed.
SyncTempNot(p) == CacheStep(p, "sync", "rename", acc) \/ GiveUp(p, "sync")

SyncTemp(p) ==
    \/ CacheStep(p, "sync", "rename",
            IF acc.files[TempName(p)] = NoFile THEN acc ELSE [acc EXCEPT !.files[TempName(p)].synced = TRUE])
    \/ GiveUp(p, "sync")

RenameTemp(p) ==
    \/ /\ acc.files[TempName(p)] # NoFile
       /\ CacheStep(p, "rename", "flush",
               [acc EXCEPT !.files[EntryName(p)] = acc.files[TempName(p)], !.files[TempName(p)] = NoFile,
                           !.promised = {f \in @ : f[1] # EntryName(p)}])
    \/ GiveUp(p, "rename")

\* sync_dir; from here atomic_write has promised the entry.
FlushDir(p) ==
    \/ CacheStep(p, "flush", "list",
            [acc EXCEPT !.flushed = acc.files,
                        !.promised = IF acc.files[EntryName(p)] = NoFile THEN @
                                     ELSE @ \cup {<<EntryName(p), acc.files[EntryName(p)].made>>}])
    \/ GiveUp(p, "flush")

Age(n) == acc.clock - acc.files[n].time
Gone(p) == acc.pc[p] \in {"done", "dead"}

\* Of the listed entries of this version, the others than the one just written
\* in the order of their last use; all but CacheKeep - 1 of them go: the
\* sets that may stay.
Kept(p) ==
    LET others == {n \in Present : n.pid = "none" /\ n.version = call.version[p] /\ n # EntryName(p)}
    IN  {keep \in SUBSET others :
            /\ Cardinality(keep) = IF Cardinality(others) < CacheKeep THEN Cardinality(others) ELSE CacheKeep - 1
            /\ \A k \in keep, n \in others \ keep : acc.files[k].time >= acc.files[n].time}

\* prune_target_symbol_caches on what the listing found: older versions, the
\* temporary files of processes that are gone, and the surplus.
Removed(p, keep) ==
    {n \in Present :
        \/ n.pid = "none" /\ n.version < call.version[p]
        \/ n.pid = "none" /\ n.version = call.version[p] /\ n # EntryName(p) /\ n \notin keep
        \/ n.pid # "none" /\ (Age(n) >= StaleTempAge \/ (Age(n) >= DeadTempAge /\ Gone(n.pid)))}

ListDirectory(p) ==
    \E keep \in Kept(p) :
        CacheStep(p, "list", "prune",
             [acc EXCEPT !.listed[p] = {[name |-> n, made |-> acc.files[n].made, remove |-> n \in Removed(p, keep)] :
                                            n \in Present}])

\* Names are removed one by one, whatever they hold by then.
PruneOne(p) ==
    /\ acc.pc[p] = "prune"
    /\ \E item \in {item \in acc.listed[p] : item.remove} :
           CacheStep(p, "prune", "prune",
                [acc EXCEPT !.files[item.name] = NoFile,
                            !.promised = {f \in @ : f[1] # item.name},
                            !.listed[p] = (@ \ {item}) \cup {[item EXCEPT !.remove = FALSE]}])

PruneDone(p) == \A item \in acc.listed[p] : ~item.remove
EndPrune(p) == PruneDone(p) /\ CacheStep(p, "prune", "done", acc)

\* A kill keeps the directory as it is; the process may run again later.
Kill(p) ==
    /\ acc.restarts < MaxRestarts
    /\ acc.pc[p] \notin {"done", "dead"}
    /\ CacheStep(p, acc.pc[p], "dead", [acc EXCEPT !.restarts = @ + 1, !.listed[p] = {}])

Rerun(p) ==
    \E from \in {"done", "dead"} :
        /\ acc.clock < MaxTime
        /\ CacheStep(p, from, "read", [acc EXCEPT !.clock = @ + 1, !.answer[p] = "none", !.listed[p] = {}])

Survives(f) == IF f # NoFile /\ ~f.synced THEN [f EXCEPT !.bytes = "partial", !.synced = TRUE] ELSE f

PowerLoss ==
    /\ acc.restarts < MaxRestarts
    /\ \E renamed \in SUBSET {n \in CacheNames : acc.files[n] # acc.flushed[n]} :
           LET left == [n \in CacheNames |-> Survives(IF n \in renamed THEN acc.files[n] ELSE acc.flushed[n])]
           IN  acc' = [acc EXCEPT !.files = left, !.flushed = left, !.restarts = @ + 1,
                                  !.pc = [p \in Writers |-> "dead"], !.listed = [p \in Writers |-> {}]]
    /\ UNCHANGED <<call, at>>

CacheNext ==
    /\ at = "cache"
    /\ \/ \E p \in Writers :
              \/ ReadEntry(p) \/ ExtractSymbols(p) \/ CreateTemp(p) \/ WriteTemp(p) \/ SyncTemp(p)
              \/ RenameTemp(p) \/ FlushDir(p) \/ ListDirectory(p) \/ PruneOne(p) \/ EndPrune(p)
              \/ Kill(p) \/ Rerun(p)
       \/ PowerLoss

---------------------------------------------------------------------------
(* Properties                                                                *)

\* An entry is whole whenever it exists, after a kill, a failed write or a
\* power loss at any step of any writer.
EntriesAreWhole == at = "cache" => \A n \in Present : n.pid = "none" => Whole(n)

\* Once atomic_write has returned, the entry it wrote survives a power loss,
\* until it is written again or pruned.
PublishedSurvives == at = "cache" => \A f \in acc.promised : f[1] \in Present

\* A request is answered with the same symbols whether it extracts them or
\* finds them cached.
AnswersAgree ==
    at = "cache" => \A p \in Writers : acc.answer[p] \in {"none", "redacted"}

\* Of the entries of its version that a prune listed, at most CacheKeep are
\* still the files it saw when it ends.
PruneBounds ==
    at = "cache" => \A p \in Writers : acc.pc[p] = "prune" /\ PruneDone(p) =>
        Cardinality({item \in acc.listed[p] :
            /\ item.name.pid = "none" /\ item.name.version = call.version[p]
            /\ acc.files[item.name].made = item.made}) <= CacheKeep

\* State on disk is private, ours and whole, whatever another process, a kill or
\* a power loss does between two steps.
StateFilesAreSafe ==
    /\ EntriesAreWhole /\ PublishedSurvives /\ AnswersAgree /\ PruneBounds
    /\ StateIsOurs /\ OnlyStateIsTouched /\ SiblingsBothSucceed /\ MarkerIsWhole
=============================================================================
