----------------------------- MODULE Snapshots -----------------------------
(* The two snapshots of a comparison: a revision's tree written to disk, the *)
(* uncommitted state, and both sides prepared by a thread each.              *)
(*                                                                           *)
(*   trees and sides   src/crates/orbit-graph-changes/src/snapshot.rs        *)
(*   cache entries     src/crates/orbit-graph-changes/src/cache.rs           *)
EXTENDS Procedure, Integers, Sequences, FiniteSets, FiniteSetsExt, TLC

CONSTANTS
    TreeCalls,      \* [entries, folds]: a commit's tree, and whether the file system folds case
    StatusCalls,    \* sequences of [path, flags]: what git reports of the working tree
    CompareCalls,   \* [base, head, cache, lookup, excluded]: see SidesInit
    DirtyCap,       \* DIRTY_ENTRY_CAP
    MaxBlob         \* DEFAULT_MAX_BLOB_BYTES

\* Git reports a path once; only an oversize blob is reported with its size.
ASSUME SnapshotAssumption ==
    /\ DirtyCap \in Nat
    /\ \A c \in StatusCalls : /\ Len(c) \in Nat /\ DOMAIN c = 1..Len(c)
                              /\ \A i, j \in DOMAIN c : c[i].path = c[j].path => i = j
    /\ \A c \in CompareCalls :
          /\ {c.base, c.head} \subseteq DOMAIN c.lookup \cup {"worktree"}
          /\ {c.base, c.head} \cup DOMAIN c.lookup \subseteq DOMAIN c.excluded
          /\ \A k \in DOMAIN c.lookup : c.lookup[k] \in {"absent", "entry", "kept", "broken"}
          /\ \A k \in DOMAIN c.excluded :
                /\ Len(c.excluded[k]) \in Nat
                /\ c.excluded[k] \in [1..Len(c.excluded[k]) ->
                      [why : {"Symlink", "Submodule", "UnsafeName", "UnsupportedKind"}, bytes : {0}]
                      \cup [why : {"OversizeBlob"}, bytes : Nat]]

-----------------------------------------------------------------------------
(* A commit's tree, written to disk                                          *)
(*                                                                           *)
(* An entry is [within, name, kind, size]: the number of the tree it is in   *)
(* (0 is the root) and its name, [text, fold]: two names with one fold are   *)
(* one where the file system folds case.                                     *)

Nodes == DOMAIN call.entries
Within(n) == SelectSeq([i \in 1..Len(call.entries) |-> i], LAMBDA i : call.entries[i].within = n)

\* files: what is on disk, by the directory (the entry that made it) and the name.
WalkInit ==
    /\ call \in TreeCalls
    /\ at = "treeWalk"
    /\ acc = [todo |-> Within(0), files |-> {}, home |-> <<>>, written |-> 0, excluded |-> <<>>]

OnDiskName(n) == IF call.folds THEN call.entries[n].name.fold ELSE call.entries[n].name.text

\* Directories that fold to one name are one directory.
DirOf(n) == IF call.entries[n].within = 0 THEN 0 ELSE acc.home[call.entries[n].within]
There(n) == {f \in acc.files : f.dir = DirOf(n) /\ f.name = OnDiskName(n)}

\* is_safe_entry_name.
IsSafeEntryName(n) ==
    /\ call.entries[n].name.text \notin {"", ".", "..", "a/b"}
    /\ call.entries[n].name.fold # ".git"

Exclude(n, reason) ==
    /\ acc' = [acc EXCEPT !.todo = Tail(@), !.excluded = Append(@, [entry |-> n, reason |-> reason])]
    /\ UNCHANGED <<call, at>>

WalkFails == at' = "treeFailed" /\ UNCHANGED <<call, acc>>

MakeDir(n) ==
    IF \E f \in There(n) : f.kind = "blob" THEN WalkFails
    ELSE LET old == {f.node : f \in There(n)}
             home == IF old = {} THEN n ELSE Min(old)
         IN  /\ acc' = [acc EXCEPT !.todo = Within(n) \o Tail(@), !.home = @ @@ (n :> home),
                                   !.files = IF old = {} THEN @ \cup {[dir |-> DirOf(n), name |-> OnDiskName(n),
                                                                      kind |-> "tree", node |-> n]}
                                             ELSE @]
             /\ UNCHANGED <<call, at>>

\* A file that exists is replaced by rename, which a directory withstands.
WriteBlob(n) ==
    IF \E f \in There(n) : f.kind = "tree" THEN WalkFails
    ELSE /\ acc' = [acc EXCEPT !.todo = Tail(@), !.written = @ + 1,
                               !.files = (@ \ There(n)) \cup {[dir |-> DirOf(n), name |-> OnDiskName(n),
                                                              kind |-> "blob", node |-> n]}]
         /\ UNCHANGED <<call, at>>

\* materialize_tree and materialize_blob.
MaterializeEntry ==
    /\ at = "treeWalk" /\ acc.todo # <<>>
    /\ LET n == Head(acc.todo)
           kind == call.entries[n].kind
       IN  CASE ~IsSafeEntryName(n) -> Exclude(n, "unsafe_name")
             [] IsSafeEntryName(n) /\ kind = "link" -> Exclude(n, "symlink")
             [] IsSafeEntryName(n) /\ kind = "tree" -> MakeDir(n)
             [] IsSafeEntryName(n) /\ kind = "commit" -> Exclude(n, "submodule")
             [] IsSafeEntryName(n) /\ kind = "other" -> Exclude(n, "unsupported_kind")
             [] IsSafeEntryName(n) /\ kind = "blob" ->
                    IF call.entries[n].size > MaxBlob THEN Exclude(n, "oversize_blob") ELSE WriteBlob(n)

\* anchor_git_discovery refuses a repository that is there already.
AnchorGit ==
    /\ at = "treeWalk" /\ acc.todo = <<>>
    /\ at' = IF \E f \in acc.files : f.dir = 0 /\ f.name = ".git" THEN "treeFailed" ELSE "treeWalked"
    /\ UNCHANGED <<call, acc>>

WalkNext == MaterializeEntry \/ AnchorGit

\* Entries below one that was excluded.
Shut ==
    LET shut[n \in 0..Len(call.entries)] ==
            /\ n # 0
            /\ \/ \E i \in DOMAIN acc.excluded : acc.excluded[i].entry = n
               \/ shut[call.entries[n].within]
    IN  {n \in Nodes : shut[call.entries[n].within]}

\* Every entry of a commit's tree is on disk with its own content, or is reported once with a
\* reason, or is below a reported one; on a file system that folds case, the last of the files
\* with one name is on disk (materialize_tree).
EveryEntryIsAccounted ==
    at = "treeWalked" =>
        \A n \in Nodes :
            LET reports == {i \in DOMAIN acc.excluded : acc.excluded[i].entry = n}
            IN  IF n \in Shut \/ reports # {}
                THEN /\ Cardinality(reports) = IF n \in Shut THEN 0 ELSE 1
                     /\ \A f \in acc.files : f.node # n
                ELSE LET here == There(n)
                     IN  /\ Cardinality(here) = 1
                         /\ \A f \in here : /\ f.kind = call.entries[n].kind
                                            /\ f.kind = "blob" => f.node >= n
                                            /\ f.node # n => call.folds

\* A tree is refused only where a file and a directory fold to one name: whatever the entries
\* are called, none takes the place of the .git the snapshot is anchored with
\* (is_safe_entry_name, anchor_git_discovery).
OnlyClashesFail ==
    at = "treeFailed" =>
        /\ call.folds /\ acc.todo # <<>>
        /\ \E f \in There(Head(acc.todo)) : f.kind # call.entries[Head(acc.todo)].kind

-----------------------------------------------------------------------------
(* The uncommitted state of the working tree                                 *)

NoState == [dirty |-> FALSE, entries |-> <<>>, truncated |-> FALSE]
StatusInit == call \in StatusCalls /\ at = "statusScan" /\ acc = [next |-> 1, state |-> NoState]

\* classify_status: the first of these flags that is set.
ChangeOrder == <<"conflicted", "untracked", "added", "deleted", "renamed", "type_changed", "modified">>
ClassifyStatus(flags) ==
    LET set == {i \in DOMAIN ChangeOrder : ChangeOrder[i] \in flags}
    IN  IF set = {} THEN "none" ELSE ChangeOrder[Min(set)]

\* is_graph_scratch: the directory or something in it.
IsGraphScratch(path) == path \in {".orbit-graph", ".orbit-graph/x"}

ScanStatus ==
    /\ at = "statusScan" /\ acc.next <= Len(call)
    /\ LET entry == call[acc.next]
           change == ClassifyStatus(entry.flags)
           state == acc.state
           full == Len(state.entries) >= DirtyCap
       IN  acc' = [next |-> acc.next + 1,
                   state |-> IF change = "none" \/ IsGraphScratch(entry.path) THEN state
                             ELSE [dirty |-> TRUE, truncated |-> state.truncated \/ full,
                                   entries |-> IF full THEN state.entries
                                               ELSE Append(state.entries, [path |-> entry.path, change |-> change])]]
    /\ UNCHANGED <<call, at>>

ScanEnds ==
    /\ at = "statusScan" /\ acc.next > Len(call)
    /\ at' = "statusDone" /\ UNCHANGED <<call, acc>>

StatusNext == ScanStatus \/ ScanEnds

\* The state says dirty exactly when a path outside .orbit-graph/ has an uncommitted change,
\* and says truncated exactly when such a path is not listed (working_tree_state).
DirtyIsDisclosed ==
    at = "statusDone" =>
        LET changes == {i \in DOMAIN call : /\ call[i].flags \cap {ChangeOrder[j] : j \in DOMAIN ChangeOrder} # {}
                                            /\ call[i].path \notin {".orbit-graph", ".orbit-graph/x"}}
            listed == {acc.state.entries[i].path : i \in DOMAIN acc.state.entries}
        IN  /\ acc.state.dirty = (changes # {})
            /\ acc.state.truncated = (\E i \in changes : call[i].path \notin listed)
            /\ listed \subseteq {call[i].path : i \in changes}

-----------------------------------------------------------------------------
(* Both sides, a thread each                                                 *)
(*                                                                           *)
(* A side's source is a commit or the working tree; excluded says what its   *)
(* materialization leaves out, reasons as [why, bytes].  lookup says what    *)
(* the cache has of a commit: nothing, a usable entry, one it must keep      *)
(* ("kept"), or an error ("broken").                                         *)

CompareSides == {"base", "head"}
IsWorkingTree(x) == call[x] = "worktree"

\* ExclusionReason::label and bytes: what an entry's metadata keeps of a reason.
StoredReason(r) ==
    [label |-> CASE r.why = "Symlink" -> "symlink"
                 [] r.why = "Submodule" -> "submodule"
                 [] r.why = "OversizeBlob" -> "oversize_blob"
                 [] r.why = "UnsafeName" -> "unsafe_name"
                 [] r.why = "UnsupportedKind" -> "unsupported_kind",
     bytes |-> IF r.why = "OversizeBlob" THEN <<r.bytes>> ELSE <<>>]

Reason(why, bytes) == [why |-> why, bytes |-> bytes]

\* ExclusionReason::from_label.
FromLabel(label, bytes) ==
    CASE label = "symlink" -> Reason("Symlink", 0)
      [] label = "submodule" -> Reason("Submodule", 0)
      [] label = "oversize_blob" -> Reason("OversizeBlob", IF bytes = <<>> THEN 0 ELSE bytes[1])
      [] label = "unsafe_name" -> Reason("UnsafeName", 0)
      [] OTHER -> Reason("UnsupportedKind", 0)

\* stored_build, materialization_from_stored.
StoredBuild(report) == [i \in DOMAIN report |-> StoredReason(report[i])]
FromStored(build) == [i \in DOMAIN build |-> FromLabel(build[i].label, build[i].bytes)]

\* ready_status, and the status at the end of prepare_temporary_from.
Counts(labels) == [ignored |-> Len(labels),
                   unsupported |-> Cardinality({i \in DOMAIN labels : labels[i] = "unsupported_kind"})]
LabelsOf(build) == [i \in DOMAIN build |-> build[i].label]

NothingCounted == [ignored |-> 0, unsupported |-> 0]
NewSide == [pc |-> "start", counts |-> NothingCounted, store |-> "none", indexed |-> FALSE, report |-> <<>>]

\* cache: what is under a commit's name; whole: its index was finished before it got there.
SidesInit ==
    /\ call \in CompareCalls
    /\ at = "sidesOpen"
    /\ acc = [side |-> [x \in CompareSides |-> NewSide], cancelled |-> FALSE, outcome |-> "none",
              cache |-> [c \in DOMAIN call.lookup |->
                            [state |-> call.lookup[c], whole |-> TRUE,
                             build |-> IF call.lookup[c] = "entry" THEN StoredBuild(call.excluded[c]) ELSE <<>>]]]

RequestCancel ==
    /\ at \in {"sidesOpen", "sides"} /\ ~acc.cancelled
    /\ acc' = [acc EXCEPT !.cancelled = TRUE] /\ UNCHANGED <<call, at>>

\* A snapshot that is not handed out is dropped.
EndCompare(outcome) ==
    /\ at' = "sidesJoined"
    /\ acc' = [acc EXCEPT !.outcome = outcome,
                          !.side = [x \in CompareSides |->
                                        IF outcome # "ready" /\ @[x].pc = "ready"
                                        THEN [@[x] EXCEPT !.store = "none"] ELSE @[x]]]
    /\ UNCHANGED call

\* open_inner spawns the workers.
SpawnSides ==
    /\ at = "sidesOpen"
    /\ IF acc.cancelled THEN EndCompare("cancelled") ELSE at' = "sides" /\ UNCHANGED <<call, acc>>

SetSide(x, new) == acc' = [acc EXCEPT !.side[x] = new] /\ UNCHANGED <<call, at>>
SideAt(x, pc) == at = "sides" /\ acc.side[x].pc = pc

\* A build that fails or is cancelled drops its TempDir or StagedEntry, which removes it.
DropTree(x, pc) == SetSide(x, [acc.side[x] EXCEPT !.pc = pc, !.store = "none"])

Fails(x) == DropTree(x, "failed")
Stops(x) == acc.cancelled /\ DropTree(x, "stopped")

\* prepare_cached: a cached entry is opened as it stands.
OpenEntry(x, new) ==
    \/ Fails(x)
    \/ SetSide(x, [acc.side[x] EXCEPT !.pc = "ready", !.store = "entry", !.report = FromStored(new.build),
                                      !.counts = Counts(LabelsOf(new.build))])

LookUpSide(x) ==
    /\ SideAt(x, "start") /\ ~IsWorkingTree(x) /\ call.cache
    /\ LET found == acc.cache[call[x]]
       IN  \/ found.state = "kept" /\ SetSide(x, [acc.side[x] EXCEPT !.pc = "temporary"])
           \/ found.state = "broken" /\ Fails(x)
           \/ found.state = "entry" /\ OpenEntry(x, found)
           \/ found.state = "absent" /\ Stops(x)
           \/ /\ found.state = "absent" /\ ~acc.cancelled
              /\ SetSide(x, [acc.side[x] EXCEPT !.pc = "stage"])

SkipCache(x) ==
    /\ SideAt(x, "start") /\ (IsWorkingTree(x) \/ ~call.cache)
    /\ SetSide(x, [acc.side[x] EXCEPT !.pc = "temporary"])

StageSide(x) ==
    /\ SideAt(x, "stage")
    /\ \/ Fails(x)
       \/ SetSide(x, [acc.side[x] EXCEPT !.pc = "materialize", !.store = "staged"])

\* prepare_temporary_from.
BeginTemporary(x) ==
    /\ SideAt(x, "temporary")
    /\ \/ Stops(x)
       \/ ~acc.cancelled /\ (Fails(x) \/ SetSide(x, [acc.side[x] EXCEPT !.pc = "materialize", !.store = "temporary"]))

MaterializeSide(x) ==
    /\ SideAt(x, "materialize")
    /\ \/ Fails(x)
       \/ SetSide(x, [acc.side[x] EXCEPT !.pc = "materialized", !.report = call.excluded[call[x]]])

\* index_with_progress opens the graph, unless the build was cancelled.
BeginIndex(x) ==
    /\ SideAt(x, "materialized")
    /\ \/ Stops(x)
       \/ ~acc.cancelled /\ (Fails(x) \/ SetSide(x, [acc.side[x] EXCEPT !.pc = "index"]))

\* The last file; a cached build is published next.
SideIndexed(x, whole) ==
    LET s == acc.side[x]
    IN  IF s.store = "staged" THEN SetSide(x, [s EXCEPT !.pc = "publish", !.indexed = whole])
        ELSE SetSide(x, [s EXCEPT !.pc = "ready", !.indexed = whole,
                                  !.counts = Counts(LabelsOf(StoredBuild(s.report)))])

\* Seeded bug: what a cancelled synchronization has indexed counts as the index.
IndexSideAnyway(x) ==
    /\ SideAt(x, "index")
    /\ Fails(x) \/ SideIndexed(x, ~acc.cancelled)

\* A cancellation that comes after the last check is not seen.
IndexSide(x) ==
    /\ SideAt(x, "index")
    /\ Fails(x) \/ Stops(x) \/ SideIndexed(x, TRUE)

\* publish, or adopt_published when the other side or another launch came first.
PublishSide(x) ==
    /\ SideAt(x, "publish")
    /\ LET found == acc.cache[call[x]]
           new == [state |-> "entry", whole |-> acc.side[x].indexed, build |-> StoredBuild(acc.side[x].report)]
           ready == [acc.side[x] EXCEPT !.pc = "ready", !.store = "entry", !.report = FromStored(new.build),
                                        !.counts = Counts(LabelsOf(new.build))]
       IN  \/ Fails(x)
           \/ found.state = "entry" /\ OpenEntry(x, found)
           \/ /\ found.state = "absent"
              /\ \E s \in {ready, [acc.side[x] EXCEPT !.pc = "failed", !.store = "none"]} :
                    acc' = [acc EXCEPT !.cache[call[x]] = new, !.side[x] = s]
              /\ UNCHANGED <<call, at>>

\* Both workers are joined; an error comes before a cancellation.
JoinSides ==
    /\ at = "sides"
    /\ \A x \in CompareSides : acc.side[x].pc \in {"ready", "stopped", "failed"}
    /\ EndCompare(IF \E x \in CompareSides : acc.side[x].pc = "failed" THEN "failed"
                  ELSE IF \E x \in CompareSides : acc.side[x].pc = "stopped" THEN "cancelled" ELSE "ready")

SidesNext ==
    \/ RequestCancel \/ SpawnSides \/ JoinSides
    \/ \E x \in CompareSides :
          \/ LookUpSide(x) \/ SkipCache(x) \/ StageSide(x) \/ BeginTemporary(x) \/ MaterializeSide(x)
          \/ BeginIndex(x) \/ IndexSide(x) \/ PublishSide(x)

SidesPart == at \in {"sidesOpen", "sides", "sidesJoined"}

\* An entry under a commit's name was indexed to the end, with the other side building the same
\* commit, a side that fails, or a cancellation at any moment (build: "no later launch can see
\* a half-indexed tree under this commit's SHA").
PublishedAreWhole ==
    SidesPart => \A c \in DOMAIN acc.cache : acc.cache[c].state = "entry" => acc.cache[c].whole

\* A side that is ready reports the exclusions of its own source, with their sizes, and counts
\* that agree, whether it was built now, adopted from the other side or found in the cache
\* (materialization_from_stored, ready_status).
ReportsSurviveTheCache ==
    SidesPart => \A x \in CompareSides :
        acc.side[x].pc = "ready" =>
            LET truth == call.excluded[call[x]]
            IN  /\ acc.side[x].report = truth
                /\ acc.side[x].counts.unsupported = Cardinality({i \in DOMAIN truth : truth[i].why = "UnsupportedKind"})
                /\ acc.side[x].counts.ignored = Len(truth)

\* When one side fails or stops, neither side leaves a staging directory or a temporary tree; a
\* comparison that is handed out has a tree for each side, and the working tree's is never an
\* entry (open_inner).
NothingIsLeft ==
    at = "sidesJoined" => \A x \in CompareSides :
        IF acc.outcome = "ready"
        THEN acc.side[x].store \in IF IsWorkingTree(x) THEN {"temporary"} ELSE {"temporary", "entry"}
        ELSE acc.side[x].store = "none"

\* A side of a comparison is its whole tree or says what is missing, is published
\* only when whole, and leaves nothing when it fails.
SidesAreFaithful ==
    /\ EveryEntryIsAccounted /\ OnlyClashesFail /\ DirtyIsDisclosed
    /\ PublishedAreWhole /\ ReportsSurviveTheCache /\ NothingIsLeft
=============================================================================
