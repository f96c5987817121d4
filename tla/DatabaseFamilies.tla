-------------------------- MODULE DatabaseFamilies --------------------------
(* Which database a worktree reads, writes and cleans: the file names of     *)
(* branches and detached commits, the names older binaries used, and the     *)
(* families that clean may delete, while the user checks out, deletes        *)
(* branches and lets Git drop commits.                                       *)
(*                                                                           *)
(*   names        src/crates/orbit-graph/src/db_path/mod.rs                  *)
(*   selection    src/crates/orbit-graph/src/store/mod.rs, graph/mod.rs      *)
(*   clean        src/crates/orbit-graph/src/clean.rs                        *)
(*                                                                           *)
(* A family is its .db file, [name, branch, commit], the latter two as its   *)
(* meta table has them; locks are IndexStore's matter.                       *)
EXTENDS Procedure, Integers

CONSTANTS
    FamilyCalls,    \* [history, opaque]: commit to itself and its ancestors, and whether Git cannot
                    \* prove unreachability
    Branches,
    GitCommits,
    LegacyStem,     \* branch to its sanitized name
    DetachedStem,   \* commit to detached-<prefix>
    MaxFamilyOps    \* bound on the operations of a behaviour

NoCommit == "none"
Detached == "HEAD"
ExtractorVersion == 2

\* Git has no branch HEAD; the twelve digits of a commit in a file name are
\* taken to name one commit of the repository.
ASSUME FamilyAssumption ==
    /\ Detached \notin Branches /\ NoCommit \notin GitCommits
    /\ \A c, d \in GitCommits : DetachedStem[c] # Detached /\ (DetachedStem[c] = DetachedStem[d] => c = d)
    /\ \A f \in FamilyCalls :
           /\ f.opaque \in BOOLEAN
           /\ \A c \in GitCommits : c \in f.history[c] /\ f.history[c] \subseteq GitCommits
           /\ \A c \in GitCommits : \A d \in f.history[c] : f.history[d] \subseteq f.history[c]

\* graph_db_filename_stem: `~` occurs in no sanitized name.
BranchName(b) == [space |-> "hashed", text |-> b, version |-> ExtractorVersion]
PlainName(text, version) == [space |-> "plain", text |-> text, version |-> version]

\* resolve_db_path_for_commit.
DbName(head) ==
    IF head.branch # Detached THEN BranchName(head.branch)
    ELSE IF head.commit = NoCommit THEN PlainName(Detached, ExtractorVersion)
    ELSE PlainName(DetachedStem[head.commit], ExtractorVersion)

FamilyInit ==
    /\ call \in FamilyCalls
    /\ at = "families"
    /\ acc = [head |-> [branch |-> Detached, commit |-> NoCommit], refs |-> [b \in Branches |-> NoCommit],
              commits |-> GitCommits, files |-> {}, ops |-> 0, op |-> "none",
              opened |-> {}, refused |-> FALSE, deleted |-> {}]

FamilyStep(op, new) ==
    /\ acc.ops < MaxFamilyOps
    /\ acc' = [new EXCEPT !.ops = @ + 1, !.op = op]
    /\ UNCHANGED <<call, at>>

Heads == {[branch |-> b, commit |-> acc.refs[b]] : b \in {b \in Branches : acc.refs[b] # NoCommit}}
         \cup {[branch |-> Detached, commit |-> c] : c \in acc.commits}

\* git checkout and git branch -f, the latter not of the branch checked out.
CheckOut == \E head \in Heads \ {acc.head} : FamilyStep("git", [acc EXCEPT !.head = head])
MoveBranch ==
    \E b \in Branches \ {acc.head.branch}, c \in acc.commits \cup {NoCommit} :
        acc.refs[b] # c /\ FamilyStep("git", [acc EXCEPT !.refs[b] = c])

History(c) == IF c = NoCommit THEN {} ELSE call.history[c]
Referenced(refs) == UNION {History(refs[b]) : b \in Branches}

\* git gc.
DropCommits ==
    FamilyStep("git", [acc EXCEPT !.commits = @ \cap (Referenced(acc.refs) \cup History(acc.head.commit))])

\* A binary from before hashed names, of this extractor version or an older
\* one, syncs a branch; one of any version syncs a detached commit.
OtherBinary ==
    \E version \in 1..3 :
        LET name == IF acc.head.branch # Detached THEN PlainName(LegacyStem[acc.head.branch], version)
                    ELSE [DbName(acc.head) EXCEPT !.version = version]
        IN  /\ acc.head.branch # Detached => version <= ExtractorVersion
            /\ \A file \in acc.files : file.name # name
            /\ FamilyStep("other", [acc EXCEPT !.files = @ \cup {[name |-> name, branch |-> acc.head.branch,
                                                                 commit |-> acc.head.commit]}])

FileNamed(name) == {file \in acc.files : file.name = name}

\* existing_legacy_db_path_for_branch: reused only when it stores this branch.
ExistingLegacy(head) ==
    {name \in {PlainName(LegacyStem[b], ExtractorVersion) : b \in {head.branch} \cap Branches} :
        \E file \in FileNamed(name) : file.branch = head.branch}

\* resolve_worktree_db_path and existing_legacy_db_path.
Selected(head) ==
    IF FileNamed(DbName(head)) # {} \/ ExistingLegacy(head) = {} THEN DbName(head)
    ELSE CHOOSE name \in ExistingLegacy(head) : TRUE

\* validate_identity.
IdentityHolds(file, branch) == file.branch = branch

\* open_at_path: an existing file must be this branch's, a missing one is
\* initialised.
OpenAt(op, name, head) ==
    FamilyStep(op,
        IF FileNamed(name) = {}
        THEN LET file == [name |-> name, branch |-> head.branch, commit |-> head.commit]
             IN  [acc EXCEPT !.files = @ \cup {file}, !.opened = {file}, !.refused = FALSE]
        ELSE LET file == CHOOSE file \in FileNamed(name) : TRUE
             IN  IF IdentityHolds(file, head.branch)
                 THEN [acc EXCEPT !.opened = {file}, !.refused = FALSE]
                 ELSE [acc EXCEPT !.opened = {}, !.refused = TRUE])

\* store::open.
OpenWriter == OpenAt("open", Selected(acc.head), acc.head)

\* open_for_revision: the tree of a commit, whatever is checked out.
OpenRevision ==
    \E c \in acc.commits :
        LET head == [branch |-> Detached, commit |-> c] IN OpenAt("revision", DbName(head), head)

\* open_existing_read_only, and open_existing_for_pinned_target when the
\* checkout moved on after the caller pinned it.
OpenReader ==
    \E head \in Heads :
        /\ FileNamed(Selected(head)) # {}
        /\ head = acc.head \/ acc.op = "git"
        /\ LET file == CHOOSE file \in FileNamed(Selected(head)) : TRUE
               own == IdentityHolds(file, head.branch)
           IN  FamilyStep(IF head = acc.head THEN "open" ELSE "pinned",
                    [acc EXCEPT !.opened = IF own THEN {file} ELSE {}, !.refused = ~own])

\* graph_db_file_metadata: the names that say they are of a detached commit.
ClaimedCommit(name) == {c \in GitCommits : name.space = "plain" /\ name.text = DetachedStem[c]}

\* Seeded bug: the name alone says that a database is of a detached commit.
DetachedMetaTrusted(file) == ClaimedCommit(file.name) # {}

\* detached_db_meta_matches.
DetachedMetaMatches(file) == file.branch = Detached /\ file.commit \in ClaimedCommit(file.name)

\* detached_commit_reachability: the answers Git may give.
Reachability(c) ==
    IF c \notin acc.commits THEN {"unreachable"}
    ELSE IF \E b \in Branches : c \in History(acc.refs[b]) THEN {"reachable"}
    ELSE IF call.opaque THEN {"unknown"} ELSE {"unreachable"}

\* judge_graph_db_family.
Deletable(file) ==
    \/ file.name.version < ExtractorVersion
    \/ /\ file.name.version = ExtractorVersion
       /\ DetachedMetaMatches(file)
       /\ \A c \in ClaimedCommit(file.name) : Reachability(c) = {"unreachable"}

\* clean_old_databases: every family but the selected one is judged; one that
\* another process holds is kept.
Clean ==
    LET judged == {file \in acc.files : file.name # Selected(acc.head) /\ Deletable(file)}
    IN  \E locked \in {{}} \cup {{file} : file \in judged} :
            FamilyStep("clean", [acc EXCEPT !.files = @ \ (judged \ locked), !.deleted = judged \ locked])

FamilyNext ==
    at = "families" /\ (CheckOut \/ MoveBranch \/ DropCommits \/ OtherBinary \/ OpenWriter \/ OpenRevision
                        \/ OpenReader \/ Clean)

---------------------------------------------------------------------------
\* The database that is opened for a checkout holds that checkout's branch,
\* and for a detached one that commit, though an old branch name and a commit
\* may spell the same file name (store/mod.rs: open_at_path; schema.rs:
\* validate_identity).
OpensItsOwn ==
    (at = "families" /\ acc.op = "open" /\ ~acc.refused) =>
        \A file \in acc.opened :
            /\ file.branch = acc.head.branch
            /\ acc.head.branch = Detached => file.commit = acc.head.commit

\* A named branch can always be opened: no other branch's old database stands
\* in its way (store/mod.rs: existing_legacy_db_path_for_branch, "a collision
\* belongs to another branch and is ignored").
BranchesDoNotCollide ==
    (at = "families" /\ acc.op = "open" /\ acc.head.branch # Detached) => ~acc.refused

\* Clean deletes a database of this version only when it is a detached
\* commit's and Git has proved that commit gone or unreachable, and it never
\* deletes a newer one (clean.rs: judge_graph_db_family).
CleanNeedsProof ==
    (at = "families" /\ acc.op = "clean") =>
        \A file \in acc.deleted :
            /\ file.name.version <= ExtractorVersion
            /\ file.name.version = ExtractorVersion =>
                   file.branch = Detached /\ file.commit \notin Referenced(acc.refs)
                   /\ (call.opaque => file.commit \notin acc.commits)
=============================================================================
