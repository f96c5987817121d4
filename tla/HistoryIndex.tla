---------------------------- MODULE HistoryIndex ----------------------------
(* The delivery-history index of a repository: one SQLite database that      *)
(* several processes open, sync from a branch, import into and rebuild.      *)
(*                                                                           *)
(*   src/crates/orbit-graph/src/store/history.rs                             *)
(*   src/crates/orbit-graph-extract/src/history.rs  (what a delivery is)     *)
(*                                                                           *)
(* Every write is one immediate transaction under the index's lock file, so  *)
(* it is one step here; what a call read before that step it keeps in proc.  *)
(* A scope is a branch under an identity of the repository; "cred" stands    *)
(* for the first branch under the identity older programs stored, the one    *)
(* with credentials in it.                                                   *)
EXTENDS Naturals, FiniteSets

CONSTANTS
    Commits,      \* the repository's commits
    Chain,        \* each commit with its first-parent ancestors
    Branches,     \* landing branches; MainBranch is the one that moves
    MainBranch,
    Verified,     \* ids of verified deliveries
    After,        \* the commit each of them landed as
    Procs,        \* processes (or threads) that use the index
    Binary,       \* the extraction contract of each process's program
    SyncLimit,    \* --limit of a sync
    RebuildLimit, \* --limit of a rebuild
    Texts         \* texts a caller may supply for a delivery's task

None == 0
Keys == Branches \cup {"cred"}

\* First-parent ancestry: a commit's chain is finite and in one line, and holds
\* the chains of its members.
IsHistory(chain) ==
    /\ chain \in [Commits -> SUBSET Commits]
    /\ \A c \in Commits :
          /\ IsFiniteSet(chain[c]) /\ c \in chain[c]
          /\ \A x \in chain[c] : chain[x] \subseteq chain[c]
          /\ \A x, y \in chain[c] : /\ x \in chain[y] \/ y \in chain[x]
                                    /\ x \in chain[y] /\ y \in chain[x] => x = y

ASSUME HistoryAssumption ==
    /\ None \notin Commits /\ Commits \cap Verified = {} /\ None \notin Procs
    /\ IsHistory(Chain)
    /\ After \in [Verified -> Commits]
    /\ Binary \in [Procs -> Nat \ {0}]
    /\ MainBranch \in Branches /\ "cred" \notin Branches
    /\ SyncLimit \in Nat \ {0} /\ RebuildLimit \in Nat \ {0}

VARIABLES
    tip,      \* where each branch points
    db,       \* the index's tables
    prev,     \* the database of the previous schema, or NoPrev
    lock,     \* the process that holds the lock file, or None
    proc      \* each process: its place in a call, and what it has read

vars == <<tip, db, prev, lock, proc>>

NoScope == [cursor |-> None, tip |-> None, frontier |-> None]
NoPrev == [contract |-> None, rows |-> [k \in Keys |-> {}], scope |-> [k \in Keys |-> NoScope]]

\* A delivery: a commit (Git-only) or a verified id, the contract it was
\* extracted under, and the task text a caller supplied.
Row(id, contract, text) == [id |-> id, contract |-> contract, text |-> text]
NoText == "none"

\* No file, or one without tables.
Blank == [exists |-> FALSE, contract |-> None, scoped |-> [k \in Keys |-> None],
          rows |-> [k \in Keys |-> {}], scope |-> [k \in Keys |-> NoScope],
          copied |-> FALSE, purge |-> FALSE]

Idle == [pc |-> "idle", key |-> MainBranch, mode |-> "write", scope |-> NoScope,
         next |-> NoScope, batch |-> {}]

-----------------------------------------------------------------------------
(* Commits *)

ChainOf(c) == IF c = None THEN {} ELSE Chain[c]

\* The deliveries of a chain: every commit of it that has a parent.
Deliverable(c) == {x \in ChainOf(c) : Chain[x] # {x}}

\* First-parent steps from c down to its ancestor x.
Steps(c, x) == Cardinality(Chain[c] \ Chain[x])

\* The commit of a part of a chain that the others are ancestors of.
Newest(part) == CHOOSE x \in part : part \subseteq Chain[x]

\* pending_batch: from start towards the cursor or the root, at most SyncLimit
\* commits.  A cursor off the chain is noticed only by a walk that gets to the root.
PendingBatch(cursor, start) ==
    LET ahead == IF cursor \in Chain[start] THEN Chain[start] \ Chain[cursor] ELSE Deliverable(start)
        passed == {x \in ahead : Steps(start, x) < SyncLimit}
        complete == Cardinality(ahead) < SyncLimit
    IN [ok |-> ~(cursor # None /\ cursor \notin Chain[start] /\ complete),
        commits |-> passed,
        complete |-> complete,
        resume |-> IF complete THEN None ELSE Newest(Chain[start] \ passed)]

\* is_first_parent_ancestor, which gives up after SyncLimit steps.
IsFirstParentAncestor(a, c) == a \in Chain[c] /\ Steps(c, a) <= SyncLimit

-----------------------------------------------------------------------------
(* Tables *)

Stored(d, k) == d.rows[k] # {} \/ d.scope[k] # NoScope
Ids(d, k) == {r.id : r \in d.rows[k]}
GitIds(d, k) == Ids(d, k) \cap Commits
VerifiedRows(d, k) == {r \in d.rows[k] : r.id \in Verified}

\* scope_contract_version: the scope's own contract, else the database's.
ContractOf(d, k) == IF d.scoped[k] # None THEN d.scoped[k] ELSE d.contract

\* refuse_unsupported_contracts.
Understood(d, v) == d.contract <= v /\ \A k \in Keys : d.scoped[k] <= v

Insert(d, k, rows) == [d EXCEPT !.rows[k] = @ \cup rows]
GitRows(commits, v) == {Row(c, v, NoText) : c \in commits}

\* Seeded bug: one rebuilt scope stamps the whole database.
StampAll(d, k, v) ==
    [d EXCEPT !.contract = v, !.scoped = [j \in Keys |-> None]]

\* stamp_rebuilt_scope: the database's contract moves once every stored scope has.
StampRebuiltScope(d, k, v) ==
    LET e == [d EXCEPT !.scoped[k] = v]
    IN IF \A j \in Keys : Stored(e, j) => ContractOf(e, j) = v
       THEN [e EXCEPT !.contract = v, !.scoped = [j \in Keys |-> None]]
       ELSE e

\* migrate_credentialed_scopes, its transaction.
MoveIdentity(d) ==
    [d EXCEPT !.rows["cred"] = {}, !.rows[MainBranch] = d.rows["cred"],
              !.scope["cred"] = NoScope, !.scope[MainBranch] = d.scope["cred"],
              !.scoped["cred"] = None,
              !.scoped[MainBranch] = IF d.scoped["cred"] # None THEN d.scoped["cred"] ELSE @,
              !.purge = TRUE]

-----------------------------------------------------------------------------
(* The branch moves, processes fail *)

Goto(p, pc) == proc' = [proc EXCEPT ![p].pc = pc]

\* A call ends and its handle stays open.
Return(p) ==
    proc' = [proc EXCEPT ![p] = [Idle EXCEPT !.pc = "opened", !.key = proc[p].key,
                                             !.mode = proc[p].mode]]

\* A commit lands, or the branch is reset or forced.
MoveBranch(c) ==
    /\ tip[MainBranch] # c
    /\ tip' = [tip EXCEPT ![MainBranch] = c]
    /\ UNCHANGED <<db, prev, lock, proc>>

\* An error before a transaction commits, or a process that dies or closes its handle.
Abandon(p) ==
    /\ proc[p].pc # "idle"
    /\ proc' = [proc EXCEPT ![p] = Idle]
    /\ lock' = IF lock = p THEN None ELSE lock
    /\ UNCHANGED <<tip, db, prev>>

-----------------------------------------------------------------------------
(* open, open_for_rebuild, open_read_only *)

\* The lock is taken and, in an empty file, the schema is made.
OpenIndex(p, b, mode) ==
    /\ proc[p].pc = "idle" /\ lock = None
    /\ lock' = p
    /\ db' = IF db.exists THEN db ELSE [Blank EXCEPT !.exists = TRUE, !.contract = Binary[p]]
    /\ proc' = [proc EXCEPT ![p] = [Idle EXCEPT !.pc = "validate", !.key = b, !.mode = mode]]
    /\ UNCHANGED <<tip, prev>>

\* How an open ends: with a handle, or with an error.
EndOpen(p, ok) ==
    /\ proc' = [proc EXCEPT ![p] = IF ok THEN [@ EXCEPT !.pc = "opened"] ELSE Idle]
    /\ lock' = None

\* A purge an earlier open left pending, then the versions; a rebuild takes older contracts.
ValidateVersions(p) ==
    /\ proc[p].pc = "validate"
    /\ db' = IF proc[p].mode = "write" THEN [db EXCEPT !.purge = FALSE] ELSE db
    /\ IF IF proc[p].mode = "rebuild" \/ Stored(db, "cred")
          THEN Understood(db, Binary[p])
          ELSE ContractOf(db, proc[p].key) = Binary[p]
       THEN /\ Goto(p, IF proc[p].mode = "write" THEN "copy" ELSE "migrate")
            /\ UNCHANGED lock
       ELSE EndOpen(p, FALSE)
    /\ UNCHANGED <<tip, prev>>

\* copy_previous_schema_once.
CopyPreviousSchemaOnce(p) ==
    /\ proc[p].pc = "copy"
    /\ db' = IF db.copied THEN db
             ELSE IF prev.contract = Binary[p] /\ \A k \in Keys : ~Stored(db, k)
             THEN [db EXCEPT !.copied = TRUE, !.rows = prev.rows, !.scope = prev.scope]
             ELSE [db EXCEPT !.copied = TRUE]
    /\ Goto(p, "migrate")
    /\ UNCHANGED <<tip, prev, lock>>

\* migrate_credentialed_scopes; scopes that would collide are refused.
MigrateCredentialedScopes(p) ==
    /\ proc[p].pc = "migrate"
    /\ \/ /\ ~Stored(db, "cred")
          /\ UNCHANGED db
       \/ /\ Stored(db, "cred") /\ ~Stored(db, MainBranch)
          /\ db' = MoveIdentity(db)
    /\ Goto(p, "purge")
    /\ UNCHANGED <<tip, prev, lock>>

\* finish_identity_purge (fails, as Abandon, while another program reads the database)
\* and the last check of the versions.
FinishOpen(p) ==
    /\ proc[p].pc = "purge"
    /\ db' = [db EXCEPT !.purge = FALSE]
    /\ EndOpen(p, proc[p].mode = "write" => ContractOf(db, proc[p].key) = Binary[p])
    /\ UNCHANGED <<tip, prev>>

\* open_read_only and refuse_credentialed_scope: who may read a branch's deliveries.
MayRead(p, b) ==
    db.exists /\ ~db.purge /\ ~Stored(db, "cred") /\ ContractOf(db, b) = Binary[p]

-----------------------------------------------------------------------------
(* sync *)

\* The scope is read without the lock.
ReadScope(p) ==
    /\ proc[p].pc = "opened" /\ proc[p].mode = "write"
    /\ proc' = [proc EXCEPT ![p].pc = "walk", ![p].scope = db.scope[proc[p].key]]
    /\ UNCHANGED <<tip, db, prev, lock>>

\* Then the branch: the commits of this batch are found and extracted.
WalkBatch(p) ==
    LET s == proc[p].scope
        now == tip[proc[p].key]
        frozen == IF s.tip # None THEN s.tip ELSE now
        batch == PendingBatch(s.cursor, IF s.frontier # None THEN s.frontier ELSE frozen)
    IN /\ proc[p].pc = "walk"
       /\ frozen # now => IsFirstParentAncestor(frozen, now)
       /\ batch.ok
       /\ proc' = [proc EXCEPT ![p].pc = "sync", ![p].batch = batch.commits,
            ![p].next = IF batch.complete
                        THEN [NoScope EXCEPT !.cursor = frozen]
                        ELSE [cursor |-> s.cursor, tip |-> frozen, frontier |-> batch.resume]]
       /\ UNCHANGED <<tip, db, prev, lock>>

\* Seeded bug: the scope is not looked at again under the lock.
CommitSyncBlindly(p) ==
    LET k == proc[p].key
    IN /\ proc[p].pc = "sync" /\ lock = None
       /\ db' = [Insert(db, k, GitRows(proc[p].batch \ GitIds(db, k), Binary[p]))
                  EXCEPT !.scope[k] = proc[p].next]
       /\ Return(p)
       /\ UNCHANGED <<tip, prev, lock>>

\* The transaction.  A delivery that is there already ends the sync with an error,
\* unless it was captured in the same second and is therefore equal.
CommitSync(p) ==
    LET k == proc[p].key
    IN /\ proc[p].pc = "sync" /\ lock = None
       /\ db.scope[k] = proc[p].scope
       /\ \A r \in db.rows[k] : r.id \in proc[p].batch => r.contract = Binary[p]
       /\ db' = [Insert(db, k, GitRows(proc[p].batch \ GitIds(db, k), Binary[p]))
                  EXCEPT !.scope[k] = proc[p].next]
       /\ Return(p)
       /\ UNCHANGED <<tip, prev, lock>>

-----------------------------------------------------------------------------
(* rebuild *)

\* The branch and its commits, before the lock; fewer than RebuildLimit of them.
WalkAll(p) ==
    LET now == tip[proc[p].key]
    IN /\ proc[p].pc = "opened"
       /\ Cardinality(Deliverable(now)) < RebuildLimit
       /\ proc' = [proc EXCEPT ![p].pc = "rebuild", ![p].batch = Deliverable(now),
                               ![p].next = [NoScope EXCEPT !.cursor = now]]
       /\ UNCHANGED <<tip, db, prev, lock>>

\* Seeded bug: re-extracted deliveries lose what callers supplied.
PreservedWithoutText(d, k, v) == {Row(r.id, v, NoText) : r \in VerifiedRows(d, k)}

\* Verified deliveries, extracted again; each must still be on the branch.
Preserved(d, k, v) == {Row(r.id, v, r.text) : r \in VerifiedRows(d, k)}

CommitRebuild(p, discard) ==
    LET k == proc[p].key
        kept == IF discard THEN {} ELSE Preserved(db, k, Binary[p])
    IN /\ proc[p].pc = "rebuild" /\ lock = None
       /\ \A r \in kept : After[r.id] \in Chain[tip[k]]
       /\ Understood(db, Binary[p])
       /\ db' = StampRebuiltScope(
                    [db EXCEPT !.rows[k] = kept \cup GitRows(proc[p].batch, Binary[p]),
                               !.scope[k] = proc[p].next], k, Binary[p])
       /\ Return(p)
       /\ UNCHANGED <<tip, prev, lock>>

-----------------------------------------------------------------------------
(* import, add_supplied_snapshot *)

\* validate_delivery and extract_delivery, before the lock.
ExtractImport(p, v) ==
    /\ proc[p].pc = "opened" /\ proc[p].mode = "write"
    /\ After[v] \in Chain[tip[proc[p].key]]
    /\ proc' = [proc EXCEPT ![p].pc = "import", ![p].batch = {v}]
    /\ UNCHANGED <<tip, db, prev, lock>>

\* insert_delivery: a new row, or a first text for the one that is there.
Attach(d, k, v, contract, text) ==
    IF v \notin Ids(d, k) THEN Insert(d, k, {Row(v, contract, text)})
    ELSE [d EXCEPT !.rows[k] = {IF r.id = v /\ r.text = NoText THEN [r EXCEPT !.text = text]
                                ELSE r : r \in @}]

\* A text that differs from the stored one, or other content, is refused.
CommitImport(p, text) ==
    LET k == proc[p].key
        v == CHOOSE x \in proc[p].batch : TRUE
    IN /\ proc[p].pc = "import" /\ lock = None
       /\ \A r \in db.rows[k] :
             r.id = v => r.contract = Binary[p] /\ (r.text # NoText => text \in {NoText, r.text})
       /\ db' = Attach(db, k, v, Binary[p], text)
       /\ Return(p)
       /\ UNCHANGED <<tip, prev, lock>>

\* add_supplied_snapshot, for a verified delivery that has no text yet.
AddSuppliedSnapshot(p, v, text) ==
    LET k == proc[p].key
    IN /\ proc[p].pc = "opened" /\ proc[p].mode = "write" /\ lock = None
       /\ \E r \in db.rows[k] : r.id = v /\ r.text = NoText
       /\ db' = Attach(db, k, v, Binary[p], text)
       /\ UNCHANGED <<tip, prev, lock, proc>>

-----------------------------------------------------------------------------

\* What an index may hold when it is first met: nothing, an older contract's scopes, or
\* a scope under the old identity, one that an older program may have rebuilt.
Held(contract, keys, old) ==
    [Blank EXCEPT !.exists = TRUE, !.contract = contract, !.copied = TRUE,
        !.rows = [k \in Keys |->
            IF k \notin keys THEN {}
            ELSE GitRows(Deliverable(After[old]), contract) \cup
                 (IF k = "other" THEN {} ELSE {Row(old, contract, NoText)})],
        !.scope = [k \in Keys |->
            IF k \in keys THEN [NoScope EXCEPT !.cursor = After[old]] ELSE NoScope]]

Next ==
    \/ \E c \in Commits : MoveBranch(c)
    \/ \E p \in Procs :
          \/ Abandon(p)
          \/ \E b \in Branches, mode \in {"write", "rebuild"} : OpenIndex(p, b, mode)
          \/ ValidateVersions(p)
          \/ CopyPreviousSchemaOnce(p)
          \/ MigrateCredentialedScopes(p)
          \/ FinishOpen(p)
          \/ ReadScope(p)
          \/ WalkBatch(p)
          \/ CommitSync(p)
          \/ WalkAll(p)
          \/ \E discard \in BOOLEAN : CommitRebuild(p, discard)
          \/ \E v \in Verified : ExtractImport(p, v)
          \/ \E text \in Texts \cup {NoText} : CommitImport(p, text)
          \/ \E v \in Verified, text \in Texts : AddSuppliedSnapshot(p, v, text)

Contracts == {Binary[p] : p \in Procs}

Init ==
    \E new \in Contracts, old \in Verified :
       /\ tip = [b \in Branches |-> After[old]]
       /\ \/ db = Blank /\ prev = NoPrev
          \/ /\ db = Blank
             /\ prev = [contract |-> new, rows |-> Held(new, {"cred"}, old).rows,
                        scope |-> Held(new, {"cred"}, old).scope]
          \/ db = Held(new - 1, Branches, old) /\ prev = NoPrev
          \/ /\ \E scoped \in {None, new} :
                   db = [Held(new - 1, {"cred"}, old) EXCEPT
                            !.rows["cred"] = {Row(r.id, IF scoped = None THEN new - 1 ELSE new,
                                                  NoText) : r \in @},
                            !.scoped["cred"] = scoped]
             /\ prev = NoPrev
       /\ lock = None
       /\ proc = [p \in Procs |-> Idle]

Spec == Init /\ [][Next]_vars

-----------------------------------------------------------------------------
(* Properties *)

Scopes == [cursor : Commits \cup {None}, tip : Commits \cup {None},
           frontier : Commits \cup {None}]
Rows == [id : Commits \cup Verified, contract : Nat, text : Texts \cup {NoText}]
Opening == {"validate", "copy", "migrate", "purge"}

Tables == [exists : BOOLEAN, contract : Nat, scoped : [Keys -> Nat],
           rows : [Keys -> SUBSET Rows], scope : [Keys -> Scopes],
           copied : BOOLEAN, purge : BOOLEAN]
OldTables == [contract : Nat, rows : [Keys -> SUBSET Rows], scope : [Keys -> Scopes]]
Works == [pc : Opening \cup {"idle", "opened", "walk", "sync", "rebuild", "import"},
          key : Branches, mode : {"write", "rebuild"}, scope : Scopes, next : Scopes,
          batch : SUBSET (Commits \cup Verified)]

TypeOK ==
    /\ tip \in [Branches -> Commits]
    /\ db \in Tables
    /\ prev \in OldTables
    /\ lock \in Procs \cup {None}
    /\ proc \in [Procs -> Works]

\* The commits a scope's cursor and bounded bootstrap vouch for.
Covered(s) == Deliverable(s.cursor) \cup (Deliverable(s.tip) \ ChainOf(s.frontier))

\* The cursor tells the truth: whatever syncs, rebuilds, imports and forced branches
\* interleave, a scope's Git-only rows are exactly the commits its cursor and its bounded
\* bootstrap say have been indexed (sync_impl, rebuild_with_options).
CursorCoversRows == \A k \in Keys : GitIds(db, k) = Covered(db.scope[k])

\* Whoever may read a branch reads only deliveries extracted under its own contract: a
\* scope that was not re-extracted never becomes readable as current, whichever scopes are
\* rebuilt, migrated or copied in whichever order (stamp_rebuilt_scope).
ReadableIsCurrent ==
    \A p \in Procs, b \in Branches :
       MayRead(p, b) => \A r \in db.rows[b] : r.contract = Binary[p]

\* A verified delivery, and a text supplied for it, can only be lost to a rebuild that was
\* told to discard it: not to a migration, a copy, a racing rebuild or another import.
Kept(k, j) ==
    \A r \in VerifiedRows(db, k) :
       \E q \in VerifiedRows(db', j) : q.id = r.id /\ (r.text # NoText => q.text = r.text)

VerifiedStay ==
    [][ \/ \A k \in Keys : Kept(k, k) \/ (k = "cred" /\ Kept(k, MainBranch))
        \/ \E p \in Procs : CommitRebuild(p, TRUE) ]_vars

-----------------------------------------------------------------------------
(* The inductive invariants behind the three properties.                     *)

\* A process opens the index under the lock, and one that has opened it exists.
LockHeld ==
    \A p \in Procs : /\ lock = p <=> proc[p].pc \in Opening
                     /\ proc[p].pc # "idle" => db.exists
NotMade == ~db.exists => db = Blank

\* A bounded bootstrap stands on the chain of the tip it was begun at.
Formed(s) == (s.tip = None <=> s.frontier = None) /\ (s.tip # None => s.frontier \in Chain[s.tip])

\* What a table holds under a scope agrees with the scope.
Agrees(rows, s) == Formed(s) /\ {r.id : r \in rows} \cap Commits = Covered(s)

\* A batch is what its scope lacks of the scope that follows it.
BatchFits(w) ==
    /\ w.pc \in {"walk", "sync"} => Formed(w.scope)
    /\ w.pc = "sync" => /\ Formed(w.next) /\ w.next # NoScope /\ w.batch \subseteq Commits
                        /\ Covered(w.next) = Covered(w.scope) \cup w.batch
    /\ w.pc = "rebuild" => /\ Formed(w.next) /\ w.next # NoScope
                           /\ w.batch = Covered(w.next)
    /\ w.pc = "import" => \E v \in Verified : w.batch = {v}

CoverInv ==
    /\ TypeOK /\ LockHeld /\ NotMade
    /\ \A k \in Keys : Agrees(db.rows[k], db.scope[k]) /\ Agrees(prev.rows[k], prev.scope[k])
    /\ \A p \in Procs : BatchFits(proc[p])

\* Under one program of contract v: a scope counts as current only with rows of v,
\* and has a contract of its own only if it has rows or a cursor.
RowsUnder(rows, v) == \A r \in rows : r.contract = v
ContractInv(v) ==
    /\ \A k \in Keys : /\ ContractOf(db, k) = v => RowsUnder(db.rows[k], v)
                       /\ prev.contract = v => RowsUnder(prev.rows[k], v)
                       /\ db.scoped[k] # None => Stored(db, k)
    /\ \A p \in Procs : proc[p].pc = "copy" /\ (\A k \in Keys : ~Stored(db, k)) => db.contract = v
=============================================================================
