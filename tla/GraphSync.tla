----------------------------- MODULE GraphSync -----------------------------
(* One database's synchronization pipeline: scan, pass 1 and pass 2, run    *)
(* while the worktree is edited and while the run may be killed, fail or be *)
(* cancelled at any step.                                                   *)
(*                                                                          *)
(*   scan    src/crates/orbit-graph/src/sync/scanner.rs                     *)
(*   pass 1  src/crates/orbit-graph/src/sync/pass1.rs                       *)
(*   pass 2  src/crates/orbit-graph/src/sync/pass2.rs                       *)
(*   order   src/crates/orbit-graph/src/sync/mod.rs                         *)
(*                                                                          *)
(* Every run holds the database's sync lock from before its scan until it   *)
(* returns, so there is one run at a time and its working state is global.  *)
(*                                                                          *)
(* Abstractions.  A file's contents are a member of Contents; equal members *)
(* have equal blake3 hashes and different ones different hashes.  A symbol  *)
(* is its name, the stored resolution of a ref is the set of files whose    *)
(* symbols are candidates for it: every rung of the ladder picks from the   *)
(* candidates named like the ref (pass2.rs, resolve_ref) or reached by a    *)
(* public re-export (resolve_reexport).  A read of a file is atomic.        *)
(* Writing a file gives it any mtime up to the present: copy and archive    *)
(* tools preserve old ones, and clocks are coarse.                          *)
EXTENDS Integers

CONSTANTS
    Files,          \* paths of the worktree the extractors support
    Contents,       \* what a file may contain
    Names,          \* symbol names
    Absent,         \* "no such file" on disk, "no such row" in the database
    Pending,        \* PENDING_CONTENT_HASH: the hash of no content
    ByteLen,        \* [Contents -> Nat]
    MaxFileBytes,   \* MAX_FILE_BYTES, the cap on an indexed file
    Defines,        \* [Contents -> SUBSET Names], the symbols it declares
    Uses,           \* [Contents -> SUBSET Names], the names its refs target
    Aliases,        \* [Contents -> SUBSET (Names \X Names)]; <<a, b>> stands
                    \* for a public re-export of b under the name a
    Manifests,      \* the files named Cargo.toml
    EpochFiles,     \* files whose mtime is the Unix epoch at the start
    MaxClock        \* bound on the number of edits of the worktree

ASSUME NamesAssumption ==
    /\ Absent \notin Contents
    /\ Pending \notin Contents
    /\ Absent # Pending

ASSUME TablesAssumption ==
    /\ ByteLen \in [Contents -> Nat]
    /\ MaxFileBytes \in Nat
    /\ Defines \in [Contents -> SUBSET Names]
    /\ Uses \in [Contents -> SUBSET Names]
    /\ Aliases \in [Contents -> SUBSET (Names \X Names)]
    /\ Manifests \subseteq Files
    /\ EpochFiles \subseteq Files
    /\ MaxClock \in Nat

PendingMtime == 0       \* PENDING_MTIME_NS
NoLen == -1
NoMtime == -1

Content == Contents \cup {Absent}

VARIABLES
    disk,       \* [Files -> Content], the worktree
    mtime,      \* [Files -> Nat], its modification times
    clock,      \* the present: edits of the worktree, each a tick later
    body,       \* the contents a file's symbol and import rows come from
    hash,       \* files.content_hash
    stamp,      \* files.mtime_ns
    size,       \* files.byte_len
    refs,       \* stored refs of a file: pairs <<name, candidate files>>
    pending,    \* meta.sync_pending is present
    phase,      \* where the run is: idle, scan, pass1, done
    mode,       \* SyncMode of the run
    statTime,   \* mtimes the walk saw
    statLen,    \* lengths the walk saw
    scanq,      \* walked files not classified yet
    chg,        \* diff.modified and diff.new, less the files pass 1 settled
    deleted,    \* diff.deleted, less the files pass 1 removed
    oversize,   \* diff.oversize
    failed,     \* paths that could not be read or extracted
    before,     \* definitions_before_pass1: bodies of modified and deleted files
    all,        \* the run re-resolves every stored ref (Reresolve::All)
    got,        \* the bytes extraction read
    gotTime,    \* the mtime extraction read after them
    written,    \* the files pass 1 wrote: refs_by_file
    had,        \* history: pairs <<mtime, contents>> that a file had on disk
    edited,     \* history: files edited since the walk
    hit,        \* history: files edited between the two reads of extraction
    raced       \* history: files whose rows join the mtime of one moment with
                \* the bytes of another, an edit between them

worktree == <<disk, mtime, clock>>
database == <<body, hash, stamp, size, refs, pending>>
diff == <<scanq, chg, deleted, oversize, failed>>
run == <<phase, mode, statTime, statLen, diff, before, all, got,
         gotTime, written>>
history == <<had, edited, hit, raced>>
vars == <<worktree, database, run, history>>

-----------------------------------------------------------------------------
(* Resolution of refs, pass2.rs.                                            *)

DefinesOf(c) == IF c = Absent THEN {} ELSE Defines[c]
AliasesOf(c) == IF c = Absent THEN {} ELSE Aliases[c]

\* The files that declare n when file g holds the symbols of b[g].
Direct(n, b) == {g \in Files : n \in DefinesOf(b[g])}

\* A set of names closed under public re-exports: what one exposes as a member
\* is a member.
ReexportClosed(S, b) ==
    \A g \in Files : \A p \in AliasesOf(b[g]) : p[1] \in S => p[2] \in S

\* n and the names its re-exports lead to, hop after hop (resolve_reexport).
Via(n, b) ==
    {m \in Names : \A S \in SUBSET Names : n \in S /\ ReexportClosed(S, b) => m \in S}

\* The candidates of a ref that names n.
Candidates(n, b) == UNION {Direct(m, b) : m \in Via(n, b)}

\* Every ref of a file holding c, resolved.
ResolveFile(c, b) == {<<n, Candidates(n, b)>> : n \in Uses[c]}

\* Stored refs rs after the ones that name a member of ns are re-resolved.
ReresolveStored(rs, ns, b) ==
    {<<r[1], IF r[1] \in ns THEN Candidates(r[1], b) ELSE r[2]>> : r \in rs}

\* Dependents::between: the names whose definitions in a changed or removed
\* file differ from what the file defined before pass 1.
Touched == {f \in Files : before[f] # Absent} \cup written

ChangedNames ==
    {n \in Names : \E f \in Touched :
        (n \in DefinesOf(before[f])) # (n \in DefinesOf(body[f]))}

\* A re-export in a changed file, before or after, refreshes every ref.
ReexportsChanged ==
    \E f \in Touched : AliasesOf(before[f]) \cup AliasesOf(body[f]) # {}

RefreshedNames == IF all \/ ReexportsChanged THEN Names ELSE ChangedNames

\* Seeded bug: an unfinished earlier sync is not looked for.
ReresolveAllForgetful == mode = "full" \/ (chg \cup deleted) \cap Manifests # {}

\* Reresolve::All: an earlier sync is unfinished, the run is full, or a Cargo
\* manifest changed.
ReresolveAll ==
    pending \/ mode = "full" \/ (chg \cup deleted) \cap Manifests # {}

\* Seeded bugs: pass 1 stamps its rows as if they were current.
RowHashEarly(f) == got[f]
RowStampEarly(f) == gotTime[f]

\* content_hash and mtime_ns of a row pass 1 writes.
RowHash(f) == Pending
RowStamp(f) == PendingMtime

-----------------------------------------------------------------------------
Init ==
    /\ disk \in [Files -> Content]
    /\ mtime = [f \in Files |-> IF f \in EpochFiles THEN 0 ELSE 1]
    /\ clock = 1
    /\ body = [f \in Files |-> Absent]
    /\ hash = [f \in Files |-> Absent]
    /\ stamp = [f \in Files |-> PendingMtime]
    /\ size = [f \in Files |-> NoLen]
    /\ refs = [f \in Files |-> {}]
    /\ pending = FALSE
    /\ phase = "idle"
    /\ mode = "auto"
    /\ statTime = [f \in Files |-> NoMtime]
    /\ statLen = [f \in Files |-> NoLen]
    /\ scanq = {} /\ chg = {} /\ deleted = {} /\ oversize = {} /\ failed = {}
    /\ before = [f \in Files |-> Absent]
    /\ all = FALSE
    /\ got = [f \in Files |-> Absent]
    /\ gotTime = [f \in Files |-> NoMtime]
    /\ written = {}
    /\ had = [f \in Files |-> IF disk[f] = Absent THEN {} ELSE {<<mtime[f], disk[f]>>}]
    /\ edited = {} /\ hit = {} /\ raced = {}

\* The run's working state is dropped when it returns or its process dies.
ForgetRun ==
    /\ phase' = "idle"
    /\ mode' = "auto"
    /\ statTime' = [f \in Files |-> NoMtime]
    /\ statLen' = [f \in Files |-> NoLen]
    /\ scanq' = {} /\ chg' = {} /\ deleted' = {} /\ oversize' = {}
    /\ failed' = {}
    /\ before' = [f \in Files |-> Absent]
    /\ all' = FALSE
    /\ got' = [f \in Files |-> Absent]
    /\ gotTime' = [f \in Files |-> NoMtime]
    /\ written' = {}
    /\ edited' = {} /\ hit' = {}
    /\ UNCHANGED <<had, raced>>

-----------------------------------------------------------------------------
\* Environment: f is created, rewritten, touched or removed; what is written
\* has the mtime t, now or any earlier.
Edit(f, c, t) ==
    /\ clock < MaxClock
    /\ c = Absent => disk[f] # Absent /\ t = mtime[f]
    /\ disk' = [disk EXCEPT ![f] = c]
    /\ clock' = clock + 1
    /\ mtime' = [mtime EXCEPT ![f] = t]
    /\ had' = IF c = Absent THEN had ELSE [had EXCEPT ![f] = @ \cup {<<t, c>>}]
    /\ edited' = edited \cup {f}
    /\ hit' = IF got[f] # Absent /\ gotTime[f] = NoMtime
              THEN hit \cup {f} ELSE hit
    /\ UNCHANGED <<database, run, raced>>

\* Whether the walk measures f above the cap.
TooLong(c) == c # Absent /\ ByteLen[c] > MaxFileBytes

LenOf(c) == IF c = Absent THEN NoLen ELSE ByteLen[c]

\* Seeded bug: a row whose file outgrew the cap stays.
MissingRowsShort(unread) ==
    {f \in Files \ unread : body[f] # Absent /\ disk[f] = Absent}

\* The rows without a walked file at or below the cap.
MissingRows(unread) ==
    {f \in Files \ unread : /\ body[f] # Absent
                            /\ disk[f] = Absent \/ TooLong(disk[f])}

\* scan, first half: the rows are loaded and the worktree walked.  unread are
\* the files under paths the walk could not read; what is indexed for them is
\* kept.
StartScan(m, unread) ==
    /\ phase = "idle"
    /\ phase' = "scan"
    /\ mode' = m
    /\ statTime' = mtime
    /\ statLen' = [f \in Files |-> LenOf(disk[f])]
    /\ scanq' = {f \in Files \ unread : disk[f] # Absent /\ ~TooLong(disk[f])}
    /\ oversize' = {f \in Files \ unread : TooLong(disk[f])}
    /\ deleted' = MissingRows(unread)
    /\ failed' = unread
    /\ edited' = {}
    /\ hit' = {}
    /\ UNCHANGED <<worktree, database, chg, before, all, got, gotTime, written,
                   had, raced>>

\* The mtime and length an automatic sync trusts without reading the file.
FastPath(f) ==
    /\ body[f] # Absent
    /\ mode = "auto"
    /\ stamp[f] = statTime[f]
    /\ size[f] = statLen[f]

\* Seeded bug: the lengths are compared instead of the hashes.
SameContentByLen(f) == body[f] # Absent /\ mode = "auto" /\ size[f] = LenOf(disk[f])

\* An automatic sync finds the indexed hash.
SameContent(f) == body[f] # Absent /\ mode = "auto" /\ hash[f] = disk[f]

\* scan: the fast path leaves the file as it is indexed.
ScanUnread(f) ==
    /\ phase = "scan" /\ f \in scanq
    /\ FastPath(f)
    /\ scanq' = scanq \ {f}
    /\ UNCHANGED <<worktree, database, phase, mode, statTime, statLen,
                   chg, deleted, oversize, failed, before, all, got, gotTime,
                   written, history>>

\* scan: the file is read and hashed; a file with the indexed hash has only
\* its mtime refreshed, with the one the walk saw.
ScanHash(f) ==
    /\ phase = "scan" /\ f \in scanq
    /\ ~FastPath(f)
    /\ disk[f] # Absent
    /\ scanq' = scanq \ {f}
    /\ \/ /\ TooLong(disk[f])
          /\ oversize' = oversize \cup {f}
          /\ UNCHANGED <<chg, stamp, raced>>
       \/ /\ ~TooLong(disk[f])
          /\ SameContent(f)
          /\ stamp' = [stamp EXCEPT ![f] = statTime[f]]
          /\ raced' = IF f \in edited THEN raced \cup {f} ELSE raced \ {f}
          /\ UNCHANGED <<chg, oversize>>
       \/ /\ ~TooLong(disk[f])
          /\ ~SameContent(f)
          /\ chg' = chg \cup {f}
          /\ UNCHANGED <<stamp, oversize, raced>>
    /\ UNCHANGED <<worktree, body, hash, size, refs, pending, phase, mode,
                   statTime, statLen, deleted, failed, before, all,
                   got, gotTime, written, had, edited, hit>>

\* scan: the file vanished or cannot be read; what is indexed for it is kept.
ScanFails(f) ==
    /\ phase = "scan" /\ f \in scanq
    /\ ~FastPath(f)
    /\ scanq' = scanq \ {f}
    /\ failed' = failed \cup {f}
    /\ UNCHANGED <<worktree, database, phase, mode, statTime, statLen,
                   chg, deleted, oversize, before, all, got, gotTime, written,
                   history>>

\* write: nothing changed and no earlier sync is unfinished.
NothingToWrite ==
    /\ phase = "scan" /\ scanq = {}
    /\ chg = {} /\ deleted = {} /\ ~pending
    /\ phase' = "done"
    /\ UNCHANGED <<worktree, database, mode, statTime, statLen, diff,
                   before, all, got, gotTime, written, history>>

\* write: the definitions pass 1 will replace are captured, unless every ref is
\* re-resolved anyway, and the database is marked as holding an unfinished sync.
BeginWrite ==
    /\ phase = "scan" /\ scanq = {}
    /\ chg # {} \/ deleted # {} \/ pending
    /\ phase' = "pass1"
    /\ all' = ReresolveAll
    /\ before' = [f \in Files |-> IF f \in chg \cup deleted /\ ~ReresolveAll
                                  THEN body[f] ELSE Absent]
    /\ pending' = TRUE
    /\ UNCHANGED <<worktree, body, hash, stamp, size, refs, mode,
                   statTime, statLen, diff, got, gotTime, written, history>>

\* pass 1, delete_file_transaction: the row goes and its rows cascade.
DeleteFile(f) ==
    /\ phase = "pass1" /\ f \in deleted
    /\ deleted' = deleted \ {f}
    /\ body' = [body EXCEPT ![f] = Absent]
    /\ hash' = [hash EXCEPT ![f] = Absent]
    /\ stamp' = [stamp EXCEPT ![f] = PendingMtime]
    /\ size' = [size EXCEPT ![f] = NoLen]
    /\ refs' = [refs EXCEPT ![f] = {}]
    /\ UNCHANGED <<worktree, pending, phase, mode, statTime, statLen,
                   scanq, chg, oversize, failed, before, all, got, gotTime,
                   written, history>>

\* pass 1, extract: the bytes are read ...
ReadBytes(f) ==
    /\ phase = "pass1" /\ deleted = {} /\ f \in chg
    /\ got[f] = Absent
    /\ disk[f] # Absent /\ ~TooLong(disk[f])
    /\ got' = [got EXCEPT ![f] = disk[f]]
    /\ UNCHANGED <<worktree, database, phase, mode, statTime, statLen,
                   diff, before, all, gotTime, written, history>>

\* ... and then, by a second look at the path, the mtime.
ReadMtime(f) ==
    /\ phase = "pass1" /\ f \in chg
    /\ got[f] # Absent /\ gotTime[f] = NoMtime
    /\ disk[f] # Absent
    /\ gotTime' = [gotTime EXCEPT ![f] = mtime[f]]
    /\ UNCHANGED <<worktree, database, phase, mode, statTime, statLen,
                   diff, before, all, got, written, history>>

\* pass 1: reading, parsing or the extractor failed; the file keeps its rows.
ExtractFails(f) ==
    /\ phase = "pass1" /\ deleted = {} /\ f \in chg
    /\ chg' = chg \ {f}
    /\ failed' = failed \cup {f}
    /\ got' = [got EXCEPT ![f] = Absent]
    /\ gotTime' = [gotTime EXCEPT ![f] = NoMtime]
    /\ UNCHANGED <<worktree, database, phase, mode, statTime, statLen,
                   scanq, deleted, oversize, before, all, written, history>>

\* pass 1, write_file_transaction: new rows under a row that is not current.
WriteFile(f) ==
    /\ phase = "pass1" /\ f \in chg
    /\ gotTime[f] # NoMtime
    /\ chg' = chg \ {f}
    /\ written' = written \cup {f}
    /\ body' = [body EXCEPT ![f] = got[f]]
    /\ hash' = [hash EXCEPT ![f] = RowHash(f)]
    /\ stamp' = [stamp EXCEPT ![f] = RowStamp(f)]
    /\ size' = [size EXCEPT ![f] = ByteLen[got[f]]]
    /\ refs' = [refs EXCEPT ![f] = {}]
    /\ raced' = IF f \in hit THEN raced \cup {f} ELSE raced \ {f}
    /\ UNCHANGED <<worktree, pending, phase, mode, statTime, statLen,
                   scanq, deleted, oversize, failed, before, all, got, gotTime,
                   had, edited, hit>>

\* pass 1: the cancellation of an observer, if the run has one, is seen before a
\* deletion, a chunk or a file; pass 2 does not run.
Cancel ==
    /\ phase = "pass1"
    /\ deleted \cup chg # {}
    /\ ForgetRun
    /\ UNCHANGED <<worktree, database>>

\* pass 2: one transaction stamps the written files current, stores their refs,
\* re-resolves the refs elsewhere that may have changed and clears the marker.
Pass2 ==
    /\ phase = "pass1" /\ deleted = {} /\ chg = {}
    /\ phase' = "done"
    /\ hash' = [f \in Files |-> IF f \in written THEN got[f] ELSE hash[f]]
    /\ stamp' = [f \in Files |-> IF f \in written THEN gotTime[f] ELSE stamp[f]]
    /\ refs' = [f \in Files |->
                  IF f \in written THEN ResolveFile(got[f], body)
                  ELSE ReresolveStored(refs[f], RefreshedNames, body)]
    /\ pending' = FALSE
    /\ UNCHANGED <<worktree, body, size, mode, statTime, statLen, diff,
                   before, all, got, gotTime, written, history>>

\* The run returns its report and drops the lock.
Finish ==
    /\ phase = "done"
    /\ ForgetRun
    /\ UNCHANGED <<worktree, database>>

\* An error is returned, or the process is killed: an open transaction rolls
\* back, what was committed stays, and the lock is released.
Abort ==
    /\ phase # "idle"
    /\ ForgetRun
    /\ UNCHANGED <<worktree, database>>

Next ==
    \/ \E f \in Files, c \in Content, t \in 1 .. clock + 1 : Edit(f, c, t)
    \/ \E m \in {"auto", "full"}, unread \in SUBSET Files : StartScan(m, unread)
    \/ \E f \in Files : ScanUnread(f)
    \/ \E f \in Files : ScanHash(f)
    \/ \E f \in Files : ScanFails(f)
    \/ NothingToWrite
    \/ BeginWrite
    \/ \E f \in Files : DeleteFile(f)
    \/ \E f \in Files : ReadBytes(f)
    \/ \E f \in Files : ReadMtime(f)
    \/ \E f \in Files : ExtractFails(f)
    \/ \E f \in Files : WriteFile(f)
    \/ Cancel
    \/ Pass2
    \/ Finish
    \/ Abort

Spec == Init /\ [][Next]_vars

-----------------------------------------------------------------------------
(* Properties.                                                              *)

\* Every variable holds a value of its kind.
TypeOK ==
    /\ disk \in [Files -> Content]
    /\ mtime \in [Files -> Nat]
    /\ clock \in Nat
    /\ body \in [Files -> Content]
    /\ hash \in [Files -> Content \cup {Pending}]
    /\ stamp \in [Files -> Nat]
    /\ size \in [Files -> Nat \cup {NoLen}]
    /\ refs \in [Files -> SUBSET (Names \X SUBSET Files)]
    /\ pending \in BOOLEAN
    /\ phase \in {"idle", "scan", "pass1", "done"}
    /\ mode \in {"auto", "full"}
    /\ statTime \in [Files -> Nat \cup {NoMtime}]
    /\ statLen \in [Files -> Nat \cup {NoLen}]
    /\ scanq \subseteq Files
    /\ chg \subseteq Files
    /\ deleted \subseteq Files
    /\ oversize \subseteq Files
    /\ failed \subseteq Files
    /\ before \in [Files -> Content]
    /\ all \in BOOLEAN
    /\ got \in [Files -> Content]
    /\ gotTime \in [Files -> Nat \cup {NoMtime}]
    /\ written \subseteq Files
    /\ had \in [Files -> SUBSET (Nat \X Contents)]
    /\ edited \subseteq Files
    /\ hit \subseteq Files
    /\ raced \subseteq Files

\* A row that carries a content hash holds the symbols and the refs of exactly
\* that content, at every moment a reader may look or a crash may strike: a
\* file is current only once pass 2 has committed its refs (pass2.rs, run).
CurrentRowsAreWhole ==
    \A f \in Files : hash[f] \in Contents =>
        /\ body[f] = hash[f]
        /\ {r[1] : r \in refs[f]} = Uses[hash[f]]

\* Unless the unfinished-sync marker is set, every ref of a current file is
\* stored as resolving all of them against the indexed symbols would store it,
\* whatever mix of incremental, failed, cancelled and killed runs led there
\* (pass2.rs, Dependents and Reresolve; docs/usage.md, index lifecycle).
RefsMatchFullRebuild ==
    ~pending => \A f \in Files : hash[f] \in Contents =>
        refs[f] = ResolveFile(body[f], body)

\* A file pass 1 wrote and pass 2 did not make current is never passed over:
\* every later scan classifies it as changed, removed, over the cap or failed
\* (pass1.rs, PENDING_CONTENT_HASH and PENDING_MTIME_NS).
PendingNeverSkipped ==
    phase = "scan" => \A f \in Files : hash[f] = Pending =>
        f \in scanq \cup chg \cup deleted \cup oversize \cup failed

\* f is not what its mtime and length suggest: other contents of that length
\* were on disk under that mtime.
Disguised(f) ==
    disk[f] # Absent /\ \E c \in Contents \ {disk[f]} :
        <<mtime[f], c>> \in had[f] /\ ByteLen[c] = ByteLen[disk[f]]

\* A current row whose mtime and length are those of the file on disk has the
\* file's content, so the scanner may skip reading it (scanner.rs, scan): for
\* every file but those whose mtime was kept while its bytes were replaced by as
\* many others, and those whose row was read around an edit.  A row never vouches
\* for a pair of mtime and content the file did not have, and a changed length is
\* always noticed.
FastPathSound ==
    \A f \in Files \ raced :
        /\ hash[f] \in Contents /\ stamp[f] = mtime[f] /\ size[f] = LenOf(disk[f])
        /\ ~Disguised(f)
        => hash[f] = disk[f]

\* The rows of f are those of the file on disk.
Settled(f) ==
    IF disk[f] = Absent \/ TooLong(disk[f])
    THEN body[f] = Absent
    ELSE body[f] = disk[f] /\ hash[f] = disk[f]

\* The files an automatic run may pass over though they changed; a full run
\* trusts no mtime.
Mistaken == IF mode = "auto" THEN raced \cup {f \in Files : Disguised(f)} ELSE {}

\* A run that completes has indexed the worktree: every file it could read, that
\* nobody edited meanwhile and whose mtime and length are its own has the rows of
\* what is on disk, and a removed or oversize file has none (sync/mod.rs,
\* run_once).
CompletedSyncIsCurrent ==
    phase = "done" => \A f \in Files \ (edited \cup failed \cup Mistaken) : Settled(f)

-----------------------------------------------------------------------------
(* The inductive invariant behind the properties, in the parts the proofs   *)
(* establish one after the other.                                           *)

\* The columns of a row agree with each other.
RowShape ==
    \A f \in Files :
        /\ body[f] = Absent <=> hash[f] = Absent
        /\ hash[f] = Pending => stamp[f] = PendingMtime
        /\ hash[f] \in Contents => body[f] = hash[f]
        /\ hash[f] \in Contents => {r[1] : r \in refs[f]} = Uses[hash[f]]
        /\ hash[f] \notin Contents => refs[f] = {}
        /\ size[f] = LenOf(body[f])

\* What the run's working state holds in each phase.
RunShape ==
    /\ phase # "idle" => \A f \in Files : statTime[f] \in Nat
    /\ phase \in {"idle", "scan"} =>
          /\ written = {}
          /\ got = [f \in Files |-> Absent]
          /\ gotTime = [f \in Files |-> NoMtime]
    /\ phase = "idle" => scanq = {} /\ chg = {} /\ deleted = {}
    /\ phase \in {"pass1", "done"} => scanq = {}
    /\ phase = "done" => chg = {} /\ deleted = {}
    /\ phase = "pass1" => pending
    /\ scanq \cap (chg \cup deleted) = {}
    /\ chg \cap (deleted \cup written) = {}
    /\ deleted \cap written = {}
    /\ \A f \in deleted : body[f] # Absent

\* What extraction read is what pass 1 wrote.
ExtractionShape ==
    /\ \A f \in Files : gotTime[f] # NoMtime => got[f] \in Contents
    /\ \A f \in Files : got[f] # Absent => f \in chg \cup written
    /\ phase = "pass1" => \A f \in written :
          /\ gotTime[f] \in Nat
          /\ body[f] = got[f]
          /\ hash[f] = Pending

\* The symbols the index held when the run began to write.
Base == [g \in Files |-> IF before[g] # Absent \/ g \in written
                         THEN before[g] ELSE body[g]]

\* While an incremental run writes, the refs of current files are still those
\* of the index it started from.
RefsInv ==
    /\ RefsMatchFullRebuild
    /\ phase = "pass1" /\ ~all => \A f \in chg \cup deleted : before[f] = body[f]
    /\ phase = "pass1" /\ ~all => \A f \in Files : hash[f] \in Contents =>
          refs[f] = ResolveFile(body[f], Base)

\* Every recorded mtime is of the present or earlier.
Times ==
    \A f \in Files :
        /\ mtime[f] \in 0 .. clock
        /\ stamp[f] \in 0 .. clock
        /\ statTime[f] <= clock
        /\ gotTime[f] <= clock

\* What is recorded with an mtime was on disk with it; what the walk saw holds for
\* the files nobody edited since.
FastInv ==
    /\ phase # "idle" => \A f \in Files \ edited :
          statTime[f] = mtime[f] /\ statLen[f] = LenOf(disk[f])
    /\ \A f \in Files : disk[f] # Absent => <<mtime[f], disk[f]>> \in had[f]
    /\ \A f \in Files \ raced :
          hash[f] \in Contents => <<stamp[f], hash[f]>> \in had[f]
    /\ \A f \in chg \ hit :
          got[f] # Absent => IF gotTime[f] = NoMtime THEN got[f] = disk[f]
                             ELSE <<gotTime[f], got[f]>> \in had[f]
    /\ phase = "pass1" => \A f \in written \ raced : <<gotTime[f], got[f]>> \in had[f]

\* No mtime is the epoch, nor any that the walk saw.
StatInv ==
    /\ \A f \in Files : mtime[f] > 0
    /\ phase # "idle" => \A f \in Files : statTime[f] > 0

\* What the run's queues say of the files nobody edited since the walk.
QueueInv ==
    phase # "idle" =>
        /\ \A f \in (scanq \cup chg \cup written) \ edited :
              disk[f] # Absent /\ ~TooLong(disk[f])
        /\ \A f \in deleted \ edited : disk[f] = Absent \/ TooLong(disk[f])
        /\ \A f \in Files \ edited : got[f] # Absent => got[f] = disk[f]

\* Each of them is still to be worked on, or its rows are those of the disk.
Accounted ==
    phase # "idle" =>
        \A f \in Files \ (edited \cup failed \cup Mistaken) :
           \/ f \in scanq \cup chg \cup deleted
           \/ f \in written /\ phase = "pass1"
           \/ Settled(f)

PromiseInv == StatInv /\ QueueInv /\ PendingNeverSkipped /\ Accounted

\* All of it; the runs check it on small instances.
IndInv ==
    /\ RowShape
    /\ RunShape
    /\ ExtractionShape
    /\ RefsInv
    /\ Times
    /\ FastInv
    /\ PromiseInv
=============================================================================
