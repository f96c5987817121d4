-------------------------- MODULE ChangesAnalysis --------------------------
(***************************************************************************)
(* One change analysis: resolve the revisions, build a snapshot of each    *)
(* side on its own thread, diff, pair the symbols, analyse the selected    *)
(* ones up to the limits and the deadline, and shrink the document to a    *)
(* size (crates/orbit-graph-changes/src: analysis.rs, report.rs,           *)
(* snapshot.rs, snapshot/worktree.rs).  Meanwhile the user moves branches  *)
(* and edits the working tree.                                             *)
(*                                                                         *)
(* A tree is a function from paths to Absent or the rows its file holds;   *)
(* a commit is its tree.  What the evidence of a symbol says is left to    *)
(* module Evidence; here it is a number of list entries.                   *)
(***************************************************************************)
EXTENDS ChangedSymbols

CONSTANTS
    Paths,        \* the paths of the repository, positive numbers
    Worlds,       \* initial repositories [base, head, disk]: trees
    Requests,     \* [mode, selection, maxSymbols, maxBytes]
    MaxMoves,     \* how often a branch moves or a file is edited
    Absent,       \* what a tree says of a path it does not hold
    ListLength    \* entries the evidence lists of one symbol hold

VARIABLES
    refs,      \* where the two named revisions point: [base, head] trees
    disk,      \* the working tree
    moves,     \* moves and edits so far
    late,      \* the deadline has passed
    cache,     \* the commits published in the snapshot cache
    request,   \* the request being answered
    phase,     \* where the call is
    side,      \* each side's worker: [at, tree, todo]
    changed,   \* the comparison and the entries computed from it
    work,      \* the entries still to analyse, in order
    doc        \* the document: [symbols, notAnalysed, outOfScope, complete, flags]

vars == <<refs, disk, moves, late, cache, request, phase, side, changed, work, doc>>

Sides == {"base", "head"}
Worktree == request.mode = "worktree"

(* A side's inventory, as the index of the snapshot lists it.              *)
Inventory(tree) ==
    LET rows == UNION {{<<p, r>> : r \in tree[p]} : p \in {q \in Paths : tree[q] # Absent}}
        Sel(x) == [path |-> x[1], parent |-> x[2].parent, name |-> x[2].name, kind |-> x[2].kind]
    IN  [s \in {Sel(x) : x \in rows} |->
            LET x == CHOOSE y \in rows : Sel(y) = s
            IN  [sig |-> x[2].sig, body |-> x[2].body, dup |-> x[2].dup, read |-> x[2].read]]

(* A file with no rows stands for one that was excluded from the snapshot  *)
(* or that no extractor reads.                                             *)
Indexed(tree, p) == tree[p] \notin {Absent, {}}

(* What libgit2 may answer for two trees: a file on both sides is modified *)
(* when its content differs; one on one side only is added or deleted,     *)
(* unless it is similar to a deleted file (a rename) or to the old content *)
(* of a modified one (a copy).  Deltas come in the order of their paths.   *)
Diffs(b, h) ==
    LET here(t) == {p \in Paths : t[p] # Absent}
        deleted == here(b) \ here(h)
        added == here(h) \ here(b)
        modified == {p \in here(b) \cap here(h) : b[p] # h[p]}
        origins == [added -> deleted \cup modified \cup {None}]
        ok(o) == /\ \A p, q \in added : p # q /\ o[p] \in deleted => o[p] # o[q]
                 /\ \A p \in added : o[p] # None => h[p] # {} /\ b[o[p]] # {}
                 /\ \A p \in added : (\E q \in deleted : b[q] = h[p] /\ h[p] # {}) => o[p] # None
        delta(o, p) ==
            IF p \in modified THEN [kind |-> "modified", basePath |-> p, headPath |-> p]
            ELSE IF p \in deleted THEN [kind |-> "deleted", basePath |-> p, headPath |-> None]
            ELSE [kind |-> IF o[p] = None THEN "added"
                           ELSE IF o[p] \in deleted THEN "renamed" ELSE "copied",
                  basePath |-> o[p], headPath |-> p]
        touched(o) == added \cup modified \cup {p \in deleted : p \notin Range(o)}
    IN  {LET order == SetToSortSeq(touched(o), <)
         IN  [i \in DOMAIN order |-> delta(o, order[i])]
         : o \in {x \in origins : ok(x)}}

NoDoc == [symbols |-> <<>>, notAnalysed |-> {}, outOfScope |-> 0, complete |-> TRUE,
          flags |-> {}]
NoChange == [deltas |-> <<>>, base |-> <<>>, head |-> <<>>, indexed |-> <<>>, entries |-> {},
             outOfScope |-> {}]
Worker == [at |-> "start", tree |-> Absent, todo |-> {}]

Init ==
    /\ \E w \in Worlds : refs = [base |-> w.base, head |-> w.head] /\ disk = w.disk
    /\ request \in Requests
    /\ moves = 0 /\ late = FALSE /\ cache = {}
    /\ phase = "resolve"
    /\ side = [x \in Sides |-> Worker]
    /\ changed = NoChange /\ work = <<>> /\ doc = NoDoc

----------------------------------------------------------------------------
(* The environment.                                                        *)

(* A named revision moves to the other commit. *)
MoveRef ==
    /\ moves < MaxMoves /\ phase \in {"resolve", "build"}
    /\ \E x \in Sides : refs' = [refs EXCEPT ![x] = refs[IF x = "base" THEN "head" ELSE "base"]]
    /\ moves' = moves + 1
    /\ UNCHANGED <<disk, late, cache, request, phase, side, changed, work, doc>>

(* The user rewrites, removes or restores one file of the working tree. *)
EditFile ==
    /\ Worktree /\ moves < MaxMoves /\ phase \in {"build", "compute"}
    /\ \E p \in Paths, t \in {refs.base, refs.head} :
         t[p] # disk[p] /\ disk' = [disk EXCEPT ![p] = t[p]]
    /\ moves' = moves + 1
    /\ UNCHANGED <<refs, late, cache, request, phase, side, changed, work, doc>>

(* The deadline of the call passes. *)
Deadline ==
    /\ request.budget /\ ~late /\ phase \notin {"done"}
    /\ late' = TRUE
    /\ UNCHANGED <<refs, disk, moves, cache, request, phase, side, changed, work, doc>>

----------------------------------------------------------------------------
(* Both revisions are resolved, so that a typo fails at once; what they    *)
(* resolve to is not kept.                                                 *)
OpenInner ==
    /\ phase = "resolve"
    /\ phase' = IF late THEN "cancelled" ELSE "build"
    /\ UNCHANGED <<refs, disk, moves, late, cache, request, side, changed, work, doc>>

Step(x, at, tree, todo) == side' = [side EXCEPT ![x] = [at |-> at, tree |-> tree, todo |-> todo]]

Committed(x) == ~(x = "head" /\ Worktree)

(* A worker resolves its revision again and looks it up in the cache.  A   *)
(* hit is ready at once, even after the deadline.                          *)
Lookup(x) ==
    /\ phase = "build" /\ side[x].at = "start" /\ Committed(x)
    /\ IF refs[x] \in cache THEN Step(x, "ready", refs[x], {})
       ELSE IF late THEN Step(x, "cancelled", Absent, {})
       ELSE Step(x, "materialized", refs[x], {})
    /\ UNCHANGED <<refs, disk, moves, late, cache, request, phase, changed, work, doc>>

(* The working tree is listed first, the tracked paths and the files that  *)
(* are there, then copied file by file.                                    *)
ListWorkingTree(x) ==
    /\ phase = "build" /\ side[x].at = "start" /\ ~Committed(x)
    /\ IF late THEN Step(x, "cancelled", Absent, {})
       ELSE Step(x, "copying", [p \in Paths |-> Absent], {p \in Paths : \E t \in {disk, refs.base, refs.head} : t[p] # Absent})
    /\ UNCHANGED <<refs, disk, moves, late, cache, request, phase, changed, work, doc>>

(* A file that is gone since the listing is a deletion. *)
CopyWorkingFile(x) ==
    /\ phase = "build" /\ side[x].at = "copying" /\ side[x].todo # {}
    /\ LET p == Min(side[x].todo)
       IN  Step(x, "copying", [side[x].tree EXCEPT ![p] = disk[p]], side[x].todo \ {p})
    /\ UNCHANGED <<refs, disk, moves, late, cache, request, phase, changed, work, doc>>

CopiedAll(x) ==
    /\ phase = "build" /\ side[x].at = "copying" /\ side[x].todo = {}
    /\ Step(x, "materialized", side[x].tree, {})
    /\ UNCHANGED <<refs, disk, moves, late, cache, request, phase, changed, work, doc>>

(* Index the tree; a committed one is then published in the cache.         *)
IndexSide(x) ==
    /\ phase = "build" /\ side[x].at = "materialized"
    /\ IF late THEN Step(x, "cancelled", Absent, {}) /\ UNCHANGED cache
       ELSE /\ Step(x, "ready", side[x].tree, {})
            /\ cache' = cache \cup (IF Committed(x) THEN {side[x].tree} ELSE {})
    /\ UNCHANGED <<refs, disk, moves, late, request, phase, changed, work, doc>>

(* Both workers are joined; one that stopped cancels the comparison.       *)
Join ==
    /\ phase = "build" /\ \A x \in Sides : side[x].at \in {"ready", "cancelled"}
    /\ phase' = IF \E x \in Sides : side[x].at = "cancelled" THEN "cancelled" ELSE "compute"
    /\ UNCHANGED <<refs, disk, moves, late, cache, request, side, changed, work, doc>>

(* No changed symbols were computed, and the document says why. *)
Cancelled ==
    /\ phase = "cancelled"
    /\ doc' = [NoDoc EXCEPT !.complete = FALSE, !.flags = {"budget_ms"}]
    /\ phase' = "done"
    /\ UNCHANGED <<refs, disk, moves, late, cache, request, side, changed, work>>

(* Seeded bug: the head revision is resolved once more for the diff. *)
DiffedHeadRef == IF Worktree THEN disk ELSE refs["head"]

(* The trees the diff reads: the commits the snapshots were made of, and   *)
(* for the head of a working tree comparison the files as they are now.    *)
DiffedBase == side["base"].tree
DiffedHead == IF Worktree THEN disk ELSE side["head"].tree

Selected(sel, entries) == SelectSeq(Sorted(entries), LAMBDA e : Selects(sel, e))

ComputeChanges ==
    /\ phase = "compute"
    /\ \E d \in Diffs(DiffedBase, DiffedHead) :
         \E c \in {[deltas |-> d, base |-> Inventory(side["base"].tree),
                    head |-> Inventory(side["head"].tree),
                    indexed |-> [x \in Sides |-> {p \in Paths : Indexed(side[x].tree, p)}]]} :
         \E entries \in {Compute(c)} :
           /\ changed' = [deltas |-> d, base |-> c.base, head |-> c.head, indexed |-> c.indexed,
                          entries |-> entries, outOfScope |-> OutOfScope(c)]
           /\ work' = Selected(Resolve(c, request.selection), Filtered(entries, request.filters))
    /\ phase' = "analyse"
    /\ UNCHANGED <<refs, disk, moves, late, cache, request, side, doc>>

(* One selected entry: past the limit or the deadline it is only listed,   *)
(* under its primary selector.                                             *)
AnalyseOne ==
    /\ phase = "analyse" /\ work # <<>>
    /\ LET e == Head(work)
           past == Len(doc.symbols) + Cardinality(doc.notAnalysed) >= request.maxSymbols
       IN  doc' = IF past \/ late
                  THEN [doc EXCEPT !.notAnalysed = @ \cup {e}, !.complete = @ /\ past,
                                   !.flags = @ \cup {IF past THEN "max_symbols" ELSE "budget_ms"}]
                  ELSE [doc EXCEPT !.symbols = Append(@, [entry |-> e,
                            lists |-> IF e.base \cup e.head = {} THEN 0 ELSE ListLength])]
    /\ work' = Tail(work)
    /\ UNCHANGED <<refs, disk, moves, late, cache, request, phase, side, changed>>

(* Regroup: the reasons are looked up by primary selector, which every     *)
(* uncertain group lacks, so that one unanalysed group lists them all.     *)
Regroup ==
    /\ phase = "analyse" /\ work = <<>>
    /\ LET missed == {PrimarySelector(e) : e \in doc.notAnalysed}
           Kept(s) == PrimarySelector(s.entry) \notin missed
       IN  doc' = [doc EXCEPT
                     !.symbols = SelectSeq(@, Kept),
                     !.outOfScope = Cardinality(changed.outOfScope),
                     !.notAnalysed = @ \cup {s.entry : s \in {x \in Range(doc.symbols) : ~Kept(x)}}]
    /\ phase' = "fit"
    /\ UNCHANGED <<refs, disk, moves, late, cache, request, side, changed, work>>

(* The size of a document, and one round of fit_to_bytes: halve the lists, *)
(* then move the last half of the symbols, then drop half of what is       *)
(* listed.                                                                 *)
Size(d) == FoldLeft(LAMBDA n, s : n + 1 + s.lists, Cardinality(d.notAnalysed) + d.outOfScope, d.symbols)
Longest(d) == FoldLeft(LAMBDA n, s : IF s.lists > n THEN s.lists ELSE n, 0, d.symbols)

ShrinkLists ==
    /\ phase = "fit" /\ Size(doc) > request.maxBytes /\ Longest(doc) > 1
    /\ LET cap == Longest(doc) \div 2
       IN  doc' = [doc EXCEPT !.flags = @ \cup {"lists"},
                     !.symbols = [i \in DOMAIN @ |->
                        [@[i] EXCEPT !.lists = IF @ > cap THEN cap ELSE @]]]
    /\ UNCHANGED <<refs, disk, moves, late, cache, request, phase, side, changed, work>>

(* Seeded bug: half of one symbol is one symbol. *)
ShrinkSymbolsUp ==
    /\ phase = "fit" /\ Size(doc) > request.maxBytes /\ Longest(doc) <= 1 /\ doc.symbols # <<>>
    /\ doc' = [doc EXCEPT !.flags = @ \cup {"symbols"},
                          !.symbols = SubSeq(@, 1, (Len(@) + 1) \div 2)]
    /\ UNCHANGED <<refs, disk, moves, late, cache, request, phase, side, changed, work>>

ShrinkSymbols ==
    /\ phase = "fit" /\ Size(doc) > request.maxBytes /\ Longest(doc) <= 1 /\ doc.symbols # <<>>
    /\ LET keep == Len(doc.symbols) \div 2
       IN  doc' = [doc EXCEPT !.flags = @ \cup {"symbols"},
                     !.symbols = SubSeq(@, 1, keep),
                     !.notAnalysed = @ \cup {doc.symbols[i].entry : i \in (keep + 1)..Len(doc.symbols)}]
    /\ UNCHANGED <<refs, disk, moves, late, cache, request, phase, side, changed, work>>

(* The lists that stand beside the symbols keep half of the longest; which *)
(* entries those are is left open, and unresolved areas are left out.      *)
ShrinkRest ==
    /\ phase = "fit" /\ Size(doc) > request.maxBytes /\ doc.symbols = <<>>
    /\ LET n == Cardinality(doc.notAnalysed)
           cap == Max({n, doc.outOfScope}) \div 2
       IN  /\ Max({n, doc.outOfScope}) > 0
           /\ \E kept \in kSubset(Min({n, cap}), doc.notAnalysed) :
                doc' = [doc EXCEPT !.flags = @ \cup {"not_analysed"}, !.notAnalysed = kept,
                                   !.outOfScope = Min({@, cap})]
    /\ UNCHANGED <<refs, disk, moves, late, cache, request, phase, side, changed, work>>

Fitted ==
    /\ phase = "fit"
    /\ Size(doc) <= request.maxBytes \/ (doc.symbols = <<>> /\ Size(doc) = 0)
    /\ phase' = "done"
    /\ UNCHANGED <<refs, disk, moves, late, cache, request, side, changed, work, doc>>

Done == phase = "done" /\ UNCHANGED vars

Call ==
    \/ OpenInner \/ Join \/ Cancelled \/ ComputeChanges
    \/ AnalyseOne \/ Regroup
    \/ ShrinkLists \/ ShrinkSymbols \/ ShrinkRest \/ Fitted

WorkerStep(x) ==
    Lookup(x) \/ ListWorkingTree(x) \/ CopyWorkingFile(x) \/ CopiedAll(x) \/ IndexSide(x)

Next == MoveRef \/ EditFile \/ Deadline \/ Call \/ Done \/ \E x \in Sides : WorkerStep(x)

(* The call and its two threads keep running.                              *)
Spec == Init /\ [][Next]_vars /\ WF_vars(Call) /\ \A x \in Sides : WF_vars(WorkerStep(x))
----------------------------------------------------------------------------
(* Properties.                                                             *)

TypeOK ==
    /\ phase \in {"resolve", "build", "cancelled", "compute", "analyse", "fit", "done"}
    /\ moves \in 0..MaxMoves /\ late \in BOOLEAN
    /\ \A x \in Sides : side[x].at \in {"start", "copying", "materialized", "ready", "cancelled"}
    /\ \A i \in DOMAIN doc.symbols : doc.symbols[i].lists \in 0..ListLength
    /\ doc.complete \in BOOLEAN

Computed == phase \in {"analyse", "fit", "done"} /\ side["head"].at = "ready"
                                               /\ side["base"].at = "ready"

(* The selectors an entry speaks of on one side.                           *)
Mentions(e, x) == (IF x = "base" THEN e.base ELSE e.head) \cup
                  {cand[2] : cand \in {y \in e.candidates : y[1] = x}}

(* Every symbol of a changed file is in exactly one entry, whatever rung   *)
(* consumed it, unless both sides hold it, whole and equal: the ladder of  *)
(* changes.rs neither loses a symbol nor reports one twice.                *)
SymbolsAccounted ==
    Computed =>
      \A x \in Sides :
        \A s \in CandidateSelectors(changed[x], IF x = "base" THEN BasePaths(changed.deltas)
                                                            ELSE HeadPaths(changed.deltas)) :
          LET n == Cardinality({e \in changed.entries : s \in Mentions(e, x)})
              same == /\ s \in DOMAIN changed.base \cap DOMAIN changed.head
                      /\ changed.base[s] = changed.head[s]
                      /\ changed.base[s].read = "whole" /\ ~changed.base[s].dup
          IN  n = IF same THEN 0 ELSE 1

(* Identity is never guessed: a symbol is paired with one of another name  *)
(* or path only when neither file holds a second symbol that could as well *)
(* be the partner.  (Selectors that two rows share are another matter.)    *)
PairsAreForced ==
    Computed => \A e \in changed.entries : e.status \in {"moved", "renamed"} =>
      LET b == CHOOSE s \in e.base : TRUE
          h == CHOOSE s \in e.head : TRUE
          Same(s, t) == s.path = t.path /\ s.kind = t.kind
          Lone(S, T, s) == {t \in S \ T : Same(s, t) /\ (e.status = "moved" => t.name = s.name)}
          Twins(S, T, s) == {t \in DOMAIN S \ DOMAIN T : Same(s, t) /\ S[t].read = "whole"
                                /\ NormalizedBody(t, S[t]) = NormalizedBody(s, S[s])}
      IN  (\A i \in DOMAIN changed.deltas : changed.deltas[i].kind # "copied") =>
          IF e.evidence = "body_hash"
          THEN Twins(changed.base, changed.head, b) = {b} /\ Twins(changed.head, changed.base, h) = {h}
          ELSE IF e.status = "moved"
          THEN /\ b.kind = h.kind
               /\ Lone(DOMAIN changed.base, DOMAIN changed.head, b) = {b}
               /\ Lone(DOMAIN changed.head, DOMAIN changed.base, h) = {h}
          ELSE b.kind = h.kind /\ b.name # h.name

(* Reading the comparison backwards turns additions into removals and      *)
(* changes nothing else (where Git saw no copy, which has a direction).    *)
Flip(x) == CASE x = "added" -> "deleted" [] x = "deleted" -> "added" [] OTHER -> x
SwapDelta(d) == [kind |-> Flip(d.kind), basePath |-> d.headPath, headPath |-> d.basePath]
Swapped(c) == [deltas |-> [i \in DOMAIN c.deltas |-> SwapDelta(c.deltas[i])],
               base |-> c.head, head |-> c.base, indexed |-> c.indexed]
SwapEntry(e) ==
    [e EXCEPT !.status = IF @ = "added" THEN "removed" ELSE IF @ = "removed" THEN "added" ELSE @,
              !.fileChange = Flip(@), !.base = e.head, !.head = e.base, !.basePath = e.headPath, !.headPath = e.basePath,
              !.candidates = {<<IF y[1] = "base" THEN "head" ELSE "base", y[2]>> : y \in @}]
Mirrored ==
    (phase = "analyse" /\ \A i \in DOMAIN changed.deltas : changed.deltas[i].kind # "copied")
      => {SwapEntry(e) : e \in changed.entries} = Compute(Swapped(changed))

(* Whatever differs between the two snapshots is reported or out of scope, *)
(* though branches move while the snapshots are built: the diff is between *)
(* the trees that were indexed.  A file of the working tree that was       *)
(* edited after it was copied is not covered.                              *)
NothingMissed ==
    Computed => \A p \in Paths :
      (/\ side["base"].tree[p] # side["head"].tree[p]
       /\ Worktree => disk[p] = side["head"].tree[p]) =>
      \/ \E x \in Sides : <<p, x>> \in changed.outOfScope
      \/ \E e \in changed.entries, x \in Sides : \E s \in Mentions(e, x) : s.path = p

(* No entry of the selection disappears: it is analysed, or listed as not  *)
(* analysed, or the document says that it was cut; a document that calls   *)
(* itself complete had no entry stopped by the deadline.                   *)
EntriesAccounted ==
    (phase = "done" /\ Computed) =>
      LET all == Range(Selected(Resolve(changed, request.selection),
                                Filtered(changed.entries, request.filters)))
          listed == {doc.symbols[i].entry : i \in DOMAIN doc.symbols} \cup doc.notAnalysed
      IN  /\ listed \subseteq all
          /\ listed # all => "not_analysed" \in doc.flags
          /\ \A e \in doc.notAnalysed : doc.flags # {}
          /\ doc.complete /\ doc.flags = {} => Len(doc.symbols) = Cardinality(all)

(* A request that names symbols is never answered with all of them.        *)
SelectionIsKept ==
    (phase = "done" /\ request.selection # {}) =>
      \A e \in {doc.symbols[i].entry : i \in DOMAIN doc.symbols} \cup doc.notAnalysed :
        \E r \in request.selection : \E s \in e.base \cup e.head : s.name = r.name /\ s.path = r.path

\* The two sides' symbols are paired soundly: each is accounted for once, only
\* the evidence the rung asks for pairs two, and the answer does not depend on
\* which side is looked at (compare_files).
PairingIsSound == TypeOK /\ SymbolsAccounted /\ PairsAreForced /\ Mirrored

\* From the two trees to the document nothing is lost in silence: not a change
\* of an undisturbed file, not an entry cut by a deadline or by the response's
\* size, and a selection is not widened.
NothingIsLost == NothingMissed /\ EntriesAccounted /\ SelectionIsKept

(* The call returns, with or without a deadline, and the loop that shrinks *)
(* the document ends.                                                      *)
Returns == <>(phase = "done")
=============================================================================
