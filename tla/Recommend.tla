----------------------------- MODULE Recommend -----------------------------
(* Destinations recommended from the delivery history.                       *)
(*                                                                           *)
(*   src/crates/orbit-graph/src/recommend.rs                                 *)
(*                                                                           *)
(* A call holds a repository (commits in topological order with their        *)
(* parents and trees), the index's deliveries and the request.  A tree maps  *)
(* a path to the file there: an identity that renames keep, and a version.   *)
(* Which destinations are scored, by what evidence and for what reason is    *)
(* modelled, not how high; Associations has the arithmetic of co-change.     *)
EXTENDS Procedure, Naturals, FiniteSets, Sequences, SequencesExt

CONSTANTS
    RecommendCalls, \* the calls below
    DistanceCalls,  \* commit graphs: [parents, target]
    Paths,
    SymbolOf        \* the symbol each file identity holds: [qualified, signature]

Unknown == 0        \* a time that is not known
Now == 9            \* the time of a live request
NoPath == "none"
Absent == [id |-> 0, version |-> 0]
Live(tree) == {p \in Paths : tree[p] # Absent}

---------------------------------------------------------------------------
(* The commit graph                                                         *)

\* A commit and everything it descends from.
Reach(parents, commit) ==
    LET reach[c \in DOMAIN parents] == {c} \cup UNION {reach[p] : p \in Range(parents[c])}
    IN reach[commit]

commit_distance(parents, from, to) == Cardinality(Reach(parents, to) \ Reach(parents, from))

\* The target's first-parent chain with the running distance of each commit.
index_first_parent_distances(parents, target) ==
    LET Step(c) == IF Len(parents[c]) = 1 THEN 1 ELSE commit_distance(parents, Head(parents[c]), c)
        walk[c \in DOMAIN parents] ==
            IF parents[c] = <<>> THEN <<[commit |-> c, distance |-> 0]>>
            ELSE <<[commit |-> c, distance |-> 0]>> \o
                 [i \in DOMAIN walk[Head(parents[c])] |->
                     [commit |-> walk[Head(parents[c])][i].commit,
                      distance |-> walk[Head(parents[c])][i].distance + Step(c)]]
    IN walk[target]

\* The memoized distance of a revision: along the chain, or counted.
distance(c, commit) ==
    LET chain == index_first_parent_distances(c.parents, c.target)
        on == {i \in DOMAIN chain : chain[i].commit = commit}
    IN IF on # {} THEN chain[CHOOSE i \in on : TRUE].distance
       ELSE commit_distance(c.parents, commit, c.target)

---------------------------------------------------------------------------
(* What a delivery changed (external: libgit2's diff and rename detection)  *)

\* The files of a diff; similar is whether renames with edits are found.
DiffFiles(old, new, similar) ==
    LET gone == Live(old) \ Live(new)
        come == Live(new) \ Live(old)
        renamed == {<<o, n>> \in gone \X come :
                        old[o].id = new[n].id /\ (similar \/ old[o] = new[n])}
        File(o, n, kind) == [old |-> o, new |-> n, kind |-> kind]
    IN {File(r[1], r[2], "renamed") : r \in renamed}
       \cup {File(o, NoPath, "deleted") : o \in gone \ {r[1] : r \in renamed}}
       \cup {File(NoPath, n, "added") : n \in come \ {r[2] : r \in renamed}}
       \cup {File(p, p, "modified") : p \in {p \in Live(old) \cap Live(new) : old[p] # new[p]}}

FilesOf(c, d) == DiffFiles(c.trees[d.before], c.trees[d.after], TRUE)

\* What the index recorded of a file: a rename continues it, a deletion ends it.
lineage_step(file) ==
    CASE file.kind = "renamed" -> {<<file.old, file.new>>}
      [] file.kind = "deleted" -> {<<file.old, NoPath>>}
      [] OTHER -> {}

---------------------------------------------------------------------------
(* Which evidence counts                                                    *)

Strict(c) == c.cutoff # Unknown
Cutoff(c) == IF Strict(c) THEN c.cutoff ELSE Now

\* Replay wants text attested before execution; both want it before the cutoff.
task_is_eligible(c, task) ==
    /\ Strict(c) => task.pre
    /\ task.at # Unknown /\ task.at < Cutoff(c)

\* On the target's ancestry and, in replay, known to have landed before.
Visible(c) ==
    {d \in c.index : /\ d.after \in Reach(c.parents, c.target)
                     /\ Strict(c) => d.time # Unknown /\ d.time < c.cutoff}

\* Verified evidence first, then the smaller id.
Better(d, e) ==
    \/ d.evidence = "verified" /\ e.evidence # "verified"
    \/ (d.evidence = "verified") = (e.evidence = "verified") /\ d.id < e.id

\* One representative of each boundary, none of a boundary of the target task.
eligible_deliveries(c, visible) ==
    LET Boundary(d) == {e \in visible : e.before = d.before /\ e.after = d.after}
        kept == {g \in {Boundary(d) : d \in visible} :
                    c.task = "none" \/ \A d \in g : \A t \in d.tasks : t.task # c.task}
    IN {[change |-> CHOOSE d \in g : \A e \in g : e = d \/ Better(d, e),
         sources |-> {d.id : d \in g}] : g \in kept}

\* The task's text comes from a delivery on the ancestry, whenever it landed.
resolve_query(c) ==
    IF c.task = "none" THEN "text"
    ELSE IF \E d \in c.index : /\ d.after \in Reach(c.parents, c.target)
                               /\ \E t \in d.tasks : t.task = c.task /\ task_is_eligible(c, t)
    THEN "text"
    ELSE IF c.hybrid # {} THEN "empty" ELSE "error"

---------------------------------------------------------------------------
(* Path lineage                                                             *)

\* Steps by landing, landings oldest first, their distances, the newest.
LineageOf(c, deliveries) ==
    LET landed == {d.after : d \in deliveries}
        far == [r \in landed |-> distance(c, r)]
        StepsAt(r) == UNION {UNION {lineage_step(f) : f \in FilesOf(c, d)} : d \in {d \in deliveries : d.after = r}}
        Older(r, s) == far[r] > far[s]
    IN [order |-> SetToSortSeq(landed, Older), far |-> far,
        steps |-> [r \in landed |-> StepsAt(r)],
        newest |-> IF landed = {} THEN 0 ELSE CHOOSE r \in landed : \A s \in landed : s = r \/ Older(s, r),
        holes |-> Cardinality({d.before : d \in deliveries} \ landed)]

\* Seeded bug: the steps of every delivery on the ancestry are followed.
LineageOfAll(c, visible) ==
    LineageOf(c, {d \in c.index : d.after \in Reach(c.parents, c.target)})

\* The lineage a request may use; holes counts the bases no delivery landed.
PathLineage(c, visible) == LineageOf(c, visible)

\* The one diff at query time: renames from the newest landing to the target.
gap_renames(c, newest) ==
    {<<f.old, f.new>> : f \in {f \in DiffFiles(c.trees[newest], c.trees[c.target], ~c.bigGap) : f.kind = "renamed"}}

\* A path through the steps of the landings after its own.
Follow(c, lineage, origin, path) ==
    LET later == SelectSeq(lineage.order, LAMBDA r : lineage.far[r] < lineage.far[origin])
        Through(p, r) ==
            IF p = NoPath \/ ~\E s \in lineage.steps[r] : s[1] = p THEN p
            ELSE (CHOOSE s \in lineage.steps[r] : s[1] = p)[2]
    IN FoldLeft(Through, path, later)

\* Seeded bug: a path that exists in the target is taken as it is spelled.
ResolveBySpelling(c, lineage, origin, path) ==
    LET live == Live(c.trees[c.target])
        current == IF path \in live THEN path ELSE Follow(c, lineage, origin, path)
    IN [path |-> IF current \in live THEN current ELSE NoPath, gap |-> TRUE, lost |-> TRUE]

\* The live descendant of a path, whether the gap was diffed, whether the path
\* was lost on the way.
resolve(c, lineage, origin, path) ==
    LET live == Live(c.trees[c.target])
        Resolved(p, gap, lost) == [path |-> p, gap |-> gap, lost |-> lost]
    IN \* one evaluation of the fold for all the cases
       CHOOSE answer \in
         {LET behind == lineage.newest # 0 /\ lineage.far[lineage.newest] > 0
              gapped == {n \in live : behind /\ <<current, n>> \in gap_renames(c, lineage.newest)}
          IN IF current = NoPath THEN Resolved(NoPath, FALSE, FALSE)
             ELSE IF current \in live THEN Resolved(current, FALSE, FALSE)
             ELSE IF gapped # {} THEN Resolved(CHOOSE n \in gapped : TRUE, TRUE, FALSE)
             ELSE Resolved(NoPath, behind, TRUE)
          : current \in {Follow(c, lineage, origin, path)}} : TRUE

---------------------------------------------------------------------------
(* Locations and scores                                                     *)

\* The symbol a historical one is now: in the mapped file, else the only one
\* of its name, else the only one of its signature.
resolve_symbol(c, s, path) ==
    LET tree == c.trees[c.target]
        Named == {p \in Live(tree) : SymbolOf[tree[p].id].qualified = s.qualified}
        Signed == {p \in Live(tree) : SymbolOf[tree[p].id].signature = s.signature}
    IN IF path \in Named THEN {path}
       ELSE IF Cardinality(Named) = 1 THEN Named
       ELSE IF s.signature # "none" /\ Cardinality(Signed) = 1 THEN Signed
       ELSE {}

File(p) == <<"file", p>>
Symbol(c, p) == <<"symbol", p, SymbolOf[c.trees[c.target][p].id].qualified>>

\* A path of the tree as the request's level names it.
Destination(c, p) == IF c.level = "file" THEN File(p) ELSE Symbol(c, p)

\* A delivery's files as destinations: its symbols, or the file in their stead.
locations_for_delivery(c, lineage, d) ==
    UNION {LET to == resolve(c, lineage, d.after, f.new)
               symbols == resolve_symbol(c, SymbolOf[c.trees[d.after][f.new].id], to.path)
           IN IF to.path = NoPath THEN {}
              ELSE IF c.level = "file" \/ symbols = {} THEN {File(to.path)}
              ELSE {Symbol(c, p) : p \in symbols}
           : f \in {f \in FilesOf(c, d) : f.new # NoPath}}

\* What resolving the eligible deliveries' files leaves to report.
LineageFallbacks(c, lineage, eligible) ==
    LET answers == UNION {{resolve(c, lineage, e.change.after, f.new) :
                              f \in {f \in FilesOf(c, e.change) : f.new # NoPath}} : e \in eligible}
    IN (IF \E a \in answers : a.gap THEN {"path_lineage_gap"} ELSE {})
       \cup (IF (\E a \in answers : a.lost) /\ lineage.holes > 1 THEN {"path_lineage_incomplete"} ELSE {})

\* A task's relevance: its text or the caller's search.
Relevant(c, query, task) == (query = "text" /\ task \in c.matching) \/ task \in c.hybrid

\* One row per eligible delivery that still has a destination.
Row(c, query, lineage, e) ==
    LET d == e.change
        tasks == {t \in d.tasks : task_is_eligible(c, t)}
        relevant == {t \in tasks : Relevant(c, query, t.task)}
    IN [id |-> d.id, sources |-> e.sources, tasks |-> {t.task : t \in relevant},
        kind |-> IF relevant # {} THEN "historical_change"
                 ELSE IF c.task = "none" /\ ~Strict(c) /\ c.variant = "combined" /\ d.evidence = "git_only"
                 THEN "historical_change_commit_text" ELSE "none",
        locations |-> locations_for_delivery(c, lineage, d)]

\* Direct evidence: the rows that speak for a destination, by kind of reason.
score_history(c, rows) ==
    LET speaking == CASE c.variant = "frequency" -> rows
                      [] c.variant = "graph_only" -> {}
                      [] OTHER -> {r \in rows : r.kind # "none"}
        reached == UNION {r.locations : r \in speaking}
        For(s) == {r \in speaking : s \in r.locations}
    IN [s \in reached |->
          [deliveries |-> {r.id : r \in For(s)},
           tasks |-> IF c.variant = "frequency" THEN {} ELSE UNION {r.tasks : r \in For(s)},
           reasons |-> IF c.variant = "frequency" THEN {"historical_frequency"} ELSE {r.kind : r \in For(s)}]]

---------------------------------------------------------------------------
(* Current structure                                                        *)

\* Where structural neighbours come from: the checkout must be the target, and
\* the index must be of it.
StructureSource(c) ==
    IF c.variant \notin {"combined", "graph_only"} THEN "unused"
    ELSE IF c.checkout = 0 THEN "structure_head_unknown"
    ELSE IF c.checkout # c.target THEN "structure_unavailable_for_revision"
    ELSE IF c.structure.kind = "missing" THEN "structure_index_missing"
    ELSE IF c.structure.kind = "published" /\ c.structure.revision # c.target THEN "structure_index_stale"
    ELSE "read"

\* The neighbours of the scored destinations that are live in the target.
add_current_structure(c, seeds) ==
    {n \in UNION {{Destination(c, p) : p \in {p \in Paths : <<s[2], p>> \in c.structure.edges}} : s \in seeds} :
        n[2] \in Live(c.trees[c.target])}

---------------------------------------------------------------------------
(* The procedure                                                            *)

RecommendInit ==
    /\ call \in RecommendCalls
    /\ at = "recommend" /\ acc = <<>>

\* The request is validated, the target and the query are resolved, the
\* evidence is chosen.
SelectEvidence ==
    /\ at = "recommend" /\ resolve_query(call) # "error"
    /\ \E visible \in {Visible(call)} :
       \E lineage \in {PathLineage(call, visible)}, eligible \in {eligible_deliveries(call, visible)} :
          acc' = [visible |-> visible, eligible |-> eligible, lineage |-> lineage]
    /\ at' = "score"
    /\ UNCHANGED call

\* No text and no hits: the request is refused.
RefuseTask ==
    /\ at = "recommend" /\ resolve_query(call) = "error"
    /\ at' = "refused"
    /\ UNCHANGED <<call, acc>>

\* History is scored, then current text and structure are added.
Score(c, query, lineage, eligible) ==
    LET rows == {r \in {Row(c, query, lineage, e) : e \in eligible} : r.locations # {}}
        direct == score_history(c, rows)
        cochanged == IF c.variant # "combined" THEN {}
                     ELSE UNION {UNION {r.locations \ {s} : r \in {r \in rows : s \in r.locations}}
                                    : s \in DOMAIN direct}
        lexical == IF c.variant \in {"combined", "graph_only"} /\ query = "text"
                   THEN {Destination(c, p) : p \in c.lexical \cap Live(c.trees[c.target])} ELSE {}
        seeds == DOMAIN direct \cup cochanged \cup lexical
        structural == IF StructureSource(c) = "read" THEN add_current_structure(c, seeds) ELSE {}
    IN [direct |-> direct, cochanged |-> cochanged, lexical |-> lexical, structural |-> structural,
        destinations |-> seeds \cup structural,
        fallbacks |-> LineageFallbacks(c, lineage, eligible)
                      \cup ({IF StructureSource(c) = "read" /\ structural = {} THEN "structure_unavailable"
                             ELSE StructureSource(c)} \ {"unused", "read"})
                      \cup (IF eligible = {} THEN {"cold_start"} ELSE {})]

ScoreHistory ==
    /\ at = "score"
    /\ \E scored \in {Score(call, resolve_query(call), acc.lineage, acc.eligible)} :
          acc' = [visible |-> acc.visible, eligible |-> acc.eligible, lineage |-> acc.lineage, scored |-> scored]
    /\ at' = "recommended"
    /\ UNCHANGED call

RecommendNext == SelectEvidence \/ RefuseTask \/ ScoreHistory

\* The pass that seeds the distances, on any commit graph.
DistanceInit ==
    /\ call \in DistanceCalls
    /\ at = "distances" /\ acc = <<>>

SeedDistances ==
    /\ at = "distances"
    /\ acc' = index_first_parent_distances(call.parents, call.target)
    /\ at' = "measured"
    /\ UNCHANGED call

---------------------------------------------------------------------------
(* Properties                                                               *)

Recommended == at = "recommended"

\* The running sum along the first-parent chain is, for each commit of the
\* chain, the number of commits the target has and the commit has not
\* (index_first_parent_distances: "equals commit_distance exactly").
DistancesAreExact ==
    at = "measured" =>
        \A i \in DOMAIN acc : acc[i].distance = commit_distance(call.parents, acc[i].commit, call.target)

\* What a request answers from an index: choice of evidence and scores.
Answer(c, query) ==
    LET visible == Visible(c)
    IN Score(c, query, PathLineage(c, visible), eligible_deliveries(c, visible))

\* The index as it was known before the cutoff: later and undated deliveries
\* are gone, and of the others the task texts that were not there yet.
Before(c) ==
    [c EXCEPT !.index =
        {[d EXCEPT !.tasks = {t \in @ : (t.pre /\ t.at # Unknown /\ t.at < c.cutoff) \/ t.task = c.task}] :
            d \in {d \in c.index : d.time # Unknown /\ d.time < c.cutoff}}]

\* A replay with a cutoff answers as if nothing at or after the cutoff, and
\* nothing undated, were in the index (recommend.rs: eligible_deliveries,
\* task_is_eligible, PathLineage::new): neither votes nor task texts nor
\* renames leak from the future it is to predict.
ReplayIgnoresTheLater ==
    Recommended /\ Strict(call) =>
        acc.scored = Answer(Before(call), resolve_query(call))

\* A path seen at a delivery leads to where the same file is now, or nowhere
\* if it is gone, whenever every commit since is a visible delivery
\* (PathLineage::resolve): a new file under an old name is not mistaken for it.
LineageFollowsIdentity ==
    Recommended =>
        \A e \in acc.eligible : \A f \in FilesOf(call, e.change) : f.new # NoPath =>
            LET since == {r \in Reach(call.parents, call.target) : r > e.change.after}
                now == {p \in Paths : call.trees[call.target][p].id = call.trees[e.change.after][f.new].id}
                to == resolve(call, acc.lineage, e.change.after, f.new).path
            IN since \subseteq {d.after : d \in acc.visible} =>
                  to = IF now = {} THEN NoPath ELSE CHOOSE p \in now : TRUE

\* A file of an eligible delivery that the target still has under another name
\* and that the lineage cannot follow is reported as lost
\* (PathLineage::fallbacks), not left out in silence.
LostFilesAreReported ==
    Recommended =>
        \A e \in acc.eligible : \A f \in FilesOf(call, e.change) :
            /\ f.new # NoPath
            /\ \E p \in Paths : call.trees[call.target][p].id = call.trees[e.change.after][f.new].id
            /\ resolve(call, acc.lineage, e.change.after, f.new).path = NoPath
            => acc.scored.fallbacks \cap {"path_lineage_gap", "path_lineage_incomplete"} # {}

\* Every destination is in the target's tree, whatever the history and the
\* structure index say (locations_for_delivery, selector_is_live).
DestinationsAreLive ==
    Recommended => \A s \in acc.scored.destinations : s[2] \in Live(call.trees[call.target])

\* Records of one boundary vote once: a destination's supporting deliveries
\* have different boundaries, and none is of a boundary that a visible record
\* ties to the task asked about (eligible_deliveries).
BoundariesVoteOnce ==
    Recommended =>
        \A s \in DOMAIN acc.scored.direct :
            \A d, e \in {d \in acc.visible : d.id \in acc.scored.direct[s].deliveries} :
                /\ d # e => <<d.before, d.after>> # <<e.before, e.after>>
                /\ \A o \in acc.visible : o.before = d.before /\ o.after = d.after =>
                      \A t \in o.tasks : t.task # call.task
=============================================================================
