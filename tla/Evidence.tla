------------------------------ MODULE Evidence ------------------------------
(***************************************************************************)
(* The bounded walks over one index and what is answered from them: impact *)
(* and trace (crates/orbit-graph/src/query) and the evidence, entry points *)
(* and candidate tests of a changed symbol                                 *)
(* (crates/orbit-graph-changes/src/evidence.rs, analysis.rs).  One edge is *)
(* looked at in each step; the time budget may run out before any node.    *)
(*                                                                         *)
(* A selector is [form, file, name].  A path is the sequence of its edges, *)
(* from the far end to the queried symbol.                                 *)
(***************************************************************************)
EXTENDS GraphQueries

CONSTANTS
    Indexes,       \* the indexes to query
    Queries,       \* [op, target, direction, floor, depth, cap, budget, scope, most]
    TestFiles      \* the files is_test_path accepts

VARIABLES
    ix, query,
    phase,     \* "walk", "answer" or "done"
    goals,     \* the symbols whose evidence is still to be collected
    walk,      \* the walk in progress
    reports,   \* evidence collected so far, by selector
    answer     \* the callers, entry points and tests of the target

vars == <<ix, query, phase, goals, walk, reports, answer>>

Op == query.op

Selector(form, file, name) == [form |-> form, file |-> file, name |-> name]
FileSel(file) == Selector("file", file, None)
SymbolSel(id) == Selector("symbol", ix.symbols[id].file, ix.symbols[id].name)

(* A walk: nodes to visit, edges of the visited node to look at, nodes     *)
(* already met, what was found, the cycles cut off, the bounds reached.    *)
Walk(node, mark) ==
    [queue |-> <<[node |-> node, path |-> <<>>, dist |-> 0]>>, todo |-> <<>>,
     at |-> [node |-> node, path |-> <<>>, dist |-> 0],
     seen |-> {mark}, out |-> <<>>, pruned |-> 0, hits |-> {}]

StartWalk ==
    CASE Op = "impact" -> Walk(query.target, <<"symbol", query.target>>)
      [] Op = "trace" -> Walk(query.target, None)
      [] Op = "evidence" -> Walk(SymbolSel(query.target), SymbolSel(query.target))

Init ==
    /\ ix \in Indexes /\ query \in {q \in Queries : q.target \in DOMAIN ix.symbols}
    /\ phase = "walk" /\ goals = <<>> /\ reports = <<>>
    /\ walk = StartWalk
    /\ answer = [callers |-> <<>>, entries |-> {}, tests |-> {}]

Idle(op) == phase = "walk" /\ Op = op /\ walk.todo = <<>>
Looking(op) == phase = "walk" /\ Op = op /\ walk.todo # <<>>
Rest == UNCHANGED <<ix, query, phase, goals, reports, answer>>

----------------------------------------------------------------------------
(* Impact: breadth first, each symbol once, at most cap of them.           *)

ImpactPop ==
    /\ Idle("impact") /\ walk.queue # <<>>
    /\ LET f == Head(walk.queue)
       IN  walk' = [walk EXCEPT !.queue = Tail(@), !.at = f,
                      !.todo = IF f.dist >= query.depth THEN <<>>
                               ELSE Neighbors(ix, f.node, query.floor, query.direction)]
    /\ Rest

ImpactSee ==
    /\ Looking("impact")
    /\ LET key == Head(walk.todo)
           dist == walk.at.dist + 1
       IN  walk' =
             IF key \in walk.seen THEN [walk EXCEPT !.todo = Tail(@)]
             ELSE IF Len(walk.out) >= query.cap
             THEN [walk EXCEPT !.todo = <<>>, !.queue = <<>>, !.hits = {"node_cap"}]
             ELSE [walk EXCEPT !.todo = Tail(@), !.seen = @ \cup {key},
                     !.out = Append(@, [key |-> key, dist |-> dist]),
                     !.queue = IF dist < query.depth /\ key[1] = "symbol"
                               THEN Append(@, [node |-> key[2], path |-> <<>>, dist |-> dist])
                               ELSE @]
    /\ Rest

(* Nothing was found above the floor: once more without one.               *)
ImpactFallback ==
    /\ Idle("impact") /\ walk.queue = <<>> /\ walk.out = <<>> /\ query.floor # Fuzzy
    /\ query' = [query EXCEPT !.floor = Fuzzy]
    /\ walk' = StartWalk
    /\ UNCHANGED <<ix, phase, goals, reports, answer>>

ImpactDone ==
    /\ Idle("impact") /\ walk.queue = <<>> /\ (walk.out # <<>> \/ query.floor = Fuzzy)
    /\ phase' = "done"
    /\ UNCHANGED <<ix, query, goals, walk, reports, answer>>

(* Trace: the tree of calls below a command's handler; a symbol appears    *)
(* wherever it is called.                                                  *)
TracePop ==
    /\ Idle("trace") /\ walk.queue # <<>>
    /\ LET f == Head(walk.queue)
       IN  walk' = [walk EXCEPT !.queue = Tail(@), !.at = f,
                      !.todo = IF f.dist >= query.depth THEN <<>>
                               ELSE SelectSeq(EdgesForSymbol(ix, f.node),
                                              LAMBDA r : VisibleAtFloor(r.conf, query.floor))]
    /\ Rest

(* The cap counts the root. *)
TraceCall ==
    /\ Looking("trace")
    /\ LET r == Head(walk.todo)
           child == IF r.tqual = None THEN None ELSE ResolveQualified(ix, r.tqual, r.hint)
           dist == walk.at.dist + 1
       IN  walk' =
             IF Len(walk.out) + 1 >= query.cap
             THEN [walk EXCEPT !.todo = <<>>, !.queue = <<>>, !.hits = {"node_cap"}]
             ELSE [walk EXCEPT !.todo = Tail(@),
                     !.out = Append(@, [parent |-> walk.at.node, node |-> child, dist |-> dist]),
                     !.queue = IF dist < query.depth /\ child # None
                               THEN Append(@, [node |-> child, path |-> <<>>, dist |-> dist])
                               ELSE @]
    /\ Rest

TraceDone ==
    /\ Idle("trace") /\ walk.queue = <<>>
    /\ phase' = "done"
    /\ UNCHANGED <<ix, query, goals, walk, reports, answer>>

----------------------------------------------------------------------------
(* Evidence.                                                               *)

(* Categories, strongest first: a resolved call, an observed reference, an *)
(* import relationship, a heuristic match.                                 *)
Categorize(kind, conf) ==
    IF conf = Fuzzy THEN 4
    ELSE IF kind = "call" /\ conf <= 2 THEN 1
    ELSE IF kind = "use" THEN 3 ELSE 2

Category(path) == Max({path[i].category : i \in DOMAIN path})
Weakest(path) == Max({path[i].conf : i \in DOMAIN path})
AllCalls(path) == \A i \in DOMAIN path : path[i].kind = "call"

ShouldSurfaceFuzzy(floor) == floor \in {2, 3}

LineOf(offset) == offset \div 10

(* The symbol around the start of a line.  Spans are looked up by short    *)
(* name, so that symbols of one file with one short name share a span.     *)
Attribute(file, line) ==
    LET Span(i) == ix.symbols[ResolveTarget(ix, SymbolSel(i))]
        offset == line * 10
        around == {i \in DOMAIN ix.symbols : /\ ix.symbols[i].file = file
                                             /\ Span(i).start <= offset /\ offset < Span(i).end}
        Length(i) == Span(i).end - Span(i).start
        inner == First({i \in around : \A j \in around : Length(i) <= Length(j)})
    IN  IF inner = None THEN FileSel(file) ELSE SymbolSel(inner)

RefEdge(r, to, category) ==
    [from |-> Attribute(r.file, LineOf(r.start)), to |-> to, kind |-> r.kind,
     category |-> category, conf |-> r.conf, file |-> r.file, line |-> LineOf(r.start)]

(* A relation names its source by qualified name only. *)
RelationEdge(r, to) ==
    [from |-> Selector("module", None, r.from), to |-> to, kind |-> r.kind,
     category |-> Categorize(r.kind, r.conf), conf |-> r.conf, file |-> r.file,
     line |-> LineOf(r.start)]

(* Before floor-filtered refs and relations come the name-only ones, as    *)
(* heuristic matches: those of the fallback, and those the floor hid.      *)
InboundEdges(sel, floor) ==
    LET id == ResolveTarget(ix, sel)
        refs == QueryRefs(ix, id, floor)
        back == RefsFallback(ix, id, floor)
        Place(r) == <<r.file, LineOf(r.start), r.kind>>
        met == {Place(r) : r \in Range(refs) \cup Range(back)}
        weak == SelectSeq(QueryRefs(ix, id, Fuzzy), LAMBDA r : r.conf = Fuzzy /\ Place(r) \notin met)
        firsts == SelectSeq([i \in DOMAIN weak |-> i], LAMBDA i :
                    \A j \in 1 .. i - 1 : Place(weak[j]) # Place(weak[i]))
        hidden == IF ShouldSurfaceFuzzy(floor) THEN Mapped(firsts, LAMBDA i : weak[i]) ELSE <<>>
    IN  IF id = None THEN <<>>
        ELSE SortSeq(Mapped(refs, LAMBDA r : RefEdge(r, sel, Categorize(r.kind, r.conf))) \o
                     Mapped(QueryRelations(ix, id, floor), LAMBDA r : RelationEdge(r, sel)) \o
                     Mapped(back \o hidden, LAMBDA r : RefEdge(r, sel, 4)),
                     LAMBDA a, b : \/ a.category < b.category
                                   \/ a.category = b.category /\ a.file < b.file
                                   \/ a.category = b.category /\ a.file = b.file /\ a.line <= b.line)

(* The symbol a qualified name leads to: the index of names is filled in   *)
(* the order of files and spans, and each namesake replaces the one before.*)
QualifiedIndex(qual) ==
    LET named == {i \in DOMAIN ix.symbols : ix.symbols[i].qual = qual}
        Place(i) == <<ix.symbols[i].file, ix.symbols[i].start, i>>
        Later(i, j) == \E k \in 1 .. 3 : /\ Place(i)[k] > Place(j)[k]
                                        /\ \A h \in 1 .. k - 1 : Place(i)[h] = Place(j)[h]
    IN  IF named = {} THEN None ELSE CHOOSE i \in named : \A j \in named \ {i} : Later(i, j)

(* Calls that resolve to nothing indexed are listed apart, never as nodes. *)
OutboundEdges(sel, floor) ==
    LET id == ResolveTarget(ix, sel)
        kept == SelectSeq(EdgesForSymbol(ix, id), LAMBDA r :
                  /\ r.tqual # None /\ QualifiedIndex(r.tqual) # None
                  /\ \/ VisibleAtFloor(r.conf, floor)
                     \/ r.conf = Fuzzy /\ ShouldSurfaceFuzzy(floor))
        Edge(r) == [from |-> SymbolSel(QualifiedIndex(r.tqual)), to |-> sel,
                    kind |-> "call", category |-> Categorize("call", r.conf), conf |-> r.conf,
                    file |-> r.file, line |-> LineOf(r.start)]
    IN  IF id = None THEN <<>>
        ELSE SortSeq(Mapped(kept, Edge), LAMBDA a, b :
                 \/ a.category < b.category
                 \/ a.category = b.category /\ a.line < b.line
                 \/ /\ a.category = b.category /\ a.line = b.line
                    /\ a.from.file < b.from.file \/ (a.from.file = b.from.file /\ a.from.name <= b.from.name))

(* The walk over callees is the walk over referrers with other edges, whose*)
(* far end is the callee.                                                  *)
Edges(sel) == IF query.direction = "inbound" THEN InboundEdges(sel, query.floor)
              ELSE OutboundEdges(sel, query.floor)

EvidencePop ==
    /\ Idle("evidence") /\ walk.queue # <<>>
    /\ LET f == Head(walk.queue)
       IN  \/ walk' = [walk EXCEPT !.queue = Tail(@), !.at = f,
                         !.todo = IF f.dist >= query.depth THEN <<>> ELSE Edges(f.node),
                         !.hits = IF f.dist >= query.depth THEN @ \cup {"depth"} ELSE @]
           \/ query.budget /\ walk' = [walk EXCEPT !.queue = <<>>, !.hits = @ \cup {"time_budget"}]
    /\ Rest

OnPath(f, target) == {f.node, target} \cup {f.path[i].from : i \in DOMAIN f.path}
Target == IF goals = <<>> THEN SymbolSel(query.target) ELSE Head(goals)

(* Seeded bug: the end of the walk at the depth is not reported. *)
EvidenceEdgeSilent ==
    /\ Looking("evidence")
    /\ LET e == Head(walk.todo)
           chain == <<e>> \o walk.at.path
       IN  walk' =
             IF e.from \in OnPath(walk.at, Target) THEN [walk EXCEPT !.todo = Tail(@)]
             ELSE [walk EXCEPT !.out = Append(@, chain), !.todo = Tail(@), !.seen = @ \cup {e.from},
                     !.queue = IF e.from.form # "file" /\ Len(chain) < query.depth /\ e.from \notin walk.seen
                               THEN Append(@, [node |-> e.from, path |-> chain, dist |-> Len(chain)])
                               ELSE @]
    /\ Rest

(* One edge into the visited node.  The node cap bounds the paths and,     *)
(* apart from that, the expanded nodes.                                    *)
EvidenceEdge ==
    /\ Looking("evidence")
    /\ LET e == Head(walk.todo)
           chain == <<e>> \o walk.at.path
           symbol == e.from.form # "file"
           short == Len(chain) < query.depth
           deep == IF symbol /\ ~short THEN {"depth"} ELSE {}
       IN  walk' =
             IF e.from \in OnPath(walk.at, Target)
             THEN [walk EXCEPT !.todo = Tail(@), !.pruned = @ + 1]
             ELSE IF Len(walk.out) >= query.cap
             THEN [walk EXCEPT !.todo = <<>>, !.queue = <<>>, !.hits = @ \cup {"node_cap"}]
             ELSE IF symbol /\ short /\ e.from \notin walk.seen
             THEN IF Cardinality(walk.seen) >= query.cap
                  THEN [walk EXCEPT !.out = Append(@, chain), !.todo = <<>>, !.queue = <<>>,
                                    !.hits = @ \cup {"node_cap"}]
                  ELSE [walk EXCEPT !.out = Append(@, chain), !.todo = Tail(@),
                          !.seen = @ \cup {e.from},
                          !.queue = Append(@, [node |-> e.from, path |-> chain, dist |-> Len(chain)])]
             ELSE [walk EXCEPT !.out = Append(@, chain), !.todo = Tail(@), !.hits = @ \cup deep]
    /\ Rest

(* The paths of a finished walk that the filters admit, by the file of the *)
(* call site or of the callee, strongest and then shortest first.          *)
Before(p, q) ==
    \/ Category(p) < Category(q)
    \/ Category(p) = Category(q) /\ Len(p) < Len(q)
    \/ Category(p) = Category(q) /\ Len(p) = Len(q) /\ p[1].file < q[1].file
    \/ Category(p) = Category(q) /\ Len(p) = Len(q) /\ p[1].file = q[1].file /\ p[1].line <= q[1].line

FarFile(p) == IF query.direction = "inbound" THEN p[1].file ELSE p[1].from.file

Report == [paths |-> SelectSeq(SortSeq(walk.out, Before), LAMBDA p : FarFile(p) \in query.scope),
           hits |-> walk.hits]

(* The tests that start a program the target's package ships: rows of test *)
(* files, with the symbol around them.                                     *)
TestInvocations == {r \in Range(ix.refs) : r.kind = "runtime" /\ r.file \in TestFiles}
Invocations == {r \in TestInvocations : r.ships}
IsTest(sel) == sel.form = "symbol" /\ sel.file \in TestFiles
               /\ ix.symbols[ResolveTarget(ix, sel)].test
Invoker(r) == IF Enclosing(ix, r) = None THEN FileSel(r.file) ELSE SymbolSel(Enclosing(ix, r))
Helpers == {Invoker(r) : r \in Invocations} \ {s \in {Invoker(r) : r \in Invocations} :
                                                 s.form = "file" \/ IsTest(s)}

(* A finished walk is kept under its selector; what is asked for next is   *)
(* the evidence of the helpers that start the program.                     *)
EvidenceDone ==
    /\ Idle("evidence") /\ walk.queue = <<>>
    /\ LET done == reports @@ (Target :> Report)
           left == Helpers \ DOMAIN done
       IN  /\ reports' = done
           /\ IF left = {} \/ query.direction # "inbound"
              THEN phase' = "answer" /\ UNCHANGED <<goals, walk>>
              ELSE \E next \in left : /\ goals' = <<next>> /\ walk' = Walk(next, next)
                                      /\ UNCHANGED phase
    /\ UNCHANGED <<ix, query, answer>>

----------------------------------------------------------------------------
(* What is answered from the paths.                                        *)

Paths == reports[SymbolSel(query.target)].paths

(* Callers: the strongest path of each, strongest first, at most `most'.   *)
CallerKey(p) == <<Category(p), Len(p), Weakest(p)>>
KeyBefore(k, l) ==
    \/ k[1] < l[1]
    \/ k[1] = l[1] /\ k[2] < l[2]
    \/ k[1] = l[1] /\ k[2] = l[2] /\ k[3] < l[3]

CollectCallers ==
    LET Better(j, i) == \/ KeyBefore(CallerKey(Paths[j]), CallerKey(Paths[i]))
                        \/ CallerKey(Paths[j]) = CallerKey(Paths[i]) /\ j < i
        best == {i \in DOMAIN Paths : ~\E j \in DOMAIN Paths :
                   Paths[j][1].from = Paths[i][1].from /\ Better(j, i)}
        order == SetToSortSeq(best, Better)
    IN  [k \in 1 .. Min({query.most, Len(order)}) |-> Paths[order[k]]]

(* Seeded bug: an entry point keeps the first path it is met on, not its   *)
(* shortest.                                                               *)
EntryPointsFirst ==
    {[node |-> SymbolSel(query.target), dist |-> 0] : i \in {query.target} \cap ix.entry} \cup
    {[node |-> Paths[i][1].from, dist |-> Len(Paths[i])] : i \in {j \in DOMAIN Paths :
        /\ Paths[j][1].from.form = "symbol"
        /\ ResolveTarget(ix, Paths[j][1].from) \in ix.entry
        /\ \A k \in 1 .. j - 1 : Paths[k][1].from # Paths[j][1].from}}

(* A rule fires for the symbol: a command handler, main, a public item. *)
ClassifyEntryPoint(sel) == sel.form = "symbol" /\ ResolveTarget(ix, sel) \in ix.entry

(* Entry points: the affected symbols a rule fires for, by the first of    *)
(* their shortest paths; the queried symbol is at distance 0.              *)
EntryPoints ==
    {[node |-> SymbolSel(query.target), dist |-> 0] : i \in {query.target} \cap ix.entry} \cup
    {[node |-> p[1].from, dist |-> Len(p)] :
        p \in {Paths[i] : i \in {j \in DOMAIN Paths :
                 /\ ClassifyEntryPoint(Paths[j][1].from)
                 /\ \A k \in DOMAIN Paths : Paths[k][1].from = Paths[j][1].from
                                              => Len(Paths[j]) <= Len(Paths[k])}}}

(* Candidate tests, by source: 1 a call path, 2 an import, 3 a name, 4 a   *)
(* program.  `direct' tells the note of an invoking test from that of a    *)
(* test that reaches a helper.                                             *)
Candidate(test, source, category, conf, direct) ==
    [test |-> test, source |-> source, category |-> category, conf |-> conf, direct |-> direct]

(* A test is listed once, by the first of its paths. *)
CallPathCandidates ==
    LET tests == {i \in DOMAIN Paths : Paths[i][1].file \in TestFiles /\ AllCalls(Paths[i])}
        first == {i \in tests : \A j \in tests : Paths[j][1].from = Paths[i][1].from => i <= j}
    IN  {Candidate(Paths[i][1].from, 1, Category(Paths[i]), Weakest(Paths[i]), FALSE) : i \in first}

(* An import names the target's module, only its basename, or its symbol.  *)
ImportCandidates ==
    {CASE m.match = "identified" -> Candidate(FileSel(m.file), 2, 3, 5, FALSE)
       [] m.match \in {"basename", "symbol"} -> Candidate(FileSel(m.file), 3, 4, 5, FALSE)
     : m \in {x \in ix.imports : x.file # ix.symbols[query.target].file}}

NamingCandidates ==
    {Candidate(SymbolSel(i), 3, 4, 5, FALSE) : i \in {j \in DOMAIN ix.symbols :
        ix.symbols[j].file \in TestFiles /\ ix.symbols[j].names = query.target}}

ReachingTests(helper) ==
    {p[1].from : p \in {q \in Range(reports[helper].paths) :
        IsTest(q[1].from) /\ Category(q) # 4 /\ AllCalls(q)}}

RuntimeCandidates ==
    LET rows == {Invoker(r) : r \in Invocations}
        direct == rows \ Helpers
        via == UNION {IF ReachingTests(h) = {} THEN {h} ELSE ReachingTests(h) : h \in Helpers}
    IN  {Candidate(t, 4, 5, 5, TRUE) : t \in direct} \cup
        {Candidate(t, 4, 5, 5, FALSE) : t \in via \ direct}

(* Each test with its strongest source.                                    *)
TestKey(c) == <<c.source, c.category, c.conf>>
CollectTests ==
    LET all == CallPathCandidates \cup ImportCandidates \cup NamingCandidates \cup RuntimeCandidates
    IN  {c \in all : \A d \in all : d.test = c.test => ~KeyBefore(TestKey(d), TestKey(c))}

Answer ==
    /\ phase = "answer"
    /\ answer' = IF query.direction = "inbound"
                 THEN [callers |-> CollectCallers, entries |-> EntryPoints, tests |-> CollectTests]
                 ELSE answer
    /\ phase' = "done"
    /\ UNCHANGED <<ix, query, goals, walk, reports>>

Done == phase = "done" /\ UNCHANGED vars

Step == \/ ImpactPop \/ ImpactSee \/ ImpactFallback \/ ImpactDone
        \/ TracePop \/ TraceCall \/ TraceDone
        \/ EvidencePop \/ EvidenceEdge \/ EvidenceDone \/ Answer

Next == Step \/ Done

Spec == Init /\ [][Next]_vars
----------------------------------------------------------------------------
(* Properties.                                                             *)

(* The type invariant. *)
TypeOK ==
    /\ ix \in Indexes /\ phase \in {"walk", "answer", "done"}
    /\ Len(walk.queue) <= query.cap + 1 /\ Len(walk.out) <= query.cap
    /\ walk.at.dist \in 0 .. query.depth
    /\ walk.hits \subseteq {"depth", "node_cap", "time_budget"}
    /\ \A s \in DOMAIN reports : s.form = "symbol"

(* The nodes within k steps of some start, for k up to the depth.          *)
Within(start, Steps(_)) ==
    LET N[k \in 0 .. query.depth] ==
            IF k = 0 THEN {start} ELSE N[k - 1] \cup UNION {Steps(n) : n \in N[k - 1]}
    IN  N
Distance(near, n) == Min({k \in DOMAIN near : n \in near[k]})

ImpactSteps(n) == IF n[1] = "symbol" THEN Range(Neighbors(ix, n[2], query.floor, query.direction))
                  ELSE {}

(* traverse visits what is reachable within the depth and nothing else,    *)
(* each node once and at its least distance; only the node cap may cut     *)
(* that short, and then it is reached and reported.                        *)
ImpactIsReachability ==
    Op = "impact" /\ phase = "done" =>
        \E near \in {Within(<<"symbol", query.target>>, ImpactSteps)} :
            LET all == {[key |-> n, dist |-> Distance(near, n)] : n \in near[query.depth] \ near[0]}
            IN  /\ Range(walk.out) \subseteq all
                /\ Len(walk.out) = Min({Cardinality(all), query.cap})
                /\ Cardinality(Range(walk.out)) = Len(walk.out)
                /\ (walk.hits = {}) <=> (Cardinality(all) <= query.cap)

(* The tree trace builds holds every chain of calls up to the depth, and   *)
(* says it is cut exactly when it would outgrow the cap, the root counted. *)
TraceIsWholeOrCut ==
    LET Kids(n) == {r \in Range(EdgesForSymbol(ix, n)) : VisibleAtFloor(r.conf, query.floor)}
        Child(r) == IF r.tqual = None THEN None ELSE ResolveQualified(ix, r.tqual, r.hint)
        Size[k \in 0 .. query.depth] ==
            [n \in DOMAIN ix.symbols \cup {None} |->
                IF k = 0 \/ n = None THEN 1
                ELSE 1 + MapThenSumSet(LAMBDA r : Size[k - 1][Child(r)], Kids(n))]
    IN  Op = "trace" /\ phase = "done" =>
            \E size \in {Size[query.depth][query.target]} :
                /\ Len(walk.out) + 1 = Min({size, query.cap})
                /\ (walk.hits = {}) <=> (size <= query.cap)

EvidenceSteps(n) == IF n.form = "file" THEN {} ELSE {e.from : e \in Range(Edges(n))}
WalkEnds == Op = "evidence" /\ phase = "walk" /\ walk.todo = <<>> /\ walk.queue = <<>>

(* Evidence that hit no bound is closed: nothing that refers to a node on  *)
(* a path, by any edge the floor admits, is missing.  Evidence cut only by *)
(* the depth holds every node within it, first by a shortest chain.        *)
EvidenceIsReachability ==
    WalkEnds /\ walk.hits \subseteq {"depth"} =>
        \E near \in {Within(Target, EvidenceSteps)} :
            LET far == {p[1].from : p \in Range(walk.out)}
            IN  /\ far = near[query.depth] \ {Target}
                /\ \A n \in far : Distance(near, n) = Min({Len(p) : p \in {q \in Range(walk.out) : q[1].from = n}})
                /\ walk.hits = {} => \A n \in far : EvidenceSteps(n) \subseteq far \cup {Target}

(* Every path is a chain of edges from its far end to the queried symbol   *)
(* that passes through no node twice, so recursion in the code ends it.    *)
SimplePaths ==
    Op = "evidence" => \A p \in Range(walk.out) :
        LET nodes == {p[i].from : i \in DOMAIN p} \cup {Target}
        IN  /\ Cardinality(nodes) = Len(p) + 1
            /\ p[Len(p)].to = Target
            /\ \A i \in 1 .. Len(p) - 1 : p[i].to = p[i + 1].from

Answered == Op = "evidence" /\ query.direction = "inbound" /\ phase = "done"

(* The callers kept are distinct, each by its strongest path, and none     *)
(* left out is stronger than one kept.                                     *)
CallersAreStrongest ==
    Answered =>
        LET all == {p[1].from : p \in Range(Paths)}
            Keys(c) == {CallerKey(p) : p \in {q \in Range(Paths) : q[1].from = c}}
            kept == {p[1].from : p \in Range(answer.callers)}
        IN  /\ Len(answer.callers) = Min({query.most, Cardinality(all)}) /\ Cardinality(kept) = Len(answer.callers)
            /\ \A p \in Range(answer.callers) :
                 /\ \A k \in Keys(p[1].from) : ~KeyBefore(k, CallerKey(p))
                 /\ \A c \in all \ kept : \A k \in Keys(c) : ~KeyBefore(k, CallerKey(p))

(* Every entry point among the symbols the evidence reaches is named once, *)
(* at its least distance, whatever stronger but longer path it also has.   *)
EntriesAreNearest ==
    Answered /\ query.scope = {m.file : m \in Range(ix.symbols)}
             /\ reports[SymbolSel(query.target)].hits \subseteq {"depth"} =>
        \E near \in {Within(SymbolSel(query.target), EvidenceSteps)} :
            answer.entries =
                {[node |-> n, dist |-> Distance(near, n)] : n \in {s \in near[query.depth] :
                    s.form = "symbol" /\ ResolveTarget(ix, s) \in ix.entry}}

(* A test is named once.  No test that starts a program of the target's    *)
(* package goes unnamed: it is named itself, or the tests that reach it by *)
(* calls are.                                                              *)
TestsAccounted ==
    Answered =>
        /\ \A c, d \in answer.tests : c.test = d.test => c = d
        /\ \A r \in Invocations :
             \/ \E c \in answer.tests : c.test = Invoker(r)
             \/ \E c \in answer.tests, p \in Range(reports[Invoker(r)].paths) :
                    c.test = p[1].from /\ IsTest(p[1].from) /\ AllCalls(p)

(* The two directions agree: a symbol that calls another is, with what it  *)
(* encloses, among the referrers of the other.                             *)
DirectionsAgree ==
    phase = "done" => \A i \in DOMAIN ix.symbols, floor \in {query.floor} :
        \A n \in Range(OutboundCallNeighbors(ix, i, floor)) :
            n[1] = "symbol" => \E k \in Range(InboundRefNeighbors(ix, n[2], floor)) :
                /\ k[1] = "symbol" /\ ix.symbols[k[2]].file = ix.symbols[i].file
                /\ ix.symbols[k[2]].start >= ix.symbols[i].start /\ ix.symbols[k[2]].end <= ix.symbols[i].end

\* The bounded walks find what is reachable, all of it or with the bound that
\* cut them reported, and never go round a cycle.
WalksAreExact ==
    TypeOK /\ ImpactIsReachability /\ TraceIsWholeOrCut /\ EvidenceIsReachability /\ SimplePaths

\* What is answered from the walks is the best they found: the strongest path of
\* a caller, the nearest entry points, every test with its reason, and the same
\* edges whichever way they are asked for.
AnswersAreTheBest ==
    CallersAreStrongest /\ EntriesAreNearest /\ TestsAccounted /\ DirectionsAgree
=============================================================================
