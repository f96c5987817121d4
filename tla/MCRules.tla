------------------------------ MODULE MCRules ------------------------------
(* The sequential procedures on small inputs: a behaviour is one call of one *)
(* of them.                                                                  *)
EXTENDS HistoryExtract, Recommend, Timestamps, Associations, OrbitSession, OrbitSync, RefResolution,
        TargetSymbolCache, StateDir, DatabaseFamilies, ReadPolicy, Evaluation,
        LiveEvaluation, PluginTools, Snapshots, TLC

---------------------------------------------------------------------------
(* HistoryExtract: two symbols a side, next to each other or nested          *)

MCShapes == {
    [name |-> "new", qualified |-> "A::new", overloaded |-> FALSE, kind |-> "fn", signature |-> "new()"],
    [name |-> "new", qualified |-> "A::new", overloaded |-> FALSE, kind |-> "fn", signature |-> "new(x)"],
    [name |-> "new", qualified |-> "B::new", overloaded |-> FALSE, kind |-> "fn", signature |-> "new()"],
    [name |-> "get", qualified |-> "get", overloaded |-> FALSE, kind |-> "fn", signature |-> "none"],
    [name |-> "add", qualified |-> "add#1", overloaded |-> TRUE, kind |-> "fn", signature |-> "add(x)"],
    [name |-> "add", qualified |-> "add#1", overloaded |-> TRUE, kind |-> "fn", signature |-> "add(x, y)"]}
MCLayouts == {<<<<0, 3>>, <<3, 6>>>>, <<<<0, 6>>, <<2, 4>>>>}
MCSymbols(shapes, layout) ==
    [i \in DOMAIN shapes |->
        [name |-> shapes[i].name, qualified |-> shapes[i].qualified, overloaded |-> shapes[i].overloaded,
         kind |-> shapes[i].kind, signature |-> shapes[i].signature, lo |-> layout[i][1], hi |-> layout[i][2]]]
MCTextSides(changes) ==
    {[state |-> "text", symbols |-> MCSymbols(shapes, layout), evidence |-> FALSE, lines |-> 3, changed |-> changed] :
        shapes \in UNION {[1..n -> MCShapes] : n \in 1..2}, layout \in MCLayouts, changed \in changes}
MCOtherSides ==
    {[state |-> state, symbols |-> <<>>, evidence |-> evidence, lines |-> 3, changed |-> {1, 2, 3}] :
        state \in {"text", "binary", "unsupported", "missing"}, evidence \in BOOLEAN}
MCExtractCalls ==
    [status : {"modified"}, before : MCTextSides({{1}, {1, 2, 3}}),
                            after : MCTextSides({{1, 3}})]
    \cup [status : {"renamed"}, before : MCTextSides({{}}), after : MCTextSides({{}})]
    \cup [status : {"deleted", "modified"}, before : MCTextSides({{1, 2, 3}}), after : MCOtherSides]
    \cup [status : {"added"}, before : MCOtherSides, after : MCTextSides({{1, 2, 3}})]

---------------------------------------------------------------------------
(* Recommend: three commits after the first, each delivered or not           *)

MCPaths == {"p", "q"}
MCSymbolOf == [id \in 0..4 |-> [qualified |-> IF id \in {1, 3} THEN "f" ELSE "g",
                                signature |-> IF id = 4 THEN "none" ELSE "s"]]
MCFile(id, version) == [id |-> id, version |-> version]
MCFirstTree == [p |-> MCFile(1, 1), q |-> Absent]
\* What commit c may do: edit all files, or rename, delete or add one.
MCEdits(tree, c) ==
    {[x \in MCPaths |-> IF tree[x] = Absent THEN Absent ELSE MCFile(tree[x].id, c)]}
    \cup {[tree EXCEPT ![x] = Absent] : x \in Live(tree)}
    \cup {[tree EXCEPT ![x] = MCFile(c, c)] : x \in MCPaths \ Live(tree)}
    \cup {[x \in MCPaths |-> IF x = o THEN Absent ELSE MCFile(tree[o].id, v)] :
              o \in {o \in Live(tree) : Cardinality(Live(tree)) = 1}, v \in {tree["p"].version, c}}
MCHistories ==
    UNION {UNION {{<<MCFirstTree, t2, t3, t4>> : t4 \in MCEdits(t3, 4)} : t3 \in MCEdits(t2, 3)}
              : t2 \in MCEdits(MCFirstTree, 2)}
MCDelivery(id, c, evidence, time, tasks) ==
    [id |-> id, before |-> c - 1, after |-> c, evidence |-> evidence, time |-> time, tasks |-> tasks]
MCTask(task, pre, time) == [task |-> task, pre |-> pre, at |-> time]
\* What the index holds of commit c.
MCRecords(c) ==
    {{}, {MCDelivery(2 * c, c, "git_only", Unknown, {})},
     {MCDelivery(2 * c + 1, c, "verified", c, {MCTask("t1", TRUE, c - 1)})},
     {MCDelivery(2 * c, c, "attested", c, {}),
      MCDelivery(2 * c + 1, c, "verified", c, {MCTask("t1", FALSE, c)})},
     {MCDelivery(2 * c, c, "attested", 6 - c, {MCTask("t2", TRUE, 3)})}}
\* The last commit is not indexed yet, or by a delivery.
MCLastRecords == {r \in MCRecords(4) : r # {} => \E d \in r : d.evidence = "attested"}
MCFirstRecords == MCRecords(2) \ {{MCDelivery(4, 2, "git_only", Unknown, {})}}
MCIndexes == {a \cup b \cup d : a \in MCFirstRecords, b \in MCRecords(3), d \in MCLastRecords}
MCStructure(kind, revision) ==
    [kind |-> kind, revision |-> revision, edges |-> {<<"p", "q">>, <<"q", "p">>}]
MCRequest(target, cutoff, task, level, variant, checkout, structure) ==
    [target |-> target, cutoff |-> cutoff, task |-> task, level |-> level, variant |-> variant,
     checkout |-> checkout, structure |-> structure, bigGap |-> cutoff = 3,
     hybrid |-> IF level = "symbol" THEN {"t2"} ELSE {}, matching |-> {"t1", "t2"}, lexical |-> {"q"}]
MCRequests == {
    MCRequest(4, Unknown, "none", "file", "combined", 4, MCStructure("local", 4)),
    MCRequest(4, Unknown, "t1", "symbol", "combined", 4, MCStructure("published", 3)),
    MCRequest(3, Unknown, "t1", "file", "graph_only", 3, MCStructure("missing", 3)),
    MCRequest(4, Unknown, "none", "file", "frequency", 0, MCStructure("local", 4)),
    MCRequest(4, 3, "none", "file", "combined", 3, MCStructure("local", 4)),
    MCRequest(4, 4, "t1", "symbol", "task_search", 4, MCStructure("local", 4)),
    MCRequest(4, 4, "t1", "file", "combined", 0, MCStructure("local", 4))}
MCChain == <<<<>>, <<1>>, <<2>>, <<3>>>>
MCRecommendCalls ==
    {[parents |-> MCChain, trees |-> trees, index |-> index, target |-> r.target, cutoff |-> r.cutoff,
      task |-> r.task, level |-> r.level, variant |-> r.variant, checkout |-> r.checkout,
      structure |-> r.structure, bigGap |-> r.bigGap, hybrid |-> r.hybrid,
      matching |-> r.matching, lexical |-> r.lexical] :
        trees \in MCHistories, index \in MCIndexes, r \in MCRequests}

\* Commit graphs of five commits, each with one parent or two.
MCParents(c) == {<<p>> : p \in 1..(c - 1)} \cup {<<p, q>> \in (1..(c - 1)) \X (1..(c - 1)) : p # q}
MCDistanceCalls ==
    {[parents |-> <<<<>>, <<1>>, c, d, e>>, target |-> 5] : c \in MCParents(3), d \in MCParents(4), e \in MCParents(5)}

---------------------------------------------------------------------------
(* Timestamps: around leap days, midnights and leap seconds                  *)

MCDates == {<<2000, 2, 28>>, <<2000, 2, 29>>, <<1999, 2, 29>>, <<2000, 3, 1>>}
MCClocks == {<<0, 0, 0>>, <<23, 59, 60>>, <<23, 30, 0>>}
MCTexts ==
    {[year |-> d[1], month |-> d[2], day |-> d[3], hour |-> c[1], minute |-> c[2], second |-> c[3],
      fraction |-> f, offset |-> o] :
        d \in MCDates, c \in MCClocks, f \in {<<>>, <<5>>, <<5, 0>>, <<0, 5>>}, o \in {0, 30, -60}}
MCTimestampCalls == [left : MCTexts, right : MCTexts]
MCClockCalls == [days : (0..800) \cup (10950..11020) \cup (47480..47550), seconds : {0, 3661, 86399}]

---------------------------------------------------------------------------
(* Associations: three deliveries of three destinations                      *)

MCRows(i) == {[locations |-> l, strength |-> s, sources |-> {i}] : l \in SUBSET (1..3), s \in 0..2}
MCAssociationCalls ==
    UNION {{<<a>> : a \in MCRows(1)}, MCRows(1) \X MCRows(2), MCRows(1) \X MCRows(2) \X MCRows(3)}

---------------------------------------------------------------------------
(* OrbitSession: every kind of child                                         *)

MCSessionCalls == [kind : {"tool", "mcp"}, helper : {"none", "group", "escaped"}, waitFails : BOOLEAN]

---------------------------------------------------------------------------
(* OrbitSync: commit 2 is the run's, 3 and 4 are the branch's                *)

MCPair(t, r) == [task |-> t, run |-> r]
MCPairs == [task : {"t1", "t2"}, run : {"r1", "r2"}]
MCHostTask(id, owner, run) ==
    [id |-> id, owner |-> owner, ownerName |-> "n1", run |-> run, started |-> FALSE, pending |-> TRUE]
MCRow(id, name, status, remote) == [id |-> id, name |-> name, status |-> status, remote |-> remote]
MCTree(p, q) == [p |-> p, q |-> q]
MCTrees == {MCTree("a", "a"), MCTree("b", "a"), MCTree("b", "b"), MCTree("a", "none")}
MCLanded(pair) ==
    [schema |-> 1, task |-> pair.task, run |-> pair.run, workspace |-> "w1", repository |-> "ours",
     status |-> "landed", commit |-> "committed", landing |-> "merged", method |-> "pull_request",
     base |-> 1, head |-> 2, landed |-> 4]
MCBase ==
    [taskIds |-> <<>>, pairs |-> <<MCPair("t1", "r1")>>, bound |-> 2, selector |-> "w1",
     checkout |-> "repository", origin |-> "ours",
     rows |-> <<MCRow("w1", "n1", "active", "ours"), MCRow("w2", "w1", "active", "other")>>,
     tasks |-> [w \in {"w1", "w2", "path"} |->
                   [t1 |-> MCHostTask("t1", "w1", "r1"),
                    t2 |-> MCHostTask(IF w = "w2" THEN "none" ELSE "t2", "w1", "none")]],
     snapshot |-> "none", broken |-> FALSE, rival |-> FALSE, index |-> {},
     parents |-> <<<<>>, <<1>>, <<1>>, <<3>>>>,
     trees |-> <<MCTree("a", "a"), MCTree("b", "a"), MCTree("a", "b"), MCTree("b", "b")>>,
     tip |-> 4, tips |-> {4}, deliveries |-> [pair \in MCPairs |-> MCLanded(pair)]]
\* Whatever the repository holds of one pair.
MCGraphCalls ==
    {[MCBase EXCEPT !.trees = <<MCTree("a", "a"), t2, t3, t4>>, !.parents[4] = p4, !.tip = tip,
                    !.deliveries[MCPair("t1", "r1")].base = base, !.deliveries[MCPair("t1", "r1")].head = landed.head,
                    !.deliveries[MCPair("t1", "r1")].landed = landed.commit,
                    !.deliveries[MCPair("t1", "r1")].method = landed.method] :
        t2 \in {MCTree("b", "a"), MCTree("b", "b")}, t3 \in MCTrees, t4 \in MCTrees, p4 \in {<<3>>, <<3, 2>>},
        tip \in 2..4, base \in {1, 3},
        landed \in [head : {2}, commit : {0, 3, 4}, method : {"pull_request"}]
                  \cup [head : {0, 2}, commit : {4}, method : {"local"}]}
\* Whatever Orbit says of the workspace and of the task.
MCRouteCalls ==
    {[MCBase EXCEPT !.selector = selector, !.checkout = checkout,
                    !.rows = <<MCRow("w1", name, status, remote), MCRow("w2", "w1", "active", "ours")>>,
                    !.tasks["path"]["t1"] = MCHostTask(id, owner, "r1"), !.tasks["w1"]["t1"].id = id] :
        selector \in {"none", "path", "w1", "w2"}, checkout \in {"repository", "elsewhere"}, name \in {"n1", "w2"},
        status \in {"active", "inactive", "unknown"}, remote \in {"ours", "other", "none"},
        id \in {"t1", "t2", "none"}, owner \in {"w1", "none"}}
    \cup
    {[MCBase EXCEPT !.selector = selector, !.origin = origin,
                    !.deliveries[MCPair("t1", "r1")].workspace = workspace,
                    !.deliveries[MCPair("t1", "r1")].repository = repository,
                    !.deliveries[MCPair("t1", "r1")].task = task] :
        selector \in {"path", "w1", "w2"}, origin \in {"ours", "other", "none"}, workspace \in {"w1", "w2"},
        repository \in {"ours", "none"}, task \in {"t1", "t2"}}
MCStored(snapshot, before, after) ==
    [pair |-> MCPair("t1", "r1"), before |-> before, after |-> after, evidence |-> "verified",
     text |-> "uncertain", snapshot |-> snapshot]
MCBatchCalls ==
    {[MCBase EXCEPT !.taskIds = taskIds, !.pairs = pairs, !.bound = bound, !.index = index, !.snapshot = snapshot,
                    !.broken = TRUE, !.rival = TRUE, !.tips = {2, 3},
                    !.deliveries[MCPair("t2", "r2")].status = verdict,
                    !.deliveries[MCPair("t2", "r2")].schema = IF verdict = "unread" THEN 0 ELSE 1] :
        taskIds \in {<<>>, <<"t1">>, <<"t2", "t1">>},
        pairs \in {<<>>, <<MCPair("t1", "r1")>>, <<MCPair("t1", "r1"), MCPair("t2", "r2"), MCPair("t1", "r1")>>},
        bound \in 1..2, verdict \in {"landed", "committed", "unread"}, snapshot \in {"none", "text"},
        index \in {{}, {MCStored("none", 3, 4)}, {MCStored("older", 3, 4)}, {MCStored("none", 1, 2)}}}
MCSyncCalls == {MCGraphCalls, MCRouteCalls, MCBatchCalls}

---------------------------------------------------------------------------
(* RefResolution: a module of a package changes; the ref stands in another   *)
(* module or in a test, and names what the other test may define too         *)

MCPackages == {[dir |-> <<>>, aliases |-> {"pkg"}]}
MCFileA == <<"src", "a">>
MCFileB == <<"src", "b">>
MCFileLib == <<"src", "lib">>
MCFileTest == <<"tests", "t">>
MCFileOther == <<"tests", "u">>
MCItem(path, name) == [form |-> "item", path |-> path, type |-> "none", trait |-> "none", object |-> FALSE, name |-> name]
MCMember(form, path, type, trait, name) ==
    [form |-> form, path |-> path, type |-> type, trait |-> trait, object |-> FALSE, name |-> name]
MCSym(f, kind, name, q) == [file |-> f, kind |-> kind, name |-> name, q |-> q]
MCFn(f, q) == MCSym(f, "fn", q.name, q)
MCStruct(f, path) == MCSym(f, "struct", "Foo", MCItem(path, "Foo"))
MCImplGreet(f) == MCSym(f, "impl", "Foo", MCMember("implemented", <<>>, "Foo", "Greet", ""))
\* What a module may define.
MCDefinitions(f) == {
    {},
    {MCStruct(f, <<>>), MCFn(f, MCMember("inherent", <<>>, "Foo", "none", "go"))},
    {MCFn(f, MCMember("declared", <<>>, "Greet", "none", "go"))},
    {MCStruct(f, <<>>), MCImplGreet(f)},
    {MCImplGreet(f), MCFn(f, MCMember("implemented", <<>>, "Foo", "Greet", "go"))},
    {MCFn(f, MCItem(<<>>, "go"))},
    {MCFn(f, MCItem(<<"m">>, "go"))},
    {MCFn(f, MCMember("inherent", <<"m">>, "Foo", "none", "go")), MCFn(f, MCItem(<<>>, "run"))}}
MCFewer(f) == {d \in MCDefinitions(f) : \A s \in d : s.q.path = <<>> /\ (s.kind = "impl" \/ s.q.form # "implemented")}
MCImport(f, path, symbol) == [file |-> f, path |-> path, symbol |-> symbol, source |-> <<symbol>>, module |-> {}]
MCPub(path, symbol, source) ==
    [file |-> MCFileLib, path |-> path, symbol |-> symbol, source |-> source, module |-> {<<>>}]
\* The library root: missing, or what it re-exports.
MCLibraries == {
    [files |-> {}, imports |-> {}],
    [files |-> {MCFileLib}, imports |-> {}],
    [files |-> {MCFileLib}, imports |-> {MCPub(<<"crate", "a">>, "go", <<"go">>), MCPub(<<"self", "x">>, "x", <<"x">>)}],
    [files |-> {MCFileLib}, imports |-> {MCPub(<<"crate", "b">>, "x", <<>>), MCPub(<<"self", "x">>, "none", <<"none">>)}]}
\* A ref that names go, and the imports of its file.
MCRef(f, kind, target, receiver, spelled) ==
    [file |-> f, name |-> "go", kind |-> kind, target |-> target, receiver |-> receiver, spelled |-> spelled]
MCSites(f) ==
    {[ref |-> MCRef(f, "call", {q}, FALSE, spelled), imports |-> imports] :
        q \in {MCMember("inherent", <<>>, "Foo", "none", "go"), MCMember("declared", <<>>, "Foo", "none", "go"),
               MCMember("implemented", <<>>, "Foo", "Greet", "go"),
               [MCMember("inherent", <<>>, "Greet", "none", "go") EXCEPT !.object = TRUE]},
        imports \in {{}, {MCImport(f, <<"pkg">>, "Foo")}, {MCImport(f, <<"crate", "a">>, "Foo")}}, spelled \in {FALSE}}
    \cup
    {[ref |-> MCRef(f, "call", {MCMember("declared", path, "Foo", "none", "go")}, FALSE, TRUE), imports |-> {}] :
        path \in {<<"pkg", "a">>, <<"super", "a">>, <<"m">>}}
    \cup
    {[ref |-> MCRef(f, "call", {MCItem(path, "go")}, FALSE, TRUE), imports |-> imports] :
        path \in {<<>>, <<"a">>, <<"m">>, <<"super", "a">>, <<"x">>},
        imports \in {{}, {MCImport(f, <<"crate", "a">>, "go")}, {MCImport(f, <<"crate", "b">>, "none"), MCImport(f, <<"crate">>, "a")}}}
    \cup
    {[ref |-> MCRef(f, "call", {}, TRUE, FALSE), imports |-> {}], [ref |-> MCRef(f, "use", {}, FALSE, FALSE), imports |-> {}],
     [ref |-> MCRef(f, "runtime_invocation", {}, FALSE, FALSE), imports |-> {}]}
MCSite(site, b, library) ==
    [ref |-> site.ref, symbols |-> b, imports |-> library.imports \cup site.imports,
     files |-> {MCFileA, MCFileB, MCFileTest, MCFileOther} \cup library.files]
MCPlaces ==
    {MCSite(site, b, library) : site \in MCSites(MCFileB), b \in MCFewer(MCFileB), library \in MCLibraries}
    \cup {MCSite(site, b, library) :
              site \in MCSites(MCFileTest), b \in MCFewer(MCFileOther),
              library \in {library \in MCLibraries : library.imports = {} \/ \E i \in library.imports : i.symbol = "go"}}
MCRefCalls ==
    [file : {MCFileA}, old : MCFewer(MCFileA), new : MCDefinitions(MCFileA), rest : MCPlaces]

---------------------------------------------------------------------------
(* TargetSymbolCache: two processes, of one version with one tree or two, or *)
(* of two versions. Only the order of versions counts, and the processes are *)
(* alike, so w1 is the older                                                 *)

MCWriters == {"w1", "w2"}
MCCacheCalls ==
    [version : {[w1 |-> 1, w2 |-> 1]}, tree : {[w1 |-> 1, w2 |-> 1], [w1 |-> 1, w2 |-> 2]}]
    \cup [version : {[w1 |-> 1, w2 |-> 2]}, tree : {[w1 |-> 1, w2 |-> 1]}]

---------------------------------------------------------------------------
(* StateDir: one or two components below a root, and a file                  *)

MCNodes ==
    {Missing} \cup [what : {"dir"}, mine : BOOLEAN, open : BOOLEAN, to : {"self"}]
    \cup [what : {"link"}, mine : {TRUE}, open : {TRUE}, to : {"inside", "outside", "nothing"}]
    \cup {[PrivateFile EXCEPT !.open = TRUE]}
MCPathNodes ==
    {<<n>> : n \in MCNodes}
    \cup {<<n, m>> \in MCNodes \X MCNodes : m = Missing \/ n.what \in {"dir", "link"}}
    \cup {<<LinkTarget, n, Missing>> : n \in MCNodes}
MCRivalNodes ==
    [none |-> {}, sibling |-> {PrivateDir},
     stranger |-> {LinkTarget, [PrivateDir EXCEPT !.mine = FALSE], [Missing EXCEPT !.what = "link", !.to = "outside"]}]
MCDirCalls ==
    [kind : {"scratch", "private", "chosen"}, access : {"read", "write"}, root : BOOLEAN, nodes : MCPathNodes,
     inside : BOOLEAN, tracked : BOOLEAN, linked : BOOLEAN, file : {Missing}, opens : {"open"},
     marker : {"none"}, rival : DOMAIN MCRivalNodes]
MCFileCalls ==
    [kind : {"scratch", "chosen"}, access : {"read", "write"}, root : {TRUE}, nodes : {<<PrivateDir>>},
     inside : {TRUE}, tracked : {FALSE}, linked : {FALSE}, file : MCNodes, opens : {"open", "check"},
     marker : {"none", "theirs"}, rival : DOMAIN MCRivalNodes]
MCStateCalls ==
    {c \in MCDirCalls : /\ c.kind = "chosen" => c.root /\ ~c.linked
                        /\ c.kind # "chosen" => c.inside
                        /\ c.kind = "private" => ~c.tracked /\ ~c.linked}
    \cup MCFileCalls

---------------------------------------------------------------------------
(* DatabaseFamilies: two branches of one old name, and one that is spelled   *)
(* like a detached commit                                                    *)

MCBranches == {"a/b", "a_b", "detached-c1"}
MCGitCommits == {"c1", "c2"}
MCLegacyStem == ("a/b" :> "a_b") @@ ("a_b" :> "a_b") @@ ("detached-c1" :> "detached-c1")
MCDetachedStem == [c1 |-> "detached-c1", c2 |-> "detached-c2"]
MCFamilyCalls == {[history |-> [c1 |-> {"c1"}, c2 |-> {"c1", "c2"}], opaque |-> TRUE],
                  [history |-> [c1 |-> {"c1"}, c2 |-> {"c2"}], opaque |-> FALSE]}

---------------------------------------------------------------------------
(* ReadPolicy                                                                *)

MCPolicyCalls == [policy : {"manual", "watch", "on_read", "windowed"}, last : {0, 2}]

---------------------------------------------------------------------------
(* Evaluation: a delivery after commit 2 of three, its files and symbols     *)

MCEvalVariants == {"combined", "frequency"}
MCHeldFile(old, symbols) == [old |-> old, symbols |-> symbols]
MCHeld(before, time, landed) ==
    [before |-> before, after |-> 3, verified |-> TRUE, time |-> time, landed |-> landed, tasks |-> {"t1"},
     inScope |-> TRUE, files |-> <<MCHeldFile("p", <<"f", "none">>), MCHeldFile("none", <<>>)>>]
MCCase(held) ==
    [named |-> TRUE, text |-> 1, preExecution |-> TRUE, hits |-> FALSE, hitsAt |-> 0, cutoff |-> 2,
     lowerBound |-> 0, task |-> "t1", target |-> 2, held |-> <<held>>]
MCEvaluation(training, cases, engine) ==
    [valid |-> TRUE, k |-> 2, parents |-> <<<<>>, <<1>>, <<2>>, <<1>>>>, training |-> training, cases |-> cases,
     live |-> [c \in 1..4 |-> IF c = 1 THEN {Selector("file", "q")}
                              ELSE {Selector("file", "p"), Selector("file", "q"), Selector("symbol", "f")}],
     engine |-> [i \in DOMAIN cases |-> engine]]
MCAnswers == {[combined |-> {"p", "f"}, frequency |-> {}], [combined |-> {"q", "gone"}, frequency |-> {"p"}]}
MCTraining == {{}, {[before |-> 1, after |-> 2, tasks |-> {"t2"}]}, {[before |-> 2, after |-> 3, tasks |-> {}]},
               {[before |-> 1, after |-> 2, tasks |-> {"t1"}]}}
MCTimedCases ==
    {[MCCase(MCHeld(before, IF known THEN landed ELSE 0, landed)) EXCEPT !.text = text, !.lowerBound = bound, !.target = target,
                                                  !.hits = hits > 0, !.hitsAt = hits - 1] :
        before \in {2, 4}, known \in BOOLEAN, landed \in 1..3, text \in 0..2, bound \in {0, 1, 3},
        target \in 1..2, hits \in 0..3}
MCOddCases ==
    {[MCCase(MCHeld(2, 3, 3)) EXCEPT !.held[1].files = files, !.held[1].verified = verified, !.named = named] :
        files \in {<<>>, <<MCHeldFile("p", <<>>)>>, <<MCHeldFile("gone", <<"f", "g">>), MCHeldFile("q", <<"f">>)>>,
                   <<MCHeldFile("none", <<>>)>>, <<MCHeldFile("gone", <<"none">>)>>},
        verified \in BOOLEAN, named \in BOOLEAN}
    \cup {[MCCase(MCHeld(2, 3, 3)) EXCEPT !.held = <<>>], [MCCase(MCHeld(2, 3, 3)) EXCEPT !.task = "t2"],
          [MCCase(MCHeld(2, 3, 3)) EXCEPT !.held[1].inScope = FALSE]}
MCEvaluationCalls ==
    {MCEvaluation({}, <<case>>, engine) : case \in MCTimedCases, engine \in MCAnswers}
    \cup {MCEvaluation(training, <<case, other>>, engine) :
              training \in MCTraining, case \in MCOddCases, other \in MCOddCases, engine \in MCAnswers}
    \cup {[MCEvaluation({}, <<>>, engine) EXCEPT !.valid = FALSE] : engine \in MCAnswers}

---------------------------------------------------------------------------
(* LiveEvaluation: commit 3 is a side branch that 4 merges                   *)

MCLiveVariants == {"off", "on"}
MCChange(kind, path) == [kind |-> kind, path |-> path]
MCEnding(git, after, files) == [git |-> git, after |-> after, files |-> files]
MCDeliveries ==
    {<<MCEnding(TRUE, 2, {MCChange("added", "q")}), MCEnding(FALSE, 4, {MCChange("modified", "q"), MCChange("deleted", "gone")}),
       MCEnding(g3, a3, {MCChange("modified", "p")}), MCEnding(TRUE, a4, {MCChange("modified", "p"), MCChange("modified", "q")})>> :
        g3 \in BOOLEAN, a3 \in 2..5, a4 \in 3..5}
MCEngineAnswers == [ranked : {[off |-> <<"q", "p">>, on |-> <<>>], [off |-> <<"x", "p">>, on |-> <<"p">>]},
                    cited : {{}, {1}, {2, 3}, {4}}]
MCLiveCalls ==
    {[parents |-> <<<<>>, <<1>>, <<1>>, <<2, 3>>, <<4>>>>, tip |-> tip, deliveries |-> deliveries, k |-> 2,
      subject |-> <<"plain", "restating", "plain", subject, "plain">>, limit |-> limit,
      live |-> <<{"p"}, {"p", "q"}, {"p"}, {"p", "q"}, {"p", "q"}>>,
      engine |-> <<early, early, early, late, late>>] :
        tip \in 4..5, deliveries \in MCDeliveries, subject \in {"plain", "empty", "restating"}, limit \in {1, 4},
        early \in MCEngineAnswers, late \in MCEngineAnswers}

---------------------------------------------------------------------------
(* PluginTools: up to two supplied fields, up to two things wrong            *)

MCFields == {"branch", "limit", "delivery", "workspace", "task_ids", "task_runs", "run_ids", "task_snapshots",
             "full", "budget_ms"}
MCMaintainCalls ==
    {c \in [op : {"history_sync", "import", "orbit_sync", "graph_sync"},
            fields : UNION {kSubset(n, MCFields) : n \in 0..2},
            bad : UNION {kSubset(n, {"null", "schema", "limit", "task_runs", "delivery", "task_snapshots", "budget_ms"})
                            : n \in 0..2},
            stateRoot : BOOLEAN, repository : BOOLEAN, dir : {"good", "unsafe"},
            claim : {"caller_attested", "verified_delivery"}] :
        c.bad \ {"null", "schema"} \subseteq c.fields}
MCAsk(query, task) ==
    [schema |-> TRUE, limit |-> TRUE, query |-> query, task |-> task, snapshot |-> "none", cutoff |-> FALSE,
     observed |-> "t1", workspace |-> "w1", repository |-> TRUE, hybrid |-> TRUE, hybridLimit |-> "none",
     hits |-> <<>>, hitsGood |-> TRUE, search |-> [mode |-> "fails", results |-> <<>>], index |-> "good",
     revision |-> TRUE]
MCResult(id, score, points) == [id |-> id, kind |-> "task", lexical |-> TRUE, score |-> score, points |-> points]
MCResults ==
    {MCResult("t1", "none", 0), MCResult("t2", "none", 0), MCResult("t2", "good", 1), MCResult("t2", "bad", 0),
     MCResult("none", "none", 0),
     [MCResult("t1", "none", 0) EXCEPT !.kind = "doc"], [MCResult("t1", "none", 0) EXCEPT !.lexical = FALSE]}
MCHits == {[task |-> "t1", score |-> 3], [task |-> "t3", score |-> 0]}
MCTextCalls ==
    {[MCAsk(query, task) EXCEPT !.snapshot = snapshot, !.cutoff = cutoff, !.observed = observed, !.index = index,
                                !.revision = revision, !.repository = revision \/ cutoff,
                                !.limit = limit, !.hybridLimit = bound, !.hybrid = hybrid] :
        query \in {"none", "q"}, task \in {"none", "t1"}, snapshot \in {"none", "t1", "t2"}, cutoff \in BOOLEAN,
        observed \in {"t1", "t2", "orbit_refused", "timeout", "invalid_request"}, index \in {"good", "missing"},
        revision \in BOOLEAN, limit \in BOOLEAN, bound \in {"none", "good", "wrong"}, hybrid \in BOOLEAN}
MCSearchCalls ==
    {[MCAsk("q", "none") EXCEPT !.search = [mode |-> mode, results |-> results], !.hits = hits] :
        mode \in {"lexical", "semantic"}, results \in UNION {[1..n -> MCResults] : n \in 0..3},
        hits \in UNION {[1..n -> MCHits] : n \in 0..2}}
MCFallbackCalls ==
    {[MCAsk("q", "none") EXCEPT !.search = [mode |-> mode, results |-> <<MCResult("t2", "none", 0)>>], !.hits = hits,
                                !.hitsGood = good, !.workspace = workspace] :
        mode \in {"fails", "lexical"}, hits \in UNION {[1..n -> MCHits] : n \in 0..2}, good \in BOOLEAN,
        workspace \in {"none", "w1"}}
MCAskCalls == {MCTextCalls, MCSearchCalls, MCFallbackCalls}
MCItems == [size : {1, 3}, parts : {0, 2}]
MCQueryCalls ==
    {[tool |-> tool, valid |-> TRUE, stateRoot |-> TRUE, repository |-> TRUE, published |-> "ready",
      bound |-> bound, fixed |-> fixed, found |-> [first |-> first, second |-> second]] :
        tool \in {"search", "refs"}, bound \in 1..3, fixed \in {0, 2, 9},
        first \in UNION {[1..n -> MCItems] : n \in 0..3}, second \in UNION {[1..n -> MCItems] : n \in 0..1}}
    \cup
    [tool : {"search", "show"}, valid : BOOLEAN, stateRoot : BOOLEAN, repository : BOOLEAN,
     published : {"ready", "missing", "incompatible"}, bound : {1}, fixed : {0},
     found : {[first |-> <<>>, second |-> <<>>]}]

---------------------------------------------------------------------------
(* Snapshots: trees of three entries, three statuses, two commits            *)

MCName(text, fold) == [text |-> text, fold |-> fold]
MCKinds == {<<"blob", 1>>, <<"blob", 2>>, <<"tree", 0>>, <<"link", 0>>, <<"commit", 0>>, <<"other", 0>>}
MCEntry(within, name, kind) == [within |-> within, name |-> name, kind |-> kind[1], size |-> kind[2]]
MCCommitTrees ==
    LET small == {MCName("a", "a"), MCName("A", "a")}
        names == small \cup {MCName(".GIT", ".git"), MCName("..", "..")}
        ok(t) == /\ \A i, j \in DOMAIN t : t[i].within = t[j].within /\ t[i].name = t[j].name => i = j
                 /\ \A i \in DOMAIN t : t[i].within # 0 => t[t[i].within].kind = "tree"
    IN  {t \in {<<MCEntry(0, n1, k1), MCEntry(w2, n2, k2), MCEntry(w3, n3, k3)>> :
                    n1 \in names, k1 \in MCKinds, n2 \in names, k2 \in MCKinds, n3 \in small,
                    k3 \in {<<"blob", 1>>, <<"tree", 0>>}, w2 \in 0..1, w3 \in 0..2} : ok(t)}
MCTreeCalls == [entries : MCCommitTrees, folds : BOOLEAN]
MCStatusCalls ==
    LET flags == {{"ignored"}, {"modified"}, {"untracked", "conflicted"}, {"added", "deleted"}}
        orders == {<<"p", ".orbit-graph-x">>, <<".orbit-graph/x", "q">>, <<"p", "q", ".orbit-graph">>,
                   <<".orbit-graph-x", "p", "q">>}
    IN  UNION {{[i \in DOMAIN o |-> [path |-> o[i], flags |-> f[i]]] : f \in [DOMAIN o -> flags]} : o \in orders}
MCCompareCalls ==
    LET none == <<>>
        all == <<Reason("UnsafeName", 0), Reason("OversizeBlob", 7), Reason("UnsupportedKind", 0),
                 Reason("Symlink", 0), Reason("Submodule", 0)>>
    IN  [base : {"c1"}, head : {"c1", "c2", "worktree"}, cache : BOOLEAN,
         lookup : [{"c1", "c2"} -> {"absent", "entry", "kept", "broken"}],
         excluded : {[c1 |-> all, c2 |-> none, worktree |-> <<Reason("UnsupportedKind", 0)>>]}]

---------------------------------------------------------------------------
Init == ExtractInit \/ RecommendInit \/ DistanceInit \/ TimestampInit \/ AssociationInit \/ SessionInit
        \/ SyncBatchInit \/ RefInit \/ CacheInit \/ StateInit \/ FamilyInit \/ PolicyInit
        \/ EvaluationInit \/ LiveInit \/ MaintainInit \/ AskInit \/ QueryInit
        \/ WalkInit \/ StatusInit \/ SidesInit

Next == ExtractNext \/ RecommendNext \/ SeedDistances \/ TimestampNext \/ AssociationNext \/ SessionNext
        \/ SyncBatchNext \/ RefNext \/ CacheNext \/ StateNext \/ FamilyNext \/ PolicyNext
        \/ EvaluationNext \/ LiveNext \/ MaintainNext \/ AskNext \/ QueryNext
        \/ WalkNext \/ StatusNext \/ SidesNext

Spec == Init /\ [][Next]_vars

---------------------------------------------------------------------------
(* The properties that span several of the modules.                          *)

\* A replay sees its past and nothing else: instants are ordered and read back
\* whatever their spelling, and nothing later than the cutoff has a say.
ReplayIsExact == ReplayIgnoresTheLater /\ InstantsAreOrdered /\ CutoffReadsBack

\* A recommendation rests on evidence that exists: files are followed by
\* identity, destinations are live, a boundary votes once, and the distances
\* and associations it is ranked by are the exact ones.
RecommendationsAreGrounded ==
    /\ LineageFollowsIdentity /\ LostFilesAreReported /\ DestinationsAreLive
    /\ BoundariesVoteOnce /\ DistancesAreExact
    /\ AssociationIsTheBest /\ ReasonsNameTheirEvidence

\* An evaluation measures prediction: no case has seen its answer, and every
\* number is of the cases it says it is of.
EvaluationsAreFair ==
    /\ CasesAreProspective /\ TruthIsAccounted /\ MetricsAreOfTheEvaluated
    /\ LeaksAreCaught /\ HeldOutIsUnbroken /\ CohortsAddUp
=============================================================================
