---------------------------- MODULE PluginTools ----------------------------
(* What the plugin's tools do with a request before, while and after they    *)
(* act on it.                                                                *)
(*                                                                           *)
(*   maintain     src/crates/orbit-graph-cli/src/plugin.rs: the checks of a  *)
(*                request, in order, and the operation                       *)
(*   recommend    plugin.rs, plugin/adapter.rs, and the engine's own checks  *)
(*                (src/crates/orbit-graph/src/recommend.rs): whose text is   *)
(*                ranked against, and with which task hits                   *)
(*   queries      plugin/query.rs: an answer cut to a limit and to a size    *)
EXTENDS Procedure, Naturals, Sequences, FiniteSets, FiniteSetsExt

CONSTANTS
    MaintainCalls,    \* [op, fields, bad, stateRoot, repository, dir, claim]
    AskCalls,         \* families of requests for a recommendation, with what Orbit answers
    QueryCalls,       \* queries, with what the index holds
    Ceiling,          \* MAX_RESULT_BYTES
    RankUnit          \* a number every result position divides

\* An observation that is not refused is of some task.
ASSUME PluginAssumption ==
    /\ \A c \in MaintainCalls : c.op \in {"history_sync", "import", "orbit_sync", "graph_sync"}
    /\ \A calls \in AskCalls : \A c \in calls : c.observed # "none"

ToolGoto(place, new) ==
    /\ at' = place
    /\ acc' = new
    /\ UNCHANGED call

---------------------------------------------------------------------------
(* maintain.  `bad` names what of the request is malformed: a null or an     *)
(* empty string, a schema version, a bound, a pair, a nested document.       *)

MaintainInit ==
    /\ call \in MaintainCalls
    /\ at = "maintain"
    /\ acc = [i |-> 1, code |-> "none", opened |-> FALSE, used |-> {}, stored |-> {}, callbacks |-> FALSE]

\* The optional fields an operation reads.
reads(op) ==
    CASE op = "history_sync" -> {"branch", "limit"}
      [] op = "import" -> {"branch", "delivery"}
      [] op = "orbit_sync" -> {"branch", "limit", "workspace", "task_ids", "task_runs", "task_snapshots"}
      [] op = "graph_sync" -> {"full", "budget_ms"}

decode_input == call.bad \cap {"null", "empty"} = {}
validate_schema == "schema" \notin call.bad
Applicable == "run_ids" \notin call.fields /\ call.fields \subseteq reads(call.op)
BoundsHold ==
    /\ call.op \in {"history_sync", "orbit_sync"} => "limit" \notin call.bad
    /\ call.op = "import" => "delivery" \in call.fields
    /\ call.op = "orbit_sync" => "task_runs" \notin call.bad
    /\ call.op = "graph_sync" => "budget_ms" \notin call.bad /\ call.stateRoot
\* delivery and task_snapshots are decoded once they are known to be read.
PartsDecode == call.bad \cap {"delivery", "task_snapshots"} = {}

\* The order of the checks; "open" opens, and creates, the history index.
Checks == <<"input", "schema", "fields", "bounds", "parts", "repository", "open">>

Passes(check) ==
    CASE check = "input" -> decode_input
      [] check = "schema" -> validate_schema
      [] check = "fields" -> Applicable
      [] check = "bounds" -> BoundsHold
      [] check = "parts" -> PartsDecode
      [] check = "repository" -> call.repository
      [] check = "open" -> ~call.stateRoot \/ call.dir # "unsafe"
RefusalOf(check) ==
    CASE check = "repository" -> "repository_unavailable"
      [] check = "open" -> "unsafe_state_path"
      [] OTHER -> "invalid_request"

Check ==
    /\ at = "maintain"
    /\ acc.i <= Len(Checks)
    /\ LET check == Checks[acc.i] IN
       IF Passes(check)
       THEN ToolGoto("maintain", [acc EXCEPT !.i = @ + 1,
                                             !.opened = @ \/ (check = "open" /\ call.op # "graph_sync")])
       ELSE ToolGoto("maintained", [acc EXCEPT !.code = RefusalOf(check)])

Uses(fields) == [acc EXCEPT !.code = "ok", !.used = call.fields \cap fields]

HistorySync == call.op = "history_sync" /\ ToolGoto("maintained", Uses({"branch", "limit"}))

\* Only orbit_sync verifies a delivery: the claim is lowered.
Import ==
    /\ call.op = "import"
    /\ ToolGoto("maintained",
           [Uses({"branch", "delivery"}) EXCEPT
               !.stored = {IF call.claim = "verified_delivery" THEN "caller_attested" ELSE call.claim}])

\* sync_orbit (OrbitSync) judges each pair through Orbit.
SyncOrbit ==
    /\ call.op = "orbit_sync"
    /\ ToolGoto("maintained",
           [Uses({"branch", "limit", "workspace", "task_ids", "task_runs", "task_snapshots"}) EXCEPT
               !.callbacks = TRUE, !.stored = {"verified_delivery"}])

\* graph_sync (CodeIndex) builds within the budget.
SyncGraph == call.op = "graph_sync" /\ ToolGoto("maintained", Uses({"full", "budget_ms"}))

\* The operation itself may fail: Git, SQLite, a lock; a batch partway.
OperationFails ==
    \E stored \in SUBSET (IF call.op = "orbit_sync" THEN {"verified_delivery"} ELSE {}) :
        ToolGoto("maintained", [acc EXCEPT !.code = "graph_error", !.stored = stored,
                                           !.callbacks = call.op = "orbit_sync"])

MaintainNext ==
    \/ Check
    \/ /\ at = "maintain" /\ acc.i > Len(Checks)
       /\ (HistorySync \/ Import \/ SyncOrbit \/ SyncGraph \/ OperationFails)

---------------------------------------------------------------------------
(* recommend.  Scores are in units of 1/RankUnit; a task observation may     *)
(* answer for another task than the one asked for.                           *)

AskInit ==
    /\ \E calls \in AskCalls : call \in calls
    /\ at = "ask"
    /\ acc = [code |-> "none", snapshot |-> call.snapshot, confirmed |-> FALSE, hits |-> call.hits,
              dropped |-> 0, source |-> "none", relevance |-> <<>>]

Refuse(code) == ToolGoto("toolAnswered", [acc EXCEPT !.code = code])

\* The bounds and the intent, before the repository is looked at.
RequestIsSound ==
    /\ call.schema /\ call.limit
    /\ call.hybridLimit # "none" => call.hybrid /\ call.hybridLimit = "good"
    /\ (call.query = "none") # (call.task = "none")

\* The task as Orbit holds it; only without a cutoff is a supplied snapshot
\* compared with it.
ObserveTask ==
    /\ at = "ask"
    /\ IF ~RequestIsSound THEN Refuse("invalid_request")
       ELSE IF ~call.repository THEN Refuse("repository_unavailable")
       ELSE IF call.task = "none" \/ (call.cutoff /\ call.snapshot # "none") THEN ToolGoto("findTasks", acc)
       ELSE IF call.observed \in {"invalid_request", "orbit_refused", "timeout"} THEN Refuse(call.observed)
       ELSE IF acc.snapshot \notin {"none", call.observed} THEN Refuse("graph_error")
       ELSE ToolGoto("findTasks", [acc EXCEPT !.snapshot = call.observed, !.confirmed = TRUE])

WellFormed(item, mode) ==
    /\ item.id # "none" /\ item.kind \in {"none", "task"}
    /\ item.score # "bad"
    /\ item.score = "none" => mode = "lexical" /\ item.kind = "task" /\ item.lexical

\* hybrid_search: what is malformed is dropped, what has no score is worth the
\* reciprocal of its position among all results.
SearchHits(results, mode) ==
    LET kept == SelectSeq([i \in DOMAIN results |-> <<i, results[i]>>], LAMBDA pair : WellFormed(pair[2], mode))
    IN  [i \in DOMAIN kept |-> [task |-> kept[i][2].id,
                                score |-> IF kept[i][2].score = "none" THEN RankUnit \div kept[i][1]
                                          ELSE kept[i][2].points]]

\* A search that fails leaves the supplied hits and a warning.
SearchTasks ==
    /\ at = "findTasks"
    /\ IF ~call.hybrid
       THEN ToolGoto("askEngine", [acc EXCEPT !.source = IF call.hits = <<>> THEN "local_lexical" ELSE "supplied"])
       ELSE IF call.workspace = "none" \/ call.search.mode = "fails"
       THEN ToolGoto("askEngine", [acc EXCEPT !.source = "fallback"])
       ELSE \E hits \in {SearchHits(call.search.results, call.search.mode)} :
            ToolGoto("askEngine", [acc EXCEPT !.source = "orbit", !.hits = hits \o @,
                                           !.dropped = Len(call.search.results) - Len(hits)])

\* validate_request: a snapshot is the requested task's, and a query has none.
EngineAccepts == acc.snapshot # "none" => acc.snapshot = call.task

\* normalized_hybrid_hits: per task the best score, as a share of the best.
normalized_hybrid_hits(hits) ==
    LET top == Max({hits[i].score : i \in DOMAIN hits} \cup {0})
    IN  [t \in {hits[i].task : i \in DOMAIN hits} |->
            <<Max({hits[i].score : i \in {i \in DOMAIN hits : hits[i].task = t}}), top>>]

AskEngine ==
    /\ at = "askEngine"
    /\ IF call.index = "missing" THEN Refuse("index_missing")
       ELSE IF ~EngineAccepts THEN Refuse("invalid_request")
       ELSE IF ~call.revision THEN Refuse("not_found")
       ELSE IF ~call.hitsGood THEN Refuse("invalid_request")
       ELSE ToolGoto("toolAnswered", [acc EXCEPT !.code = "ok", !.relevance = normalized_hybrid_hits(acc.hits)])

AskNext == ObserveTask \/ SearchTasks \/ AskEngine

---------------------------------------------------------------------------
(* The query tools.  The index's answer is two lists of items; an item has   *)
(* a size and a list of parts, each of size one.                             *)

Lists == {"first", "second"}

QueryInit ==
    /\ call \in QueryCalls
    /\ at = "askIndex"
    /\ acc = [code |-> "none", cap |-> call.bound, raw |-> call.found, more |-> FALSE,
              result |-> call.found, flag |-> FALSE, truncation |-> {}]

RefuseQuery(code) == ToolGoto("unanswered", [acc EXCEPT !.code = code])

FirstOf(list, cap) == SubSeq(list, 1, IF cap < Len(list) THEN cap ELSE Len(list))

\* Query::run; a search reads one match past its limit and drops it.
AskIndex ==
    /\ at = "askIndex"
    /\ IF ~call.valid \/ ~call.stateRoot THEN RefuseQuery("invalid_request")
       ELSE IF ~call.repository THEN RefuseQuery("repository_unavailable")
       ELSE IF call.published \in {"missing", "incompatible"} THEN RefuseQuery("index_" \o call.published)
       ELSE IF call.tool = "show" THEN ToolGoto("shown", acc)
       ELSE IF call.tool = "search"
       THEN ToolGoto("boundResult", [acc EXCEPT !.raw.first = FirstOf(@, call.bound),
                                          !.more = Len(call.found.first) > call.bound])
       ELSE ToolGoto("boundResult", acc)

Shorter(n, cap) == IF cap < n THEN cap ELSE n
\* cap_arrays: every list, at any depth, at most cap long.
cap_arrays(value, cap) ==
    [l \in Lists |-> [i \in 1..Shorter(Len(value[l]), cap) |->
                         [value[l][i] EXCEPT !.parts = Shorter(@, cap)]]]

\* Per path, how many entries of how many; below a list, of what it kept.
cuts(value, cap) ==
    LET capped == cap_arrays(value, cap)
        Parts(v, l) == MapThenSumSet(LAMBDA i : v[l][i].parts, DOMAIN capped[l])
    IN  {[path |-> <<l>>, returned |-> Len(capped[l]), total |-> Len(value[l])] : l \in Lists}
        \cup {[path |-> <<l, "parts">>, returned |-> Parts(capped, l), total |-> Parts(value, l)] : l \in Lists}

SizeOf(value) ==
    call.fixed + MapThenSumSet(LAMBDA l : MapThenSumSet(LAMBDA i : value[l][i].size + value[l][i].parts,
                                                        DOMAIN value[l]), Lists)

\* One turn of the loop of bound.
Bound ==
    /\ at = "boundResult"
    /\ \E capped \in {cap_arrays(acc.raw, acc.cap)} :
       IF SizeOf(capped) <= Ceiling
       THEN ToolGoto("respond", [acc EXCEPT !.result = capped,
                                           !.truncation = {c \in cuts(acc.raw, acc.cap) : c.returned < c.total}])
       ELSE IF acc.cap = 0 THEN RefuseQuery("graph_error")
       ELSE ToolGoto("boundResult", [acc EXCEPT !.cap = @ \div 2])

\* Seeded bug: only what the library left out marks a search as cut.
MarkSearchByLibrary ==
    IF call.tool = "search" /\ acc.more
    THEN [acc EXCEPT !.code = "ok", !.flag = TRUE,
                     !.truncation = {c \in @ : c.path # <<"first">>}
                                    \cup {[path |-> <<"first">>, returned |-> Len(acc.result.first),
                                           total |-> call.bound + 1]}]
    ELSE [acc EXCEPT !.code = "ok"]
\* A search says that there is more when the library left matches out, and
\* when the ceiling did.
MarkSearch ==
    IF call.tool # "search" THEN [acc EXCEPT !.code = "ok"]
    ELSE IF acc.more
    THEN [acc EXCEPT !.code = "ok", !.flag = TRUE,
                     !.truncation = {c \in @ : c.path # <<"first">>}
                                    \cup {[path |-> <<"first">>, returned |-> Len(acc.result.first),
                                           total |-> call.bound + 1]}]
    ELSE [acc EXCEPT !.code = "ok", !.flag = \E c \in acc.truncation : c.path = <<"first">>]

Respond == at = "respond" /\ ToolGoto("replied", MarkSearch)

QueryNext == AskIndex \/ Bound \/ Respond

---------------------------------------------------------------------------
\* A maintenance request that is refused for what it says, for its repository
\* or for its state directory has opened no index, asked Orbit nothing and
\* stored nothing, whatever else of it is wrong (plugin.rs: maintain; the
\* documents inside a request are decoded after the fields around them).
RefusedTouchesNothing ==
    (at = "maintained" /\ acc.code \notin {"ok", "graph_error"}) =>
        ~acc.opened /\ ~acc.callbacks /\ acc.stored = {}

\* Nothing a caller supplied to an accepted maintenance request was left
\* unread: the table of fields and what the operations use agree (plugin.rs:
\* MaintenanceOperation::reads, maintain).
NothingIsIgnored == (at = "maintained" /\ acc.code = "ok") => acc.used = call.fields

\* What is stored as verified was verified through Orbit, by this call
\* (plugin.rs: maintain).
VerifiedByOrbit == at = "maintained" => ("verified_delivery" \in acc.stored => acc.callbacks)

\* Recommendations for a task are ranked against that task's text: Orbit's
\* answer may be another task's, a supplied text too, and without a cutoff Orbit
\* has confirmed the task (plugin.rs: recommend; recommend.rs:
\* validate_request).
TextIsOfTheTask ==
    (at = "toolAnswered" /\ acc.code = "ok") =>
        /\ call.task # "none" => acc.snapshot = call.task
        /\ call.task # "none" /\ ~call.cutoff => acc.confirmed /\ call.observed = call.task
        /\ call.task = "none" => acc.snapshot = "none"

\* What a task is worth by the results and by the supplied hits.
WorthOf(t) ==
    LET searched == IF acc.source # "orbit" THEN {} ELSE
            {i \in DOMAIN call.search.results :
                call.search.results[i].id = t /\ WellFormed(call.search.results[i], call.search.mode)}
    IN  {IF call.search.results[i].score = "none" THEN RankUnit \div i ELSE call.search.results[i].points :
            i \in searched}
        \cup {call.hits[i].score : i \in {i \in DOMAIN call.hits : call.hits[i].task = t}}

\* A search that fails, or drops results, neither loses a supplied hit nor
\* promotes the results after the dropped ones: each task's relevance is its
\* best hit's, by its original rank, and every result is a hit or counted as
\* dropped (plugin/adapter.rs: hybrid_search; recommend.rs:
\* normalized_hybrid_hits).
HitsKeepTheirRank ==
    (at = "toolAnswered" /\ acc.code = "ok") =>
        /\ \A t \in DOMAIN acc.relevance :
              /\ acc.relevance[t][1] = Max(WorthOf(t))
              /\ \A u \in DOMAIN acc.relevance : acc.relevance[u][1] <= acc.relevance[t][2]
        /\ {call.hits[i].task : i \in DOMAIN call.hits} \subseteq DOMAIN acc.relevance
        /\ acc.source = "orbit" => Len(acc.hits) + acc.dropped = Len(call.hits) + Len(call.search.results)

\* An answer fits the ceiling, and was not cut further than it had to be: a
\* failure means that it does not fit with every list emptied (plugin/query.rs:
\* bound).
AnswerFits ==
    /\ (at = "replied" /\ acc.code = "ok") =>
           /\ SizeOf(acc.result) <= Ceiling
           /\ acc.cap < call.bound =>
                  \E tried \in {2 * acc.cap, 2 * acc.cap + 1} : SizeOf(cap_arrays(acc.raw, tried)) > Ceiling
    /\ (at = "unanswered" /\ acc.code = "graph_error") => call.fixed > Ceiling

\* A caller can tell a cut answer from a whole one: something is reported cut
\* exactly when the answer lacks something the index holds, by counts of what
\* was returned and of what there was; and a search's own flag agrees
\* (plugin/query.rs: execute, cap_arrays).
CutsAreReported ==
    (at = "replied" /\ acc.code = "ok") =>
        /\ (acc.truncation # {}) <=> (acc.result # call.found)
        /\ \A c \in acc.truncation :
              LET l == c.path[1]
                  kept == DOMAIN acc.result[l]
              IN  IF Len(c.path) = 1
                  THEN c.returned = Len(acc.result[l]) /\ c.total <= Len(call.found[l]) /\ c.returned < c.total
                  ELSE /\ c.returned = MapThenSumSet(LAMBDA i : acc.result[l][i].parts, kept)
                       /\ c.total = MapThenSumSet(LAMBDA i : call.found[l][i].parts, kept)
        /\ call.tool = "search" => (acc.flag <=> Len(acc.result.first) < Len(call.found.first))

\* A tool acts on all of a valid request and on nothing of an invalid one, and
\* its answer is of the task asked for and says what it leaves out.
ToolsAreHonest ==
    /\ RefusedTouchesNothing /\ NothingIsIgnored /\ VerifiedByOrbit
    /\ TextIsOfTheTask /\ HitsKeepTheirRank
    /\ AnswerFits /\ CutsAreReported
=============================================================================
