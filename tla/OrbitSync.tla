----------------------------- MODULE OrbitSync -----------------------------
(* `maintain` with operation=orbit_sync (plugin.rs, plugin/adapter.rs): a    *)
(* batch of tasks and task/run pairs is judged, one pair after another,      *)
(* through Orbit's workspace list, task read and delivery read and through   *)
(* local Git, and what was landed is stored in the history index.  Orbit's   *)
(* answers are part of the call; meanwhile the landing branch moves, and     *)
(* another process stores into the index.                                    *)
EXTENDS Naturals, Sequences, FiniteSets, SequencesExt, Procedure

CONSTANTS SyncCalls   \* families of calls, with what Orbit and the repository hold

NoValue == "none"
Deny(class) == [kind |-> class, id |-> NoValue]
Route(id) == [kind |-> "ok", id |-> id]

SyncBatchInit ==
    /\ \E calls \in SyncCalls : call \in calls
    /\ at = "tasks"
    /\ acc = [i |-> 1, pairs |-> call.pairs, examined |-> 0, truncated |-> FALSE, entries |-> <<>>,
              index |-> call.index, tip |-> call.tip, moves |-> 0, found |-> NoValue, verified |-> {}]

Step(next, s) == at' = next /\ acc' = s /\ UNCHANGED call

---------------------------------------------------------------------------
(* Whose task it is                                                          *)

\* The first listed workspace of that id (or, without an expected name, of that
\* name) must be active and publish the repository's own remote.
authority_for_workspace(workspace, name) ==
    LET rows == SelectSeq(call.rows, LAMBDA r : r.id = workspace \/ (name = NoValue /\ r.name = workspace))
    IN  CASE rows = <<>> -> Deny("invalid_input")
          [] name # NoValue /\ rows[1].name # name -> Deny("invalid_data")
          [] rows[1].status = "inactive" \/ (name # NoValue /\ rows[1].status # "active") -> Deny("invalid_input")
          [] rows[1].remote = NoValue \/ rows[1].remote # call.origin -> Deny("invalid_input")
          [] OTHER -> Route(rows[1].id)

\* The task as the routed workspace holds it, and the route.
task_observation(t) ==
    CASE call.selector = NoValue -> Deny("invalid_input")
      [] call.selector = "path" ->
            LET task == call.tasks["path"][t] IN
            (CASE call.checkout # "repository" -> Deny("invalid_input")
               [] task.id = NoValue -> Deny("orbit_refused")
               [] task.id # t \/ task.owner = NoValue -> Deny("invalid_data")
               [] OTHER -> authority_for_workspace(task.owner, task.ownerName))
      [] OTHER ->
            LET route == authority_for_workspace(call.selector, NoValue) IN
            IF route.kind = "ok" /\ call.tasks[route.id][t].id = NoValue THEN Deny("orbit_refused") ELSE route
TaskRead(t, route) == IF call.selector = "path" THEN call.tasks["path"][t] ELSE call.tasks[route.id][t]

---------------------------------------------------------------------------
(* What was delivered                                                        *)

Commits == DOMAIN call.parents
Ancestors ==
    LET up[c \in Commits] == {c} \cup UNION {up[p] : p \in Range(call.parents[c])} IN up
Descends(c, a) == c # a /\ a \in Ancestors[c]
Reaches(tip, c) == c \in Ancestors[tip]

\* The entries a tree diff changes, with their contents before and after.
tree_changes(old, new) ==
    {[path |-> p, old |-> call.trees[old][p], new |-> call.trees[new][p]] :
        p \in {p \in DOMAIN call.trees[old] : call.trees[old][p] # call.trees[new][p]}}

\* An answer of another version, or for another pair, was not for this request.
decode_run_delivery(d, pair) == d.schema = 1 /\ d.task = pair.task /\ d.run = pair.run

verify_observed_repository(d) == d.repository # NoValue /\ call.origin # NoValue /\ d.repository = call.origin

landed_evidence(d) ==
    /\ d.status = "landed" /\ d.landing = "merged" /\ d.commit \in {"committed", "already_committed"}
    /\ d.base # 0 /\ d.method # NoValue

Delivered(before, after) == [kind |-> "range", before |-> before, after |-> after]
Excluded == [kind |-> "excluded", before |-> 0, after |-> 0]
Failed == [kind |-> "failed", before |-> 0, after |-> 0]

\* Seeded bug: a squash is recognised by the paths it changes.
RangeByPaths(d, tip) ==
    CASE d.head = 0 \/ ~Descends(d.head, d.base) -> Excluded
      [] Reaches(tip, d.head) -> Delivered(d.base, d.head)
      [] d.method = "local" \/ d.landed = 0 \/ ~Reaches(tip, d.landed) \/ Len(call.parents[d.landed]) # 1 -> Excluded
      [] {c.path : c \in tree_changes(d.base, d.head)}
            # {c.path : c \in tree_changes(call.parents[d.landed][1], d.landed)} -> Excluded
      [] OTHER -> Delivered(call.parents[d.landed][1], d.landed)
\* The range on the branch that makes exactly the changes of base..head.
verify_landed_range(d, tip) ==
    CASE d.head = 0 \/ ~Descends(d.head, d.base) -> Excluded
      [] Reaches(tip, d.head) -> Delivered(d.base, d.head)
      [] d.method = "local" \/ d.landed = 0 \/ ~Reaches(tip, d.landed) \/ Len(call.parents[d.landed]) # 1 -> Excluded
      [] d.base \notin Ancestors[call.parents[d.landed][1]] -> Excluded
      [] tree_changes(d.base, d.head) # tree_changes(call.parents[d.landed][1], d.landed) -> Excluded
      [] OTHER -> Delivered(call.parents[d.landed][1], d.landed)

\* unverified: refused authority is a verdict, anything unreadable a failure.
unverified(class) == IF class = "invalid_input" THEN Excluded ELSE Failed

\* What is known of when a task's text was written.
task_snapshot_from_value(task) ==
    CASE task.started -> "post_execution" [] task.pending -> "known_pre_execution" [] OTHER -> "uncertain"

delivery_for_task_run(pair, tip) ==
    LET route == task_observation(pair.task)
        d == call.deliveries[pair]
    IN  CASE route.kind # "ok" -> unverified(route.kind)
          [] TaskRead(pair.task, route).id # pair.task -> Excluded
          [] d.schema = 0 -> Failed
          [] ~decode_run_delivery(d, pair) -> Failed
          [] d.workspace # route.id \/ ~verify_observed_repository(d) \/ ~landed_evidence(d) -> Excluded
          [] OTHER -> verify_landed_range(d, tip)

---------------------------------------------------------------------------
(* The batch                                                                 *)

Entry(task, run, status) == [task |-> task, run |-> run, status |-> status]

\* One requested task: its current run joins the pairs.
ExamineTask ==
    /\ at = "tasks" /\ acc.i <= Len(call.taskIds) /\ Len(acc.pairs) < call.bound
    /\ \E t \in {call.taskIds[acc.i]} : \E route \in {task_observation(t)} :
       \E s \in {[acc EXCEPT !.i = @ + 1, !.examined = @ + 1]} :
           IF route.kind # "ok"
           THEN Step("tasks", [s EXCEPT !.entries = Append(@, Entry(t, NoValue, unverified(route.kind).kind))])
           ELSE IF TaskRead(t, route).run = NoValue
           THEN Step("tasks", [s EXCEPT !.entries = Append(@, Entry(t, NoValue, "excluded"))])
           ELSE Step("tasks", [s EXCEPT !.pairs = Append(@, [task |-> t, run |-> TaskRead(t, route).run])])

\* The first of equal pairs, in order (retain with a set of those seen).
Unique(pairs) ==
    LET first == {i \in DOMAIN pairs : \A j \in 1..(i - 1) : pairs[j] # pairs[i]}
        order == SetToSortSeq(first, <)
    IN  [k \in DOMAIN order |-> pairs[order[k]]]

Truncated(pairs) == Len(pairs) > call.bound \/ acc.examined < Len(call.taskIds)

SelectPairs ==
    /\ at = "tasks"
    /\ acc.i > Len(call.taskIds) \/ Len(acc.pairs) >= call.bound
    /\ \E pairs \in {Unique(acc.pairs)} :
           Step("pairs", [acc EXCEPT !.i = 1, !.truncated = Truncated(pairs),
                                     !.pairs = SubSeq(pairs, 1, IF Len(pairs) < call.bound THEN Len(pairs) ELSE call.bound)])

Report(s, pair, status) ==
    Step("pairs", [s EXCEPT !.i = @ + 1, !.entries = Append(@, Entry(pair.task, pair.run, status)), !.found = NoValue])

JudgePair ==
    /\ at = "pairs" /\ acc.i <= Len(acc.pairs)
    /\ \E pair \in {acc.pairs[acc.i]} : \E v \in {delivery_for_task_run(pair, acc.tip)} :
           IF v.kind # "range" THEN Report(acc, pair, v.kind)
           ELSE Step("judged", [acc EXCEPT !.found = v,
                                           !.verified = @ \cup {[pair |-> pair, before |-> v.before, after |-> v.after, tip |-> acc.tip]}])

\* The stored delivery of that id is looked up before anything is written; an
\* index that cannot be read ends the batch.
LookUp ==
    /\ at = "judged"
    /\ \E pair \in {acc.pairs[acc.i]} :
       \E known \in {{d \in acc.index : d.pair = pair /\ d.before = acc.found.before /\ d.after = acc.found.after}} :
           \/ known # {} /\ call.snapshot = NoValue /\ Report(acc, pair, "already_indexed")
           \/ known # {} /\ call.snapshot # NoValue /\ Step("attaching", acc)
           \/ known = {} /\ Step("importing", acc)
           \/ call.broken /\ Step("error", acc)

\* add_supplied_snapshot: the first text stays.
AttachSnapshot ==
    /\ at = "attaching"
    /\ \E pair \in {acc.pairs[acc.i]} : \E d \in {d \in acc.index : d.pair = pair} :
           IF d.evidence = "verified" /\ d.snapshot \in {NoValue, call.snapshot}
           THEN Report([acc EXCEPT !.index = (@ \ {d}) \cup {[d EXCEPT !.snapshot = call.snapshot]}], pair, "already_indexed")
           ELSE Report(acc, pair, "excluded")

\* insert_delivery: the capture time makes a stored delivery of that id differ.
insert_delivery(index, d) == IF \E e \in index : e.pair = d.pair THEN index ELSE index \cup {d}

ImportPair ==
    /\ at = "importing"
    /\ \E pair \in {acc.pairs[acc.i]} :
       \E d \in {[pair |-> pair, before |-> acc.found.before, after |-> acc.found.after, evidence |-> "verified",
                  text |-> task_snapshot_from_value(TaskRead(pair.task, task_observation(pair.task))),
                  snapshot |-> call.snapshot]} :
           IF ~Reaches(acc.tip, d.after) THEN Report(acc, pair, "excluded")
           ELSE \E index \in {insert_delivery(acc.index, d)} :
                    Report([acc EXCEPT !.index = index], pair, IF d \in index /\ index # acc.index THEN "inserted" ELSE "excluded")

EndBatch == at = "pairs" /\ acc.i > Len(acc.pairs) /\ Step("answered", acc)

\* The landing branch is moved, once, meanwhile.
BranchMoves ==
    /\ at \in {"pairs", "judged", "importing"} /\ acc.moves = 0
    /\ \E c \in call.tips : Step(at, [acc EXCEPT !.tip = c, !.moves = 1])
\* Another process stores the same delivery, which it judged for itself.
OtherImports ==
    /\ at \in {"judged", "importing", "attaching"} /\ call.rival
    /\ \E pair \in {acc.pairs[acc.i]} : \E v \in {delivery_for_task_run(pair, acc.tip)} :
           /\ v.kind = "range" /\ \A d \in acc.index : d.pair # pair
           /\ Step(at, [acc EXCEPT
                 !.index = @ \cup {[pair |-> pair, before |-> v.before, after |-> v.after,
                                    evidence |-> "verified", text |-> "uncertain", snapshot |-> NoValue]},
                 !.verified = @ \cup {[pair |-> pair, before |-> v.before, after |-> v.after, tip |-> acc.tip]}])

SyncBatchNext ==
    \/ ExamineTask \/ SelectPairs \/ JudgePair \/ LookUp \/ AttachSnapshot \/ ImportPair \/ EndBatch
    \/ BranchMoves \/ OtherImports

---------------------------------------------------------------------------
(* Properties                                                                *)

InBatch == at \in {"tasks", "pairs", "judged", "attaching", "importing", "answered"}

\* A range that was verified lies on the landing branch and changes exactly
\* what the run committed: the same files, from and to the same contents, also
\* when the commits were squashed onto a branch that had moved on.
DeliveryIsTheChange ==
    InBatch => \A v \in acc.verified : \E d \in {call.deliveries[v.pair]} :
        /\ Reaches(v.tip, v.after) /\ Descends(v.after, v.before)
        /\ d.base \in Ancestors[v.before]
        /\ tree_changes(v.before, v.after) = tree_changes(d.base, d.head)

\* What is verified for a pair is what Orbit says of that task and run in an
\* active workspace that publishes this repository's remote, which is the one
\* the task was read from.
DeliveryIsOfTheTask ==
    InBatch => \A v \in acc.verified : \E d \in {call.deliveries[v.pair]} :
        /\ d.task = v.pair.task /\ d.run = v.pair.run /\ d.repository = call.origin
        /\ d.status = "landed" /\ d.landing = "merged"
        /\ \E r \in Range(call.rows) :
               /\ r.id = d.workspace /\ r.status # "inactive" /\ r.remote = call.origin
               /\ call.tasks[IF call.selector = "path" THEN "path" ELSE r.id][v.pair.task].id = v.pair.task

\* Every requested task and pair has an outcome of its own, or the answer says
\* that it left some out; and no pair is reported twice.
EveryItemIsAccounted ==
    at = "answered" =>
        /\ \/ acc.truncated
           \/ /\ \A t \in Range(call.taskIds) : \E e \in Range(acc.entries) : e.task = t
              /\ \A p \in Range(call.pairs) : \E e \in Range(acc.entries) : e.task = p.task /\ e.run = p.run
        /\ \A i, j \in DOMAIN acc.entries :
               i # j /\ acc.entries[i].run # NoValue => acc.entries[i] # acc.entries[j]
        /\ Len(acc.pairs) <= call.bound

\* A verified delivery is the change of the task's run in the right workspace,
\* and every requested item has its outcome.
DeliveriesAreProven == DeliveryIsTheChange /\ DeliveryIsOfTheTask /\ EveryItemIsAccounted
=============================================================================
