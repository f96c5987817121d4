--------------------------- MODULE LiveEvaluation ---------------------------
(* Holding out the commits of a branch one by one, newest first, and asking  *)
(* for recommendations at each one's parent.                                 *)
(*                                                                           *)
(*   live evaluation   src/crates/orbit-graph/src/live_evaluation.rs         *)
(*                                                                           *)
(* The engine's answers are inputs: it may cite any delivery.                *)
EXTENDS Procedure, Integers, Sequences, FiniteSets, FiniteSetsExt

CONSTANTS
    LiveCalls,      \* [parents, tip, deliveries, subject, live, engine, k, limit]
    LiveVariants    \* the scoring points

LiveInit ==
    /\ call \in LiveCalls
    /\ at = "liveWalk"
    /\ acc = [commit |-> call.tip, cases |-> <<>>, skipped |-> 0, stop |-> "history_exhausted", result |-> "none"]

LiveGoto(place, new) ==
    /\ at' = place
    /\ acc' = new
    /\ UNCHANGED call

LiveParents(c) == call.parents[c]
Known == DOMAIN call.deliveries

\* first_parent_order.
FirstParents[c \in DOMAIN call.parents] ==
    IF LiveParents(c) = <<>> THEN <<c>> ELSE <<c>> \o FirstParents[LiveParents(c)[1]]
Position(c) == {i \in DOMAIN FirstParents[call.tip] : FirstParents[call.tip][i] = c}
AncestorsOf[c \in DOMAIN call.parents] ==
    {c} \cup UNION {AncestorsOf[LiveParents(c)[j]] : j \in DOMAIN LiveParents(c)}

\* index_by_after.
EndingAt(c) == {d \in Known : call.deliveries[d].after = c}

\* The commit's own delivery, or the first one that ends there.
TruthSource(c) ==
    IF \E d \in EndingAt(c) : call.deliveries[d].git THEN CHOOSE d \in EndingAt(c) : call.deliveries[d].git
    ELSE Min(EndingAt(c))

\* truth_at_parent: what the commit changed and its parent holds.
TruthAt(parent, d) ==
    {f.path : f \in {f \in call.deliveries[d].files : f.kind \in {"modified", "deleted"} /\ f.path \in call.live[parent]}}

\* Seeded bug: a delivery that ends off the first-parent line is not checked.
ProhibitedOnLineOnly(target) ==
    {d \in Known : \E a \in Position(call.deliveries[d].after), t \in Position(target) : a < t}

\* prohibited_ids: by position on the line, by ancestry off it.
Prohibited(target) ==
    {d \in Known :
        LET after == call.deliveries[d].after
        IN  IF Position(after) # {} /\ Position(target) # {}
            THEN \E a \in Position(after), t \in Position(target) : a < t
            ELSE after \notin AncestorsOf[target]}

\* evaluate_case: the hits of one variant, and the rank of the first.
Scored(answer, truth) ==
    LET hits == {i \in DOMAIN answer : answer[i] \in truth}
    IN  [hits |-> Cardinality(hits), first |-> IF hits = {} THEN 0 ELSE Min(hits)]
CaseOf(c) ==
    LET parent == LiveParents(c)[1]
        truth == TruthAt(parent, TruthSource(c))
    IN  [commit |-> c, parent |-> parent, restating |-> call.subject[c] = "restating", truth |-> truth,
         cited |-> call.engine[parent].cited,
         leakage |-> call.engine[parent].cited \cap Prohibited(parent),
         scores |-> [v \in LiveVariants |-> Scored(call.engine[parent].ranked[v], truth)]]

Stop(reason) == LiveGoto("liveReport", [acc EXCEPT !.stop = reason])
Advance(new) == LiveGoto("liveWalk", [new EXCEPT !.commit = LiveParents(acc.commit)[1]])

\* The loop of evaluate_live_git: it ends at the first commit that no
\* delivery ends at.
HoldOut ==
    \/ Len(acc.cases) = call.limit /\ Stop("limit_reached")
    \/ Len(acc.cases) < call.limit /\ LiveParents(acc.commit) = <<>> /\ Stop("history_exhausted")
    \/ /\ Len(acc.cases) < call.limit /\ LiveParents(acc.commit) # <<>>
       /\ EndingAt(acc.commit) = {}
       /\ Stop("index_exhausted")
    \/ /\ Len(acc.cases) < call.limit /\ LiveParents(acc.commit) # <<>>
       /\ EndingAt(acc.commit) # {}
       /\ IF call.subject[acc.commit] = "empty" THEN Advance([acc EXCEPT !.skipped = @ + 1])
          ELSE Advance([acc EXCEPT !.cases = Append(@, CaseOf(acc.commit))])

\* No case at all is an error, and so is one leaked citation.
FinishLive ==
    LiveGoto("liveDone",
        [acc EXCEPT !.result =
            IF acc.cases = <<>> THEN "no_cases"
            ELSE IF \E i \in DOMAIN acc.cases : acc.cases[i].leakage # {} THEN "leakage"
            ELSE "report"])

LiveNext ==
    \/ at = "liveWalk" /\ HoldOut
    \/ at = "liveReport" /\ FinishLive

\* cohort_report: the cases of a cohort that have a truth.
Cohort(name) ==
    {i \in DOMAIN acc.cases :
        /\ acc.cases[i].truth # {}
        /\ name = "all" \/ (acc.cases[i].restating <=> name = "title_restating")}

\* MetricAccumulator::finish; the reciprocal ranks in parts of 12.
Metric(name, v) ==
    [cases |-> Cardinality(Cohort(name)),
     relevant |-> MapThenSumSet(LAMBDA i : Cardinality(acc.cases[i].truth), Cohort(name)),
     hits |-> MapThenSumSet(LAMBDA i : acc.cases[i].scores[v].hits, Cohort(name)),
     reciprocal |-> MapThenSumSet(LAMBDA i : IF acc.cases[i].scores[v].first = 0 THEN 0
                                             ELSE 12 \div acc.cases[i].scores[v].first, Cohort(name))]

---------------------------------------------------------------------------
\* A report is given exactly when no recommendation rests on a delivery that
\* its target did not contain yet, on the landing branch or beside it
\* (live_evaluation.rs: prohibited_ids, evaluate_live_git).
LeaksAreCaught ==
    (at = "liveDone" /\ acc.cases # <<>>) =>
        (acc.result = "report" <=>
            \A i \in DOMAIN acc.cases : \A d \in acc.cases[i].cited :
                call.deliveries[d].after \in AncestorsOf[acc.cases[i].parent])

\* The held-out commits are an unbroken run from the tip: only commits
\* without a subject are passed over (live_evaluation.rs: evaluate_live_git).
HeldOutIsUnbroken ==
    at = "liveDone" =>
        LET line == FirstParents[call.tip]
            used == 1..(Len(acc.cases) + acc.skipped)
        IN  /\ Len(acc.cases) <= call.limit
            /\ \A i \in used : EndingAt(line[i]) # {}
            /\ \A i \in used : call.subject[line[i]] # "empty" => \E j \in DOMAIN acc.cases : acc.cases[j].commit = line[i]

\* The two cohorts divide the cases with a truth, nothing is found more often
\* than it exists, and the mean reciprocal rank is positive only with a hit
\* and at most one (live_evaluation.rs: cohort_report, MetricAccumulator).
CohortsAddUp ==
    at = "liveDone" =>
        \A v \in LiveVariants :
            \E whole \in {Metric("all", v)}, with \in {Metric("title_restating", v)},
               without \in {Metric("without_title_restating", v)} :
                /\ \A m \in DOMAIN whole : whole[m] = with[m] + without[m]
                /\ whole.hits <= whole.relevant /\ whole.hits <= whole.cases * call.k
                /\ whole.cases <= whole.relevant
                /\ whole.reciprocal <= 12 * whole.cases /\ (whole.reciprocal > 0 <=> whole.hits > 0)
=============================================================================
