----------------------------- MODULE Evaluation -----------------------------
(* Evaluating the ranking variants over a corpus of prospective cases: which *)
(* cases are admitted, what their held-out truth is, and what is counted.    *)
(*                                                                           *)
(*   corpus       src/crates/orbit-graph/src/evaluation.rs                   *)
(*                                                                           *)
(* A selector is [level, name].  The engine's answers are inputs, Recommend  *)
(* models how they come about.  A time of 0 is unknown.                      *)
EXTENDS Procedure, Integers, Sequences, FiniteSets, FiniteSetsExt

CONSTANTS
    EvaluationCalls,    \* [valid, k, parents, live, training, cases, engine]
    EvalVariants        \* the ranking variants

Levels == {"file", "symbol"}
NoCounts == [total |-> 0, eligible |-> 0, omitted |-> 0]
NoMetric == [cases |-> 0, relevant |-> 0, hits |-> 0, returned |-> 0, stale |-> 0]

EvaluationInit ==
    /\ call \in EvaluationCalls
    /\ at = "evalStart"
    /\ acc = [i |-> 1, results |-> <<>>, truth |-> [l \in Levels |-> {}], coverage |-> [l \in Levels |-> NoCounts],
              queries |-> {}, metrics |-> [q \in EvalVariants \X Levels |-> NoMetric]]

EvaluationGoto(place, new) ==
    /\ at' = place
    /\ acc' = new
    /\ UNCHANGED call

\* validate_corpus and the routing of the repository.
CheckCorpus == EvaluationGoto(IF call.valid THEN "evalCase" ELSE "evalFailed", acc)

Lineage[c \in DOMAIN call.parents] ==
    {c} \cup UNION {Lineage[call.parents[c][j]] : j \in DOMAIN call.parents[c]}

Case == call.cases[acc.i]
Held == Case.held[1]

\* The text was written, and the hits were seen, strictly before the cutoff.
EarlyText(case) == case.text # 0 /\ case.text < case.cutoff /\ case.preExecution
EarlyHits(case) == ~case.hits \/ (case.hitsAt # 0 /\ case.hitsAt < case.cutoff)

\* A known delivery time is authoritative; a lower bound only counts without.
LaterDelivery(case, held) ==
    IF held.time # 0 THEN held.time > case.cutoff ELSE case.lowerBound > case.cutoff

\* validate_case.
Admitted ==
    /\ Case.named /\ EarlyText(Case) /\ EarlyHits(Case)
    /\ Case.held # <<>>
    /\ Held.verified /\ LaterDelivery(Case, Held)
    /\ Case.task \in Held.tasks
    /\ \A d \in call.training : ~(d.before = Held.before /\ d.after = Held.after) /\ Case.task \notin d.tasks
    /\ Case.target \in Lineage[Held.before]
    /\ Held.inScope

Selector(level, name) == [level |-> level, name |-> name]

\* What a level of the held-out change names at the target: one entry for
\* every file, and for every symbol or file without symbols.
Mentions(level) ==
    IF level = "file" THEN {<<f, 0, Held.files[f].old>> : f \in DOMAIN Held.files}
    ELSE UNION {IF Held.files[f].symbols = <<>> THEN {<<f, 0, "none">>}
                ELSE {<<f, s, Held.files[f].symbols[s]>> : s \in DOMAIN Held.files[f].symbols}
                    : f \in DOMAIN Held.files}
LiveMentions(level) ==
    {m \in Mentions(level) : m[3] # "none" /\ Selector(level, m[3]) \in call.live[Case.target]}

\* held_out_truth: what the target does not hold is counted, not judged.
CoverageOf(level) ==
    [total |-> Cardinality(Mentions(level)), eligible |-> Cardinality(LiveMentions(level)),
     omitted |-> Cardinality(Mentions(level) \ LiveMentions(level))]
TruthOf(level) == {Selector(level, m[3]) : m \in LiveMentions(level)}

ExcludeCase ==
    /\ ~Admitted
    /\ EvaluationGoto("evalCase",
           [acc EXCEPT !.i = @ + 1,
                       !.results = Append(@, [evaluated |-> FALSE, truth |-> [l \in Levels |-> {}],
                                              coverage |-> [l \in Levels |-> NoCounts]])])

\* EvaluationWorkspace::create, the import of the training deliveries and the
\* truth; a case whose truth does not resolve at the target is excluded.
OpenCase ==
    LET truth == [l \in Levels |-> TruthOf(l)]
        coverage == [l \in Levels |-> CoverageOf(l)]
        judged == \E l \in Levels : truth[l] # {}
        results == Append(acc.results, [evaluated |-> judged, truth |-> truth, coverage |-> coverage])
    IN  /\ Admitted
        /\ \/ judged /\ EvaluationGoto("evalQuery",
                  [acc EXCEPT !.results = results, !.truth = truth, !.coverage = coverage,
                              !.queries = EvalVariants \X Levels])
           \/ ~judged /\ EvaluationGoto("evalCase", [acc EXCEPT !.i = @ + 1, !.results = results])

\* One variant at one level: what it returns is compared with the truth.
RunQuery ==
    \E q \in {CHOOSE q \in acc.queries : TRUE} :
        LET answer == {Selector(q[2], name) : name \in call.engine[acc.i][q[1]]}
            add == [cases |-> 1, relevant |-> Cardinality(acc.truth[q[2]]), returned |-> Cardinality(answer),
                    hits |-> Cardinality(answer \cap acc.truth[q[2]]),
                    stale |-> Cardinality(answer \ call.live[Case.target])]
        IN  EvaluationGoto("evalQuery",
                [acc EXCEPT !.queries = @ \ {q}, !.metrics[q] = [m \in DOMAIN add |-> @[m] + add[m]]])

CloseCase == EvaluationGoto("evalCase", [acc EXCEPT !.i = @ + 1])
WriteReport == EvaluationGoto("evalReport", acc)

\* Any failure of the workspace or of the engine ends the whole evaluation.
EvaluationFails == EvaluationGoto("evalFailed", acc)

EvaluationNext ==
    \/ at = "evalStart" /\ CheckCorpus
    \/ at = "evalCase" /\ acc.i <= Len(call.cases) /\ (ExcludeCase \/ OpenCase)
    \/ at = "evalCase" /\ acc.i > Len(call.cases) /\ WriteReport
    \/ at = "evalQuery" /\ acc.queries # {} /\ (RunQuery \/ EvaluationFails)
    \/ at = "evalQuery" /\ acc.queries = {} /\ CloseCase

---------------------------------------------------------------------------
Evaluated == {i \in DOMAIN acc.results : acc.results[i].evaluated}

\* A case that counts is prospective: its delivery did land after the cutoff
\* and its text is older than it, whenever what is attested of the delivery
\* is true; a lower bound that a known time contradicts admits nothing
\* (evaluation.rs: validate_case).
CasesAreProspective ==
    at = "evalReport" =>
        \A i \in Evaluated :
            LET case == call.cases[i] held == case.held[1]
            IN  /\ (held.time # 0 \/ case.lowerBound <= held.landed) => held.landed > case.cutoff
                /\ case.text < case.cutoff
                /\ case.target \in Lineage[held.before] /\ held.after \notin Lineage[case.target]

\* Every file and every symbol of a held-out change is either part of the
\* truth's count or counted as omitted (evaluation.rs: held_out_truth).
TruthIsAccounted ==
    at = "evalReport" =>
        \A i \in Evaluated, l \in Levels :
            LET coverage == acc.results[i].coverage[l]
            IN  /\ coverage.total = coverage.eligible + coverage.omitted
                /\ Cardinality(acc.results[i].truth[l]) <= coverage.eligible

\* The metrics are of the evaluated cases and of no other, and no ratio
\* exceeds one (evaluation.rs: evaluate_corpus).
MetricsAreOfTheEvaluated ==
    at = "evalReport" =>
        \A v \in EvalVariants, l \in Levels :
            LET m == acc.metrics[<<v, l>>]
            IN  /\ m.cases = Cardinality(Evaluated)
                /\ m.relevant = MapThenSumSet(LAMBDA i : Cardinality(acc.results[i].truth[l]), Evaluated)
                /\ m.hits <= m.relevant /\ m.hits <= m.returned /\ m.stale <= m.returned
                /\ m.returned <= m.cases * call.k
=============================================================================
