---------------------------- MODULE Associations ----------------------------
(* Directional co-change: which destination a changed one predicts.          *)
(*                                                                           *)
(*   src/crates/orbit-graph/src/recommend.rs   add_associations              *)
(*                                                                           *)
(* A row is a delivery: the destinations it changed, the strength of what it *)
(* says of the request (0: nothing) and its source ids.  Destinations are    *)
(* numbers, in the order of their selectors.  Scores are in thousandths.     *)
EXTENDS Procedure, Naturals, FiniteSets, Sequences, SequencesExt

CONSTANTS
    AssociationCalls,   \* sequences of rows
    SeedLimit           \* ASSOCIATION_SEED_LIMIT

NoBest == [contribution |-> 0, source |-> 0, support |-> 0]

Rows == DOMAIN call
Destinations == UNION {call[i].locations : i \in Rows}
RowsOf(d) == {i \in Rows : d \in call[i].locations}
Prevalence(d) == Cardinality(RowsOf(d))

\* The strongest of a destination's direct contributions.
DirectStrength(d) ==
    LET ubiquity == (1000 * Len(call)) \div (Len(call) + 2 * Prevalence(d))
        strengths == {(call[i].strength * ubiquity) \div 1000 : i \in RowsOf(d)}
    IN CHOOSE x \in strengths : \A y \in strengths : y <= x

\* ln(1 + x) in thousandths, for the lifts of at most three rows in twelfths.
Ln1p(x) ==
    CASE x = 4 -> 288 [] x = 6 -> 405 [] x = 8 -> 511 [] x = 9 -> 560 [] x = 12 -> 693
      [] x = 16 -> 847 [] x = 18 -> 916 [] x = 24 -> 1099 [] x = 36 -> 1386

\* What a seed says of a destination it shares `support` rows with.
Contribution(source, destination, support) ==
    LET confidence == (12 * support) \div Prevalence(source)
        lift == (confidence * Len(call)) \div Prevalence(destination)
    IN (DirectStrength(source) * confidence * Ln1p(lift)) \div 12

\* Seeds by strength, then by selector; the weakest are left out.
Seeds ==
    LET Stronger(c, d) == \/ DirectStrength(c) > DirectStrength(d)
                          \/ DirectStrength(c) = DirectStrength(d) /\ c < d
    IN SetToSortSeq({d \in Destinations : DirectStrength(d) > 0}, Stronger)

---------------------------------------------------------------------------
AssociationInit ==
    /\ call \in AssociationCalls
    /\ at = "seeds" /\ acc = <<>>

SortSeeds ==
    /\ at = "seeds"
    /\ \E seeds \in {Seeds} :
          acc' = [seeds |-> SubSeq(seeds, 1, IF Len(seeds) < SeedLimit THEN Len(seeds) ELSE SeedLimit),
                  kept |-> Range(SubSeq(seeds, 1, IF Len(seeds) < SeedLimit THEN Len(seeds) ELSE SeedLimit)),
                  best |-> [d \in Destinations |-> NoBest]]
    /\ at' = "associate"
    /\ UNCHANGED call

\* A better contribution, or the same from a smaller selector.
Replaces(best, contribution, source) ==
    \/ best = NoBest
    \/ contribution > best.contribution
    \/ contribution = best.contribution /\ source < best.source

\* One seed: its co-occurring destinations are counted over its own rows.
VisitSeed ==
    /\ at = "associate" /\ acc.seeds # <<>>
    /\ LET source == Head(acc.seeds)
           Support(d) == Cardinality({i \in RowsOf(source) : d \in call[i].locations})
       IN \E best \in {[d \in Destinations |->
                          IF d = source \/ Support(d) = 0 THEN acc.best[d]
                          ELSE IF Replaces(acc.best[d], Contribution(source, d, Support(d)), source)
                          THEN [contribution |-> Contribution(source, d, Support(d)),
                                source |-> source, support |-> Support(d)]
                          ELSE acc.best[d]]} :
             acc' = [acc EXCEPT !.seeds = Tail(@), !.best = best]
    /\ UNCHANGED <<call, at>>

\* Elements of both ascending lists, in one pass over them.
intersect_sorted(left, right) ==
    FoldLeft(LAMBDA s, v :
                LET rest == SelectSeq(s.right, LAMBDA w : w >= v)
                IN IF rest # <<>> /\ Head(rest) = v
                   THEN [out |-> Append(s.out, v), right |-> Tail(rest)]
                   ELSE [out |-> s.out, right |-> rest],
             [out |-> <<>>, right |-> right], left).out

\* The winners, each with the source ids of the rows that support it.
ReportAssociations ==
    /\ at = "associate" /\ acc.seeds = <<>>
    /\ LET Listed(d) == SetToSortSeq(RowsOf(d), <)
           Sources(d) == UNION {call[i].sources : i \in
                             Range(intersect_sorted(Listed(acc.best[d].source), Listed(d)))}
           won == {d \in Destinations : acc.best[d] # NoBest}
       IN \E report \in {[d \in won |-> [from |-> acc.best[d].source, support |-> acc.best[d].support,
                                         sources |-> Sources(d)]]} :
             acc' = [kept |-> acc.kept, best |-> acc.best, report |-> report]
    /\ at' = "associated"
    /\ UNCHANGED call

AssociationNext == SortSeeds \/ VisitSeed \/ ReportAssociations

---------------------------------------------------------------------------
(* Properties                                                               *)

Together(c, d) == RowsOf(c) \cap RowsOf(d)

\* Each destination that shares a delivery with a kept seed has one
\* association, from the seed that says most of it, of equals the first by
\* selector, whatever the order of the visits (add_associations).
AssociationIsTheBest ==
    at = "associated" =>
        \A d \in Destinations :
            LET seeds == {s \in acc.kept : s # d /\ Together(s, d) # {}}
                Said(s) == Contribution(s, d, Cardinality(Together(s, d)))
            IN IF seeds = {} THEN d \notin DOMAIN acc.report
               ELSE /\ d \in DOMAIN acc.report
                    /\ acc.report[d].from =
                         CHOOSE s \in seeds : \A o \in seeds : Said(s) > Said(o) \/ (Said(s) = Said(o) /\ s <= o)

\* A seed that was left out is no stronger than one that was kept, and the
\* support a reason states is that of the deliveries it names.
ReasonsNameTheirEvidence ==
    at = "associated" =>
        /\ \A s \in Destinations \ acc.kept : DirectStrength(s) > 0 =>
              \A k \in acc.kept : DirectStrength(k) >= DirectStrength(s)
        /\ \A d \in DOMAIN acc.report :
              /\ acc.report[d].support = Cardinality(Together(acc.report[d].from, d))
              /\ acc.report[d].sources = UNION {call[i].sources : i \in Together(acc.report[d].from, d)}
=============================================================================
