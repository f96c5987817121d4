--------------------------- MODULE HistoryExtract ---------------------------
(* What one file of a delivered change did to the file's symbols.            *)
(*                                                                           *)
(*   src/crates/orbit-graph-extract/src/history.rs                           *)
(*       extract_tree_diff, attribute_side, pair_symbols                     *)
(*                                                                           *)
(* A call holds the delta's status and both sides of the file.  A side is a  *)
(* sequence of symbols and the lines the patch changed on it; a symbol is    *)
(* its index there.  Lines are two bytes long, so two symbols can meet in    *)
(* the middle of one.                                                        *)
EXTENDS Procedure, Naturals, FiniteSets, Sequences, SequencesExt

CONSTANT ExtractCalls   \* [status, before, after]

NoSymbol == 0

---------------------------------------------------------------------------
(* Attribution of changed lines                                             *)

\* The byte range of each line; a side has `lines` of them.
line_byte_ranges(side) == [l \in 1..side.lines |-> [lo |-> 2 * l - 2, hi |-> 2 * l]]

\* A rename or copy without a hunk changes every line of both sides.
ChangedLines(status, side, other) ==
    IF status \in {"renamed", "copied"} /\ side.changed = {} /\ other.changed = {}
    THEN DOMAIN line_byte_ranges(side) ELSE side.changed

Inside(s, t) == s.lo >= t.lo /\ s.hi <= t.hi /\ (s.lo > t.lo \/ s.hi < t.hi)

\* The symbols that intersect a line and hold no other that does.
Innermost(symbols, range) ==
    LET meets == {i \in DOMAIN symbols : symbols[i].lo < range.hi /\ symbols[i].hi > range.lo}
    IN {i \in meets : \A j \in meets : ~Inside(symbols[j], symbols[i])}

\* Changed symbols in the order of their spans, what to say of the rest.
attribute_side(side, changed) ==
    LET ranges == line_byte_ranges(side)
        Of(l) == IF l \in DOMAIN ranges THEN Innermost(side.symbols, ranges[l]) ELSE {}
        Before(i, j) == LET s == side.symbols[i]  t == side.symbols[j]
                        IN s.lo < t.lo \/ (s.lo = t.lo /\ s.hi < t.hi)
        credited == UNION {Of(l) : l \in changed}
        Attribution(order, lines, fallback) ==
            [order |-> order, lines |-> lines, fallback |-> fallback]
    IN IF side.state # "text" THEN Attribution(<<>>, <<>>, side.state)
       ELSE IF side.symbols = <<>>
       THEN Attribution(<<>>, <<>>, IF side.evidence THEN "no_symbol" ELSE "uncertain")
       ELSE Attribution(SetToSortSeq(credited, Before),
                        [i \in credited |-> {l \in changed : i \in Of(l)}],
                        IF \E l \in changed : Of(l) = {} THEN "no_symbol" ELSE "none")

---------------------------------------------------------------------------
(* Pairing across the revisions                                             *)

SameName(s, t) ==
    s.qualified = t.qualified /\ s.kind = t.kind /\ (s.overloaded => s.signature = t.signature)
SameSignature(s, t) ==
    s.kind = t.kind /\ s.signature # "none" /\ s.signature = t.signature
Resembles(s, t) ==
    s.kind = t.kind /\ (s.name = t.name \/ (s.signature # "none" /\ s.signature = t.signature))

\* The one candidate that fits and is not excluded, or none.
unique_candidate(fitting, excluded) ==
    LET left == fitting \ excluded
    IN IF Cardinality(left) = 1 THEN CHOOSE i \in left : TRUE ELSE NoSymbol

Namesakes(s, symbols) == {i \in DOMAIN symbols : SameName(s, symbols[i])}
Likes(s, symbols) == {i \in DOMAIN symbols : SameSignature(s, symbols[i])}

\* Seeded bug: an equal signature is preferred to an equal name.
CounterpartBySignature(s, symbols, excluded) ==
    LET similar == unique_candidate(Likes(s, symbols), excluded)
    IN IF similar # NoSymbol THEN similar
       ELSE unique_candidate(Namesakes(s, symbols), excluded)

\* A unique equal name, else a unique equal signature.
Counterpart(s, symbols, excluded) ==
    LET exact == unique_candidate(Namesakes(s, symbols), excluded)
    IN IF exact # NoSymbol THEN exact
       ELSE unique_candidate(Likes(s, symbols), excluded)

Confidence(s, found, symbols, excluded) ==
    IF found # NoSymbol
    THEN IF symbols[found].qualified = s.qualified THEN "exact" ELSE "similar"
    ELSE IF Cardinality({i \in DOMAIN symbols \ excluded : Resembles(s, symbols[i])}) > 1
         THEN "uncertain" ELSE "unmatched"

Change(before, after, confidence, live) ==
    [before |-> before, after |-> after, confidence |-> confidence, live |-> live]

---------------------------------------------------------------------------
(* The procedure                                                            *)

ExtractInit ==
    /\ call \in ExtractCalls
    /\ at = "extract" /\ acc = <<>>

\* Both sides are read and their changed lines attributed.
Attribute ==
    /\ at = "extract"
    /\ \E before \in {attribute_side(call.before, ChangedLines(call.status, call.before, call.after))},
          after \in {attribute_side(call.after, ChangedLines(call.status, call.after, call.before))} :
          acc' = [before |-> before, after |-> after, old |-> before.order, new |-> after.order,
                  matchedBefore |-> {}, matchedAfter |-> {}, changes |-> <<>>]
    /\ at' = "pair"
    /\ UNCHANGED call

\* First loop: a changed symbol of the old side looks for itself in the new.
PairOld ==
    /\ at = "pair" /\ acc.old # <<>>
    /\ LET old == Head(acc.old)
           s == call.before.symbols[old]
       IN \E found \in {Counterpart(s, call.after.symbols, acc.matchedAfter)} :
          acc' = [acc EXCEPT
                    !.old = Tail(@),
                    !.new = SelectSeq(@, LAMBDA i : i # found),
                    !.matchedAfter = @ \cup ({found} \ {NoSymbol}),
                    !.matchedBefore = IF found = NoSymbol THEN @ ELSE @ \cup {old},
                    !.changes = Append(@, Change(old, found,
                        Confidence(s, found, call.after.symbols, acc.matchedAfter), found # NoSymbol))]
    /\ UNCHANGED <<call, at>>

\* Second loop: a changed symbol of the new side nobody took looks back.
PairNew ==
    /\ at = "pair" /\ acc.old = <<>> /\ acc.new # <<>>
    /\ LET new == Head(acc.new)
           s == call.after.symbols[new]
       IN \E found \in {Counterpart(s, call.before.symbols, acc.matchedBefore)} :
          acc' = [acc EXCEPT
                    !.new = Tail(@),
                    !.matchedBefore = @ \cup ({found} \ {NoSymbol}),
                    !.changes = Append(@, Change(found, new,
                        Confidence(s, found, call.before.symbols, acc.matchedBefore), TRUE))]
    /\ UNCHANGED <<call, at>>

PairsDone ==
    /\ at = "pair" /\ acc.old = <<>> /\ acc.new = <<>>
    /\ at' = "extracted"
    /\ UNCHANGED <<call, acc>>

ExtractNext == Attribute \/ PairOld \/ PairNew \/ PairsDone

---------------------------------------------------------------------------
(* Properties                                                               *)

Extracted == at = "extracted"
Reports(i, side) == {n \in DOMAIN acc.changes : acc.changes[n][side] = i}
Pairs == {n \in DOMAIN acc.changes :
             acc.changes[n].before # NoSymbol /\ acc.changes[n].after # NoSymbol}

\* No symbol is the other side of two pairs, and every changed symbol of the
\* new side is reported once, of the old side at least once (pair_symbols):
\* a delivery neither invents, loses nor doubles a symbol's change.
PairingIsOneToOne ==
    Extracted =>
        /\ \A m, n \in Pairs : m # n =>
              acc.changes[m].before # acc.changes[n].before /\ acc.changes[m].after # acc.changes[n].after
        /\ \A i \in Range(acc.after.order) : Cardinality(Reports(i, "after")) = 1
        /\ \A i \in Range(acc.before.order) : Reports(i, "before") # {}

\* A changed line is credited to every innermost symbol it touches, or the
\* side says that lines were left over (attribute_side): no line is silently
\* dropped and none is credited to a symbol and to one around it.
LinesAreAccounted ==
    Extracted =>
        \A side \in {"before", "after"} :
            LET attribution == acc[side]
                changed == ChangedLines(call.status, call[side],
                               call[IF side = "before" THEN "after" ELSE "before"])
                symbols == call[side].symbols
                Touches(i, l) == symbols[i].lo < 2 * l /\ symbols[i].hi > 2 * l - 2
                Credited(l) == {i \in Range(attribution.order) : l \in attribution.lines[i]}
            IN \A l \in changed :
                  /\ Credited(l) = {} => attribution.fallback # "none"
                  /\ \A i, j \in Credited(l) : ~Inside(symbols[i], symbols[j])
                  /\ attribution.fallback = "none" =>
                        \A i \in DOMAIN symbols : Touches(i, l) =>
                            \E j \in Credited(l) : i = j \/ Inside(symbols[j], symbols[i])

\* An edited or removed symbol of the old side that has one namesake on the
\* new side is paired with it, exactly and live, unless a symbol before it
\* took the namesake for its own (Counterpart): an edit in place does not look
\* like a deletion and an addition.
EditsKeepIdentity ==
    Extracted =>
        \A n \in DOMAIN acc.before.order :
            LET i == acc.changes[n].before
                s == call.before.symbols[i]
                there == {j \in DOMAIN call.after.symbols : SameName(s, call.after.symbols[j])}
            IN Cardinality(there) = 1 =>
                \/ acc.changes[n].after \in there /\ acc.changes[n].confidence = "exact" /\ acc.changes[n].live
                \/ \E m \in 1..(n - 1) : acc.changes[m].after \in there

\* What a delivery says it changed is what it changed: lines are credited to
\* symbols, symbols are paired, each once, and an edit keeps its identity.
ChangesAreAttributed == PairingIsOneToOne /\ LinesAreAccounted /\ EditsKeepIdentity
=============================================================================
